------------------------------ MODULE JmmConf -------------------------------
(***************************************************************************)
(* Reading the configuration: main takes the path from the command line    *)
(* (src/src/jmm.c); jmm_init_conf loads that file or else the default one  *)
(* line by line, then takes the keys it must have from the section COMMON  *)
(* (src/src/jmm_conf.c, src/3rd/iniconfig.c).                              *)
(*                                                                         *)
(* The file at SavedPath was written before by a program that made a list  *)
(* of sections with the same library and saved it.  Any other file is what *)
(* the lines of one run happen to be: the environment of the model chooses *)
(* each line when it is read.                                              *)
(***************************************************************************)
EXTENDS IniConfig

CONSTANTS
  NotSaved,   (* no file was saved, or what else it has is not known     *)
  NoPath,     (* conf_path is empty                                      *)
  SavedPath,  (* the path of the saved file                              *)
  OtherPath,  (* any other path                                          *)
  DefPath,    (* JMM_CONF_DEF_CONF_PATH                                  *)
  Sections,   (* section names                                           *)
  Common,     (* JMM_CONF_SESSION                                        *)
  NoSection,  (* cur_sec is null                                         *)
  MustKeys,   (* the keys in the order they are asked for                *)
  OtherKeys,  (* keys that may be in a file and are not asked for        *)
  IntKeys,    (* those read with get_int                                 *)
  LevelKeys,  (* those that go through clog_get_level                    *)
  Numbers,    (* values sscanf("%d") reads                               *)
  Levels,     (* values clog_get_level knows                             *)
  Words,      (* other values                                            *)
  MaxLines,   (* bound: the lines of both files together                 *)
  MaxEdits    (* bound: calls of the library before the save             *)

Keys == ToSet(MustKeys)
FileKeys == Keys \cup OtherKeys
Values == Numbers \cup Levels \cup Words

ASSUME ConfAssumption ==
  /\ MustKeys \in Seq(Keys)
  /\ MustKeys # << >>
  /\ Common \in Sections
  /\ NoSection \notin Sections
  /\ IntKeys \subseteq Keys
  /\ LevelKeys \subseteq Keys \ IntKeys
  /\ MaxLines \in Nat
  /\ MaxEdits \in 0 .. MaxLines

(* What a line is to ini_load_fd.  "other": a comment, an empty line, one  *)
(* without "=" or without a value; "open": a section without its bracket.  *)
Lines ==
  [kind : {"other", "open"}]
    \cup [kind : {"section"}, name : Sections]
    \cup [kind : {"item"}, key : FileKeys, value : Values]

NextFile == [kind |-> "file"]

VARIABLES
  phase,   (* "edit": the other program makes its list; "args": main      *)
           (* reads the options; "first", "fallback": loading conf_path   *)
           (* or the default file; "get": loaded; "ok", "fail": returned; *)
           (* "exit": main has exited; "crash": ended by a signal         *)
  secs,    (* the sections of ini                                         *)
  curSec,  (* the name of cur_sec                                         *)
  conf,    (* the fields of conf, "zero" before they are set              *)
  path,    (* conf_path                                                   *)
  file,    (* the lines of the saved file                                 *)
  edits,   (* edits so far                                                *)
  lines,   (* history: the lines read, with NextFile between the files    *)
  kept     (* history: the sections that were saved                       *)

mainVars == <<conf, path>>
fileVars == <<file, edits, kept>>
vars == <<phase, secs, curSec, conf, path, file, edits, lines, kept>>

Loading == phase \in {"first", "fallback"}

(* The saved file is not looked at any more.                               *)
ForgetSaved == file' = NotSaved /\ kept' = << >> /\ UNCHANGED edits

Init ==
  /\ phase \in {"edit", "args"}
  /\ secs = << >>
  /\ curSec = NoSection
  /\ conf = [k \in Keys |-> "zero"]
  /\ path = NoPath
  /\ file = NotSaved
  /\ edits = 0
  /\ lines = << >>
  /\ kept = << >>

-----------------------------------------------------------------------------
(* The program that saves.                                                 *)

Edit(new) ==
  /\ phase = "edit"
  /\ edits < MaxEdits
  /\ edits' = edits + 1
  /\ secs' = new
  /\ UNCHANGED <<curSec, mainVars, file, lines, kept>>

EditSection(name) ==
  /\ \/ Edit(InsertSection(secs, name))
     \/ Edit(DeleteNamed(secs, name))
  /\ UNCHANGED phase

(* insert_item, insert_string and the typed inserts, which print a value.  *)
EditItem(name, key, value) ==
  LET i == FirstNamed(secs, name)
  IN /\ Named(secs, name) # {}
     /\ IF InsertCrashes(secs[i].items, key)
        THEN Edit(secs) /\ phase' = "crash"
        ELSE /\ Edit([secs EXCEPT ![i].items = InsertItem(@, key, value)])
             /\ UNCHANGED phase

DropItem(name, key) ==
  /\ Named(secs, name) # {}
  /\ Edit([secs EXCEPT ![FirstNamed(secs, name)].items = DeleteNamed(@, key)])
  /\ UNCHANGED phase

(* ini_save, and section_save of one section.  No write is checked: when   *)
(* the disk is full, the lines end somewhere; one that is cut counts as    *)
(* not written, as read_line drops it.                                     *)
Save(part, n) ==
  /\ phase = "edit"
  /\ n <= Len(SavedLines(part))
  /\ file' = SubSeq(SavedLines(part), 1, n)
  /\ kept' = part
  /\ phase' = "args"
  /\ secs' = << >>
  /\ edits' = 0
  /\ UNCHANGED <<curSec, mainVars, lines>>

SaveAny ==
  \E part \in {secs} \cup {<<secs[i]>> : i \in 1 .. Len(secs)},
     n \in 0 .. MaxEdits : Save(part, n)

(* A longer file that was there is not cut off: the lines of both together *)
(* are like any others.                                                    *)
SaveOver ==
  /\ phase = "edit"
  /\ phase' = "args"
  /\ secs' = << >>
  /\ edits' = 0
  /\ UNCHANGED <<curSec, mainVars, file, lines, kept>>

-----------------------------------------------------------------------------
(* main, up to the configuration.                                          *)

(* Run by root, -v, -h, or an option that is not known.                    *)
MainExits ==
  /\ phase = "args"
  /\ phase' = "exit"
  /\ UNCHANGED <<secs, curSec, mainVars, fileVars, lines>>

(* -c; -e changes nothing that is read later.  The last one counts.        *)
OptConf(p) ==
  /\ phase = "args"
  /\ path' = p
  /\ UNCHANGED <<phase, secs, curSec, conf, fileVars, lines>>

OptionsEnd ==
  /\ phase = "args"
  /\ path # NoPath
  /\ phase' = "first"
  /\ IF path = SavedPath THEN UNCHANGED fileVars ELSE ForgetSaved
  /\ UNCHANGED <<secs, curSec, mainVars, lines>>

(* jmm_init_def_conf: log_term_lvl is not set, log_file_lvl twice; zero is *)
(* CLOG_ALL for both.                                                      *)
InitDefConf ==
  /\ phase = "args"
  /\ path = NoPath
  /\ conf' = [k \in Keys |-> IF k \in LevelKeys THEN "zero" ELSE "default"]
  /\ phase' = "ok"
  /\ UNCHANGED <<secs, curSec, path, fileVars, lines>>

-----------------------------------------------------------------------------
(* ini_load.                                                               *)

(* The lines of the file that are known before they are read, and whether  *)
(* it may have any others.                                                 *)
Known == IF phase = "first" /\ path = SavedPath THEN file ELSE << >>
Open == phase = "fallback" \/ path # SavedPath

(* The load fails: the default file is next, and what was loaded stays.    *)
LoadFails ==
  IF phase = "first"
  THEN /\ phase' = "fallback"
       /\ curSec' = NoSection
       /\ lines' = Append(lines, NextFile)
       /\ ForgetSaved
  ELSE phase' = "fail" /\ UNCHANGED <<curSec, fileVars, lines>>

(* The file cannot be opened.                                              *)
NoFile ==
  /\ Loading
  /\ lines # << >> => Last(lines) = NextFile
  /\ LoadFails
  /\ UNCHANGED <<secs, mainVars>>

(* read_line returns a line.                                               *)
LineIs(l) ==
  /\ Loading
  /\ Len(lines) < MaxLines
  /\ IF Len(lines) < Len(Known) THEN l = Known[Len(lines) + 1] ELSE Open

ReadLine(l) ==
  /\ LineIs(l)
  /\ lines' = Append(lines, l)
  /\ UNCHANGED <<mainVars, fileVars>>

ReadOther ==
  /\ ReadLine([kind |-> "other"])
  /\ UNCHANGED <<phase, secs, curSec>>

(* A section without its bracket: ini_load_fd returns -1 at once.          *)
ReadOpen ==
  /\ LineIs([kind |-> "open"])
  /\ LoadFails
  /\ UNCHANGED <<secs, mainVars>>

ReadSection(name) ==
  /\ ReadLine(SectionLine(name))
  /\ secs' = InsertSection(secs, name)
  /\ curSec' = name
  /\ UNCHANGED phase

(* An item belongs to the current section and is nothing without one.      *)
ReadItem(key, value) ==
  /\ ReadLine(ItemLine(key, value))
  /\ \/ curSec = NoSection /\ UNCHANGED <<phase, secs>>
     \/ /\ curSec # NoSection
        /\ InsertCrashes(GetSection(secs, curSec).items, key)
        /\ phase' = "crash"
        /\ UNCHANGED secs
     \/ /\ curSec # NoSection
        /\ ~InsertCrashes(GetSection(secs, curSec).items, key)
        /\ secs' = [secs EXCEPT ![FirstNamed(secs, curSec)].items =
                      InsertItem(@, key, value)]
        /\ UNCHANGED phase
  /\ UNCHANGED curSec

(* read_line returns -1: at the end of the file, where a last line without *)
(* its newline is dropped, and at a line that is too long.  Either way the *)
(* load has succeeded.                                                     *)
EndOfFile ==
  /\ Loading
  /\ Len(lines) >= Len(Known)
  /\ phase' = "get"
  /\ UNCHANGED <<secs, curSec, mainVars, fileVars, lines>>

-----------------------------------------------------------------------------
(* jmm_init_conf after the load.                                           *)

(* Mutant of LevelOf: without the CLOG_ALL at the end.                     *)
LevelOfAny(v) == v

(* clog_get_level.                                                         *)
LevelOf(v) == IF v \in Levels THEN v ELSE "all"

(* What a field becomes: sscanf leaves it alone when there is no number,   *)
(* and get_int says success.                                               *)
FieldValue(key, v) ==
  IF key \in IntKeys THEN (IF v \in Numbers THEN v ELSE "zero")
  ELSE IF key \in LevelKeys THEN LevelOf(v)
  ELSE v

(* The keys are taken in order up to the first that is missing; conf_path  *)
(* becomes the default path when it was that file that could be loaded.    *)
GetConf ==
  LET found == Named(secs, Common) # {}
      items == IF found THEN GetSection(secs, Common).items ELSE << >>
      taken == {k \in Keys : \A i \in 1 .. Len(MustKeys) :
                  (\E j \in i .. Len(MustKeys) : MustKeys[j] = k)
                    => Named(items, MustKeys[i]) # {}}
  IN /\ phase = "get"
     /\ conf' = [k \in Keys |-> IF k \in taken
                                THEN FieldValue(k, GetItem(items, k).value)
                                ELSE conf[k]]
     /\ phase' = IF found /\ taken = Keys THEN "ok" ELSE "fail"
     /\ path' = IF phase' = "ok" /\ NextFile \in ToSet(lines)
                THEN DefPath ELSE path
     /\ UNCHANGED <<secs, curSec, fileVars, lines>>

Next ==
  \/ SaveAny \/ SaveOver
  \/ \E s \in Sections : EditSection(s)
  \/ \E s \in Sections, k \in FileKeys, v \in Values \cup {""} :
       EditItem(s, k, v)
  \/ \E s \in Sections, k \in FileKeys : DropItem(s, k)
  \/ MainExits \/ OptionsEnd \/ InitDefConf
  \/ \E p \in {NoPath, OtherPath} \cup
             (IF file = NotSaved THEN {} ELSE {SavedPath}) : OptConf(p)
  \/ NoFile \/ ReadOther \/ ReadOpen \/ EndOfFile \/ GetConf
  \/ \E s \in Sections : ReadSection(s)
  \/ \E k \in FileKeys, v \in Values : ReadItem(k, v)

Spec == Init /\ [][Next]_vars
-----------------------------------------------------------------------------
(* The values every variable may have; for file, see SavedIsLoaded.        *)
Item == [name : FileKeys, value : Values \cup {""}]
Section == [name : Sections, items : Seq(Item)]

FieldValues(key) ==
  {"zero", "default"} \cup
    (IF key \in IntKeys THEN Numbers
     ELSE IF key \in LevelKeys THEN Levels \cup {"all"} ELSE Values)

TypeOK ==
  /\ phase \in {"edit", "args", "first", "fallback", "get",
                "ok", "fail", "exit", "crash"}
  /\ secs \in Seq(Section)
  /\ curSec \in Sections \cup {NoSection}
  /\ DOMAIN conf = Keys /\ \A k \in Keys : conf[k] \in FieldValues(k)
  /\ path \in {NoPath, SavedPath, OtherPath, DefPath}
  /\ edits \in 0 .. MaxEdits
  /\ lines \in Seq(Lines \cup {NextFile})
  /\ kept \in Seq(Section)

(* The searches of ini_get_section and section_get_item stop at the first  *)
(* of a name: no other with that name may be behind it, however often the  *)
(* files repeat it.                                                        *)
NamesUnique ==
  /\ \A s \in Sections : \A i, j \in Named(secs, s) : i = j
  /\ \A n \in 1 .. Len(secs), k \in FileKeys :
       \A i, j \in Named(secs[n].items, k) : i = j

(***************************************************************************)
(* What the lines say, read without lists: a key has the last value given  *)
(* to it after the last header of COMMON, up to the next header or file.   *)
(***************************************************************************)
IsHeader(l) == l.kind \in {"section", "file"}

CommonHeaders ==
  {i \in 1 .. Len(lines) :
     lines[i].kind = "section" /\ lines[i].name = Common}

GivenAt(key) ==
  {i \in 1 .. Len(lines) :
     /\ lines[i].kind = "item" /\ lines[i].key = key
     /\ \E h \in CommonHeaders :
          /\ h < i
          /\ \A j \in (h + 1) .. (i - 1) : ~IsHeader(lines[j])
          /\ \A g \in CommonHeaders : g <= h}

(* The value of key is v: the last that the lines give.                    *)
LastGiven(key, v) ==
  \E i \in GivenAt(key) :
    /\ \A j \in GivenAt(key) : j <= i
    /\ v = lines[i].value

(* A configuration that is accepted from a file is what the lines say:     *)
(* each key was given, and its last value counts.                          *)
ConfAsGiven ==
  phase = "ok" /\ path # NoPath =>
    \A k \in Keys : \E v \in Values : LastGiven(k, v) /\ conf[k] = FieldValue(k, v)

(* A first file without repetitions that gives every key is accepted.      *)
NoRepeats ==
  \A i, j \in 1 .. Len(lines) :
    /\ lines[i].kind # "file"
    /\ lines[i].kind = "section" /\ lines[i] = lines[j] => i = j
    /\ /\ lines[i].kind = "item" /\ lines[j].kind = "item"
       /\ lines[i].key = lines[j].key
       => i = j

PlainFile == NoRepeats /\ \A k \in Keys : GivenAt(k) # {}

PlainFileAccepted == phase \in {"fail", "crash"} => ~PlainFile

(* A saved file has lines that can be read, and is loaded as what was      *)
(* saved, without the parts that have no name or no value: all of it if    *)
(* all was written, or else as much as was written, in order.              *)
SavedIsLoaded ==
  file # NotSaved =>
    /\ ToSet(file) \subseteq Lines
    /\ phase = "get" =>
         /\ IsPrefix(SavedLines(secs), SavedLines(kept))
         /\ file = SavedLines(kept) => secs = WrittenPart(kept)

-----------------------------------------------------------------------------
(***************************************************************************)
(* The inductive invariant behind them.  With unique names a list is as    *)
(* good as the set of its nodes.                                           *)
(***************************************************************************)

(* What each phase has behind it.                                          *)
PhaseOK ==
  /\ phase \in {"edit", "args"} => lines = << >> /\ curSec = NoSection
  /\ phase = "args" => secs = << >>
  /\ phase = "fallback" => NextFile \in ToSet(lines)
  /\ Loading \/ phase = "get" =>
       \A s \in ToSet(secs) : \A x \in ToSet(s.items) : x.value \in Values

(* The current section is in the list, and the last header is its own.     *)
CurOK ==
  /\ curSec # NoSection =>
       /\ \E s \in ToSet(secs) : s.name = curSec
       /\ \E h \in 1 .. Len(lines) :
            /\ lines[h] = SectionLine(curSec)
            /\ \A j \in (h + 1) .. Len(lines) : ~IsHeader(lines[j])
  /\ \A h \in CommonHeaders :
       (\A j \in (h + 1) .. Len(lines) : ~IsHeader(lines[j])) => curSec = Common

(* The items of COMMON are what the lines say.                             *)
GivenOK ==
  Loading \/ phase = "get" =>
    \A s \in ToSet(secs) : s.name = Common =>
      \A x \in ToSet(s.items) : LastGiven(x.name, x.value)

(* As long as nothing repeats, the lists have what the lines have.         *)
PlainOK ==
  (Loading \/ phase = "get") /\ NoRepeats =>
    /\ \A s \in ToSet(secs) :
         /\ SectionLine(s.name) \in ToSet(lines)
         /\ \A x \in ToSet(s.items) :
              \E l \in ToSet(lines) : l.kind = "item" /\ l.key = x.name
    /\ \A k \in Keys : GivenAt(k) # {} =>
         \E s \in ToSet(secs) :
           s.name = Common /\ \E x \in ToSet(s.items) : x.name = k

(* No two nodes of a list have the same name.                              *)
Unique(list) ==
  \A i, j \in 1 .. Len(list) : list[i].name = list[j].name => i = j

(* The first m sections of the list that was saved, n items of the last.   *)
Part(m, n) ==
  Append(SubSeq(kept, 1, m - 1), [kept[m] EXCEPT !.items = SubSeq(@, 1, n)])

(* What has been read of the saved file is what such a part makes: as many *)
(* lines, and in the lists what is written of it.                          *)
NothingRead == lines = << >> /\ secs = << >> /\ curSec = NoSection

PartRead(m, n) ==
  /\ lines = SavedLines(Part(m, n))
  /\ secs = WrittenPart(Part(m, n))
  /\ curSec = kept[m].name
  /\ curSec # ""

(* The saved file and how far it has been loaded.                          *)
SavedOK ==
  file # NotSaved =>
    /\ file \in Seq(Lines)
    /\ IsPrefix(file, SavedLines(kept))
    /\ Unique(kept) /\ \A i \in 1 .. Len(kept) : Unique(kept[i].items)
    /\ phase # "fallback"
    /\ phase = "first" => path = SavedPath
    /\ phase \in {"first", "get"} =>
         /\ IsPrefix(lines, file)
         /\ SavedLines(secs) = lines
         /\ \/ NothingRead
            \/ \E m \in 1 .. Len(kept) :
                 \E n \in 0 .. Len(kept[m].items) : PartRead(m, n)
    /\ phase = "get" => lines = file

ConfInv ==
  /\ TypeOK /\ NamesUnique /\ PhaseOK /\ CurOK /\ GivenOK /\ PlainOK
  /\ ConfAsGiven /\ PlainFileAccepted
=============================================================================
