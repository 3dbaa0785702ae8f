----------------------------- MODULE IniConfig ------------------------------
(***************************************************************************)
(* The lists of an ini_config: sections in file order, each with its items *)
(* in file order (src/3rd/iniconfig.c).  Names and values fit their        *)
(* buffers and have none of the characters that delimit them.              *)
(***************************************************************************)
EXTENDS Integers, SequencesExt

(* The positions of the nodes called name, and the one a search finds.     *)
Named(list, name) == {i \in 1 .. Len(list) : list[i].name = name}

FirstNamed(list, name) ==
  CHOOSE i \in Named(list, name) : \A j \in Named(list, name) : i <= j

NewItem(key, value) == [name |-> key, value |-> value]
NewSection(name) == [name |-> name, items |-> << >>]

(* section_insert_item with a key that is the first of the list writes     *)
(* through a null pointer.                                                 *)
InsertCrashes(items, key) ==
  Named(items, key) # {} /\ FirstNamed(items, key) = 1

(* Mutant of InsertItem: no search for an item of that name.               *)
InsertItemAlways(items, key, value) == Append(items, NewItem(key, value))

(* Mutant of InsertItem: a list that is not empty is started again.        *)
InsertItemAlone(items, key, value) == <<NewItem(key, value)>>

(* section_insert_item otherwise: a new key goes to the end; one that is   *)
(* there, after the first item, is replaced by a list of this item only.   *)
InsertItem(items, key, value) ==
  IF Named(items, key) = {} THEN Append(items, NewItem(key, value))
  ELSE <<NewItem(key, value)>>

(* Mutant of InsertSection: no search for a section of that name.          *)
InsertSectionAlways(secs, name) == Append(secs, NewSection(name))

(* ini_insert_section: the section starts empty.  Repeating the first      *)
(* section drops the others; a later one is replaced where it stands.      *)
InsertSection(secs, name) ==
  IF Named(secs, name) = {} THEN Append(secs, NewSection(name))
  ELSE IF FirstNamed(secs, name) = 1 THEN <<NewSection(name)>>
  ELSE [secs EXCEPT ![FirstNamed(secs, name)] = NewSection(name)]

(* ini_get_section and section_get_item, of something that is there.       *)
GetSection(secs, name) == secs[FirstNamed(secs, name)]
GetItem(items, key) == items[FirstNamed(items, key)]

(* ini_delete_section and section_delete_item: the first node takes all of *)
(* the list with it.                                                       *)
DeleteNamed(list, name) ==
  IF Named(list, name) = {} THEN list
  ELSE IF FirstNamed(list, name) = 1 THEN << >>
  ELSE RemoveAt(list, FirstNamed(list, name))

-----------------------------------------------------------------------------
(* The text of a file, as its lines.                                       *)
SectionLine(name) == [kind |-> "section", name |-> name]
ItemLine(key, value) == [kind |-> "item", key |-> key, value |-> value]

(* Sections and items without a name, and items without a value, are not   *)
(* written.                                                                *)
IsWritten(item) == item.name # "" /\ item.value # ""

WrittenItems(items) ==
  FlattenSeq([i \in 1 .. Len(items) |->
                IF IsWritten(items[i]) THEN <<items[i]>> ELSE << >>])

WrittenPart(secs) ==
  FlattenSeq([i \in 1 .. Len(secs) |->
                IF secs[i].name = "" THEN << >>
                ELSE <<[secs[i] EXCEPT !.items = WrittenItems(@)]>>])

ItemLines(items) ==
  FlattenSeq([i \in 1 .. Len(items) |->
                IF IsWritten(items[i])
                THEN <<ItemLine(items[i].name, items[i].value)>> ELSE << >>])

(* Mutant of SectionLines: no header for a section without items.          *)
SectionLinesIfAny(sec) ==
  IF sec.name = "" \/ ItemLines(sec.items) = << >> THEN << >>
  ELSE <<SectionLine(sec.name)>> \o ItemLines(sec.items)

(* section_save_fd.                                                        *)
SectionLines(sec) ==
  IF sec.name = "" THEN << >>
  ELSE <<SectionLine(sec.name)>> \o ItemLines(sec.items)

(* ini_save_fd.                                                            *)
SavedLines(secs) ==
  FlattenSeq([i \in 1 .. Len(secs) |-> SectionLines(secs[i])])
=============================================================================
