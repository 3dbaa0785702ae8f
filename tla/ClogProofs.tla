----------------------------- MODULE ClogProofs -----------------------------
(***************************************************************************)
(* The safety of the log for any number of workers, any levels, buffer and *)
(* set of failures: ClogInv is inductive, and the properties of the files  *)
(* follow from it.                                                         *)
(***************************************************************************)
EXTENDS Clog, SequenceTheorems, FiniteSetTheorems, TLAPS

Msg == [lvl : Nat, args : BOOLEAN]

-----------------------------------------------------------------------------
(* The line of a message.                                                  *)

LEMMA IsSeq ==
  ASSUME NEW S, NEW n \in Nat, NEW s \in [1 .. n -> S]
  PROVE  s \in Seq(S) /\ Len(s) = n
<1>1. s \in Seq(S)
  BY SeqDef
<1>2. Len(s) \in Nat /\ 1 .. Len(s) = 1 .. n
  BY <1>1, LenProperties
<1> QED
  BY <1>1, <1>2

(* A list has one file appender at most, behind the console's if that is   *)
(* there: one position takes a message, or none.                           *)
LEMMA TakersOf ==
  ASSUME TypeOK, NEW p \in Procs, cb[p] \in Lists, NEW m \in Msg
  PROVE  LET takers == Takers(p, m)
         IN /\ Len(takers) =
                 (IF HasFile(p) /\ m.lvl >= FileLevel THEN 1 ELSE 0)
            /\ \A t \in 1 .. Len(takers) :
                 /\ takers[t] \in 1 .. 2
                 /\ takers[t] = 2 => cb[p] = <<"console", "file">>
                 /\ takers[t] = 1 => cb[p] = <<"file">>
<1> DEFINE at == {i \in 1 .. Len(cb[p]) :
                    cb[p][i] = "file" /\ Passes(m.lvl, "file")}
           ranks == 1 .. Cardinality(at)
           Rising(q) == \A t, u \in ranks : t < u => q[t] < q[u]
           takers == Takers(p, m)
<1> USE ClogAssumption
<1>1. takers = CHOOSE q \in [ranks -> at] : Rising(q)
  BY DEF Takers
<1>2. /\ cb[p] = <<"console", "file">> =>
           Len(cb[p]) = 2 /\ cb[p][1] = "console" /\ cb[p][2] = "file"
      /\ cb[p] = <<"console">> => Len(cb[p]) = 1 /\ cb[p][1] = "console"
      /\ cb[p] = <<"file">> => Len(cb[p]) = 1 /\ cb[p][1] = "file"
      /\ cb[p] = << >> => Len(cb[p]) = 0
  <2>1. /\ Len(<<"console", "file">>) = 2
        /\ <<"console", "file">>[1] = "console"
        /\ <<"console", "file">>[2] = "file"
    OBVIOUS
  <2>2. /\ Len(<<"console">>) = 1 /\ <<"console">>[1] = "console"
        /\ Len(<<"file">>) = 1 /\ <<"file">>[1] = "file"
    OBVIOUS
  <2> QED
    BY <2>1, <2>2, EmptySeq, Zenon
<1>3. CASE HasFile(p) /\ m.lvl >= FileLevel
  <2>1. PICK i \in 1 .. 2 : /\ at = {i}
                            /\ i = 2 => cb[p] = <<"console", "file">>
                            /\ i = 1 => cb[p] = <<"file">>
    <3>1. CASE cb[p] = <<"console", "file">>
      <4>1. at = {2}
        BY <1>2, <1>3, <3>1 DEF Passes, Level
      <4> QED
        BY <3>1, <4>1
    <3>2. CASE cb[p] = <<"file">>
      <4>1. at = {1}
        BY <1>2, <1>3, <3>2 DEF Passes, Level
      <4> QED
        BY <3>2, <4>1
    <3>3. CASE cb[p] = <<"console">> \/ cb[p] = << >>
      BY <1>2, <1>3, <3>3 DEF HasFile, Contains
    <3> QED
      BY <3>1, <3>2, <3>3 DEF Lists
  <2>2. Cardinality(at) = 1
    BY <2>1, FS_Singleton
  <2> HIDE DEF at
  <2>3. [t \in 1 .. 1 |-> i] \in [ranks -> at] /\ Rising([t \in 1 .. 1 |-> i])
    <3>1. ranks = 1 .. 1
      BY <2>2
    <3> HIDE DEF ranks
    <3>2. \A t, u \in ranks : ~ (t < u)
      BY <3>1
    <3> QED
      BY <2>1, <3>1, <3>2
  <2>4. takers \in [1 .. 1 -> {i}]
    <3> HIDE DEF Rising
    <3> QED
      BY <1>1, <2>1, <2>2, <2>3
  <2>5. Len(takers) = 1
    BY <2>4, IsSeq
  <2> QED
    BY <1>3, <2>1, <2>4, <2>5
<1>4. CASE ~(HasFile(p) /\ m.lvl >= FileLevel)
  <2>1. at = {}
    BY <1>4 DEF HasFile, Contains, Passes, Level
  <2>2. Cardinality(at) = 0
    BY <2>1, FS_EmptySet
  <2> HIDE DEF at
  <2>3. [t \in 1 .. 0 |-> 0] \in [ranks -> at] /\ Rising([t \in 1 .. 0 |-> 0])
    BY <2>1, <2>2
  <2>4. takers \in [1 .. 0 -> {}]
    <3> HIDE DEF Rising
    <3> QED
      BY <1>1, <2>1, <2>2, <2>3
  <2>5. Len(takers) = 0
    BY <2>4, IsSeq
  <2> QED
    BY <1>4, <2>5
<1> QED
  BY <1>3, <1>4

(* A message makes a line or none, with its process and its number; when   *)
(* its arguments are used up they have been printed on the console.        *)
LEMMA EntryOf ==
  ASSUME TypeOK, NEW p \in Procs, cb[p] \in Lists, NEW m \in Msg
  PROVE  LET entry == Entry(p, m)
         IN /\ entry \in Seq(Line)
            /\ Len(entry) = (IF HasFile(p) /\ m.lvl >= FileLevel THEN 1 ELSE 0)
            /\ Len(entry) = 1 =>
                 /\ entry[1].by = p
                 /\ entry[1].n = Len(logged[p]) + 1
                 /\ PrintOut(p, m) =>
                      entry[1].ok \/ Len(logged[p]) + 1 \in console'[p]
<1> DEFINE takers == Takers(p, m)
           entry == Entry(p, m)
           new == Len(logged[p]) + 1
           len == IF HasFile(p) /\ m.lvl >= FileLevel THEN 1 ELSE 0
<1>1. Len(takers) = len
  BY TakersOf
<1>2. new \in Nat \ {0}
  BY DEF TypeOK
<1>3. \A t \in 1 .. len : UsedUp(p, takers[t], m) \in BOOLEAN
  BY DEF UsedUp, Msg
<1>4. entry = [t \in 1 .. len |->
                 [by |-> p, n |-> new, ok |-> ~UsedUp(p, takers[t], m)]]
  BY <1>1 DEF Entry
<1>5. entry \in [1 .. len -> Line]
  <2> HIDE DEF new, takers, len
  <2>1. \A t \in 1 .. len :
          [by |-> p, n |-> new, ok |-> ~UsedUp(p, takers[t], m)] \in Line
    BY <1>2, <1>3 DEF Line
  <2> HIDE DEF entry
  <2> QED
    BY <1>4, <2>1
<1>6. entry \in Seq(Line) /\ Len(entry) = len
  BY <1>5, IsSeq
<1>7. ASSUME len = 1, PrintOut(p, m), ~entry[1].ok
      PROVE  new \in console'[p]
  <2>1. UsedUp(p, takers[1], m)
    <3> DEFINE used == UsedUp(p, takers[1], m)
    <3>1. entry[1] = [by |-> p, n |-> new, ok |-> ~used]
      <4> HIDE DEF entry, takers, new, len
      <4> QED
        BY <1>4, <1>7
    <3> HIDE DEF used, entry, new
    <3>2. entry[1].ok = ~used
      BY <3>1
    <3>3. used
      BY <1>7, <3>2, Zenon
    <3> QED
      BY <3>3 DEF used
  <2>2. PICK j \in 1 .. (takers[1] - 1) : m.args /\ Passes(m.lvl, cb[p][j])
    BY <2>1 DEF UsedUp
  <2>3. takers[1] = 2 /\ cb[p] = <<"console", "file">> /\ j = 1
    BY <1>1, <1>7, <2>2, TakersOf
  <2>4. Len(cb[p]) = 2 /\ cb[p][1] = "console"
    BY <2>3
  <2>5. ~UsedUp(p, 1, m)
    BY DEF UsedUp
  <2>6. \E i \in 1 .. Len(cb[p]) :
          cb[p][i] = "console" /\ Passes(m.lvl, "console") /\ ~UsedUp(p, i, m)
    BY <2>2, <2>3, <2>4, <2>5
  <2> QED
    BY <1>7, <2>6 DEF PrintOut, TypeOK
<1>8. len = 1 => entry[1].by = p /\ entry[1].n = new
  <2> HIDE DEF new, takers, len
  <2> QED
    BY <1>4
<1> QED
  BY <1>6, <1>7, <1>8

-----------------------------------------------------------------------------
(* Types.                                                                  *)

LEMMA Clog_Init == Init => ClogInv
<1> SUFFICES ASSUME Init PROVE ClogInv
  OBVIOUS
<1> USE ClogAssumption DEF Init
<1>1. /\ << >> \in Seq(Line) /\ << >> \in Seq({"console", "file"})
      /\ << >> \in Seq(Msg) /\ Len(<< >>) = 0
  BY EmptySeq
<1>2. TypeOK
  BY <1>1 DEF TypeOK, Pcs, Procs, Msg
<1>3. ASSUME NEW p \in Procs
      PROVE  LifeAt(p) /\ FileAt(p) /\ BufAt(p) /\ KeptAt(p)
  <2>1. LifeAt(p)
    BY <1>1 DEF LifeAt, Lists, Active, Procs
  <2>2. Written(p) = {} /\ disk[p] = << >> /\ buf[p] = << >>
    BY <1>1 DEF Written
  <2> QED
    BY <1>1, <2>1, <2>2 DEF FileAt, BufAt, KeptAt
<1>4. CopiesOK
  <2> SUFFICES ASSUME NEW l \in Line
               PROVE  Cardinality(Copies(l)) + Cardinality(Holders(l))
                        <= 1 + Cardinality(Heirs(l))
    BY DEF CopiesOK
  <2>1. Copies(l) = {} /\ Holders(l) = {} /\ Heirs(l) = {}
    BY <1>1 DEF Copies, Holders, Heirs, Line, Procs
  <2> QED
    BY <2>1, FS_EmptySet
<1> QED
  BY <1>2, <1>3, <1>4 DEF ClogInv

(* The stream of a process is closed, and what it has then is f.           *)
Closing(p, f) ==
  /\ disk' = Flushed(p)
  /\ buf' = [buf EXCEPT ![p] = << >>]
  /\ fp' = [fp EXCEPT ![p] = f]

Streams == Procs \cup {NoFile, "closed"}

FilesType ==
  /\ fp \in [Procs -> Streams]
  /\ buf \in [Procs -> Seq(Line)]
  /\ disk \in [Procs -> Seq(Line)]

LEMMA ClosingType ==
  ASSUME FilesType, NEW p \in Procs, NEW f \in Streams, Closing(p, f)
  PROVE  FilesType'
<1> USE DEF FilesType
<1>1. Flushed(p) \in [Procs -> Seq(Line)]
  <2>1. CASE fp[p] \in Procs
    <3>1. disk[fp[p]] \o buf[p] \in Seq(Line)
      BY <2>1, ConcatProperties
    <3> QED
      BY <2>1, <3>1 DEF Flushed
  <2> QED
    BY <2>1 DEF Flushed
<1>2. << >> \in Seq(Line)
  BY EmptySeq
<1> QED
  BY <1>1, <1>2 DEF Closing

LEMMA ClosingElsewhere ==
  ASSUME FilesType, NEW p \in Procs, NEW q \in Procs \ {p},
         UNCHANGED files \/ \E f \in Streams : Closing(p, f)
  PROVE  fp'[q] = fp[q] /\ buf'[q] = buf[q]
BY DEF Closing, FilesType, files

(* The steps that may close a stream.                                      *)
LEMMA ClosingSteps ==
  ASSUME TypeOK, NEW p \in Procs,
         InitLog(p) \/ InitLogFails(p) \/ Finish(p) \/ Exit(p)
  PROVE  UNCHANGED files \/ \E f \in Streams : Closing(p, f)
<1>1. CASE InitLog(p)
  BY <1>1 DEF InitLog, FileInit, Closing, Streams
<1>2. CASE InitLogFails(p)
  BY <1>2 DEF InitLogFails, Closing, Streams
<1>3. CASE Finish(p)
  BY <1>3 DEF Finish, Closing, Streams
<1>4. CASE Exit(p)
  <2>1. fp[p] \in Streams /\ fp' = [fp EXCEPT ![p] = fp[p]]
    BY <1>4 DEF Exit, TypeOK, Streams
  <2> QED
    BY <1>4, <2>1 DEF Exit, Closing
<1> QED
  BY <1>1, <1>2, <1>3, <1>4

LEMMA LogType ==
  ASSUME TypeOK, NEW p \in Procs, cb[p] \in Lists, NEW m \in Msg, Log(p, m)
  PROVE  /\ buf' \in [Procs -> Seq(Line)]
         /\ disk' \in [Procs -> Seq(Line)]
         /\ logged' \in [Procs -> Seq(Msg)]
         /\ console' \in [Procs -> SUBSET Nat]
<1> DEFINE entry == Entry(p, m)
<1>1. entry \in Seq(Line) /\ (entry # << >> => HasFile(p))
  BY EntryOf, EmptySeq
<1>2. logged' \in [Procs -> Seq(Msg)]
  BY AppendProperties DEF Log, TypeOK, Msg
<1>3. console' \in [Procs -> SUBSET Nat]
  <2>1. Len(logged[p]) + 1 \in Nat
    BY DEF TypeOK
  <2> QED
    BY <2>1 DEF Log, PrintOut, TypeOK
<1>4. buf[p] \o entry \in Seq(Line)
  BY <1>1, ConcatProperties DEF TypeOK
<1>5. \A q \in Procs : disk[q] \o buf[p] \in Seq(Line)
  BY ConcatProperties DEF TypeOK
<1> HIDE DEF entry
<1>6. buf \in [Procs -> Seq(Line)] /\ disk \in [Procs -> Seq(Line)]
  BY DEF TypeOK
<1>7. Write(p, entry)
  BY DEF Log, entry
<1>8. CASE UNCHANGED disk /\ buf' = [buf EXCEPT ![p] = @ \o entry]
  BY <1>2, <1>3, <1>4, <1>6, <1>8
<1>9. CASE /\ disk' = [disk EXCEPT ![fp[p]] = @ \o buf[p]]
           /\ buf' = [buf EXCEPT ![p] = entry]
  BY <1>1, <1>2, <1>3, <1>5, <1>6, <1>9
<1> QED
  BY <1>2, <1>3, <1>7, <1>8, <1>9 DEF Write

(* What a process logs on its way is a message it may log where it is.     *)
LEMMA LogsOf ==
  ASSUME NEW p \in Procs, NEW step \in Logs(p)
  PROVE  /\ step[1] \in Active \ {"uninit"}
         /\ step[2] \in Active
         /\ step[3] \in Msg
<1> DEFINE info == Message(Info, FALSE)
           fatal == Message(Fatal, FALSE)
           Way(a, b, m) ==
             a \in Active \ {"uninit"} /\ b \in Active /\ m \in Msg
<1>1. /\ info \in Msg /\ fatal \in Msg /\ Message(Info, TRUE) \in Msg
      /\ \A args \in BOOLEAN : Message(Fatal, args) \in Msg
  BY DEF Message, Info, Fatal, Msg
<1>2. \E a, b, m : step = <<a, b, m>> /\ Way(a, b, m)
  <2> USE <1>1 DEF Active
  <2>1. CASE p = Ctrl
    <3> HIDE DEF info, fatal
    <3> QED
      BY <2>1 DEF Logs, CtrlLogs, info, fatal
  <2>2. CASE p # Ctrl
    BY <2>2 DEF Logs, WfLogs
  <2> QED
    BY <2>1, <2>2
<1> QED
  BY <1>2

LEMMA Clog_Type ==
  ASSUME ClogInv, Next
  PROVE  TypeOK'
<1> USE ClogAssumption
<1> TypeOK /\ \A p \in Procs : LifeAt(p)
  BY DEF ClogInv
<1>0. size' = size /\ << >> \in Seq(Line)
  BY EmptySeq DEF Next
<1>7. FilesType /\ (UNCHANGED files => FilesType')
  BY DEF FilesType, files, TypeOK, Streams
<1>1. ASSUME AllForked PROVE TypeOK'
  BY <1>0, <1>1 DEF AllForked, TypeOK, Pcs, files, history, Procs
<1>2. ASSUME NEW w \in Workers, Fork(w) PROVE TypeOK'
  <2>1. ToSet(buf[Ctrl]) \in SUBSET Line
    BY LenProperties, ElementOfSeq DEF ToSet, TypeOK, Procs
  <2> QED
    BY <1>0, <1>2, <2>1 DEF Fork, TypeOK, Pcs, Procs
<1>3. ASSUME NEW p \in Procs, InitLog(p) \/ InitLogFails(p) PROVE TypeOK'
  <2>1. \A list \in Lists : list \in Seq({"console", "file"})
    <3>1. <<"console", "file">> \in Seq({"console", "file"})
      OBVIOUS
    <3>2. /\ <<"console">> \in Seq({"console", "file"})
          /\ <<"file">> \in Seq({"console", "file"})
      OBVIOUS
    <3> QED
      BY <3>1, <3>2, EmptySeq DEF Lists
  <2>2. Registered(p) \subseteq Lists /\ <<"console", "file">> \in Lists
    BY DEF Registered, Lists
  <2> QED
    <3>1. cb' \in [Procs -> Seq({"console", "file"})]
      <4>1. PICK list \in Lists : cb' = [cb EXCEPT ![p] = list]
        BY <1>3, <2>2 DEF InitLog, InitLogFails
      <4> QED
        BY <2>1, <4>1 DEF TypeOK
    <3>2. FilesType'
      BY <1>3, <1>7, ClosingSteps, ClosingType
    <3>3. /\ pc' \in [Procs -> Pcs]
          /\ ctx' \in [Procs -> {"zero", "list", "freed"}]
      BY <1>3 DEF InitLog, InitLogFails, TypeOK, Pcs
    <3> QED
      BY <1>0, <1>3, <3>1, <3>2, <3>3
      DEF InitLog, InitLogFails, TypeOK, history, FilesType, Streams
<1>4. ASSUME NEW p \in Procs, LogAt(p) \/ LogInCb(p) PROVE TypeOK'
  <2>1. PICK m \in Msg : Log(p, m)
    BY <1>4, LogsOf DEF LogAt, LogInCb, Msg
  <2>2. pc' \in [Procs -> Pcs]
    BY <1>4, LogsOf DEF LogAt, LogInCb, TypeOK, Pcs, Active
  <2>3. cbs' \in [Procs -> Nat]
    <3>1. cbs' = cbs \/ cbs' = [cbs EXCEPT ![p] = @ + 1]
      BY <1>4 DEF LogAt, LogInCb
    <3>2. cbs \in [Procs -> Nat]
      BY DEF TypeOK
    <3> QED
      BY <3>1, <3>2
  <2> QED
    BY <1>0, <2>1, <2>2, <2>3, LogType DEF Log, TypeOK, LifeAt, Msg
<1>5. ASSUME NEW p \in Procs, Leave(p) \/ Kill(p) PROVE TypeOK'
  BY <1>0, <1>5 DEF Leave, Kill, TypeOK, Pcs, files, history
<1>6. ASSUME NEW p \in Procs, Finish(p) \/ Exit(p) PROVE TypeOK'
  <2>1. FilesType'
    BY <1>6, <1>7, ClosingSteps, ClosingType
  <2>2. pc' \in [Procs -> Pcs] /\ ctx' \in [Procs -> {"zero", "list", "freed"}]
    BY <1>6 DEF Finish, Exit, TypeOK, Pcs
  <2> QED
    BY <1>0, <1>6, <2>1, <2>2
    DEF Finish, Exit, TypeOK, history, FilesType, Streams
<1> QED
  BY <1>1, <1>2, <1>3, <1>4, <1>5, <1>6 DEF Next

-----------------------------------------------------------------------------
(* What becomes of the files and of the buffers when one process p writes. *)

(* What is logged in a step comes behind what was.                         *)
Grows ==
  \A q \in Procs :
    /\ Written(q) \subseteq Written(q)'
    /\ \A n \in Written(q)' \ Written(q) : n > Len(logged[q])
    /\ console[q] \subseteq console'[q]

(* What p does makes the file of q longer by its buffer at most.           *)
Longer(p, q) ==
  /\ Len(disk[q]) \in Nat /\ Len(disk'[q]) \in Nat
  /\ Len(disk[q]) <= Len(disk'[q])
  /\ \A i \in 1 .. Len(disk[q]) : disk'[q][i] = disk[q][i]
  /\ \A i \in (Len(disk[q]) + 1) .. Len(disk'[q]) :
       /\ fp[p] = q
       /\ i - Len(disk[q]) \in 1 .. Len(buf[p])
       /\ disk'[q][i] = buf[p][i - Len(disk[q])]
  /\ fp[p] = q /\ disk' = Flushed(p) =>
       \A j \in 1 .. Len(buf[p]) :
         /\ Len(disk[q]) + j \in 1 .. Len(disk'[q])
         /\ disk'[q][Len(disk[q]) + j] = buf[p][j]

LEMMA DiskGrows ==
  ASSUME FilesType, FilesType', NEW p \in Procs,
         disk' = disk \/ disk' = Flushed(p),
         NEW q \in Procs
  PROVE  Longer(p, q)
<1> USE DEF FilesType, Longer
<1>1. CASE fp[p] = q /\ disk' = Flushed(p)
  <2>1. disk'[q] = disk[q] \o buf[p]
    BY <1>1 DEF Flushed
  <2> QED
    BY <1>1, <2>1
<1>2. CASE ~(fp[p] = q /\ disk' = Flushed(p))
  <2>1. disk'[q] = disk[q]
    BY <1>2 DEF Flushed
  <2>2. Len(disk'[q]) = Len(disk[q])
    BY <2>1
  <2>3. \A i \in (Len(disk[q]) + 1) .. Len(disk'[q]) : FALSE
    BY <2>2
  <2> QED
    BY <1>2, <2>1, <2>2, <2>3
<1> QED
  BY <1>1, <1>2

LEMMA WrittenBelow ==
  ASSUME TypeOK, NEW q \in Procs
  PROVE  /\ Len(logged[q]) \in Nat
         /\ \A n \in Written(q) :
              n \in Nat /\ n <= Len(logged[q]) /\ n < Len(logged[q]) + 1
         /\ \A n \in Written(q)' : n \in Int
BY DEF Written, TypeOK

LEMMA FileStays ==
  ASSUME FilesType, FilesType', NEW p \in Procs,
         disk' = disk \/ disk' = Flushed(p),
         NEW q \in Procs, NEW n \in Nat,
         NEW k \in 0 .. Len(disk[q]), NEW j \in Nat, k <= j, InFile(q, n, k)
  PROVE  InFile(q, n, j)'
<1>1. /\ Len(disk[q]) \in Nat
      /\ \A i \in 1 .. Len(disk[q]) : disk'[q][i] = disk[q][i]
  BY DiskGrows DEF Longer
<1>2. PICK i \in 1 .. k : disk[q][i].n = n
  BY DEF InFile
<1>3. i \in 1 .. Len(disk[q]) /\ i \in 1 .. j
  BY <1>1
<1>4. disk'[q][i].n = n
  BY <1>1, <1>2, <1>3
<1> QED
  BY <1>3, <1>4 DEF InFile

LEMMA FileKeeps ==
  ASSUME FilesType, FilesType', NEW p \in Procs,
         disk' = disk \/ disk' = Flushed(p),
         NEW q \in Procs, NEW n \in Nat, InFile(q, n, Len(disk[q]))
  PROVE  InFile(q, n, Len(disk[q]))'
<1>1. /\ Len(disk[q]) \in Nat /\ Len(disk'[q]) \in Nat
      /\ Len(disk[q]) <= Len(disk'[q])
      /\ \A i \in 1 .. Len(disk[q]) : disk'[q][i] = disk[q][i]
  BY DiskGrows DEF Longer
<1>2. PICK i \in 1 .. Len(disk[q]) : disk[q][i].n = n
  BY DEF InFile
<1>3. i \in 1 .. Len(disk'[q]) /\ disk'[q][i].n = n
  BY <1>1, <1>2
<1> QED
  BY <1>3 DEF InFile

LEMMA FileStep ==
  ASSUME TypeOK, FilesType, FilesType', NEW p \in Procs,
         disk' = disk \/ disk' = Flushed(p), Grows,
         BufAt(p), NEW q \in Procs, FileAt(q)
  PROVE  FileAt(q)'
<1> DEFINE old == Len(disk[q])
           new == Len(disk'[q])
<1>0. old \in Nat /\ new \in Nat /\ old <= new
  BY DiskGrows DEF Longer
<1>1. /\ \A n \in Written(q) : n \in Nat /\ n <= Len(logged[q])
      /\ \A n \in Written(q)' : n \in Int
      /\ Len(logged[q]) \in Nat
  BY WrittenBelow
<1>2. SUFFICES ASSUME NEW i \in 1 .. new
      PROVE  /\ disk'[q][i].by = q
             /\ disk'[q][i].n \in Written(q)'
             /\ disk'[q][i].ok \/ disk'[q][i].n \in console'[q]
             /\ \A n \in Written(q)' :
                  n < disk'[q][i].n => InFile(q, n, i - 1)'
  BY DEF FileAt
<1>3. CASE i <= old
  <2>1. /\ i \in 1 .. old /\ disk'[q][i] = disk[q][i]
        /\ i - 1 \in 0 .. old /\ i - 1 \in Nat
    BY <1>0, <1>3, DiskGrows DEF Longer
  <2>2. ASSUME NEW n \in Written(q)', n < disk[q][i].n
        PROVE  InFile(q, n, i - 1)'
    <3>1. n \in Written(q)
      BY <1>1, <2>1, <2>2 DEF FileAt, Grows
    <3>2. InFile(q, n, i - 1)
      BY <2>1, <2>2, <3>1 DEF FileAt
    <3> QED
      BY <1>1, <2>1, <3>1, <3>2, FileStays
  <2> QED
    BY <2>1, <2>2 DEF FileAt, Grows
<1>4. CASE i > old
  <2> DEFINE j == i - old
  <2>1. j \in 1 .. Len(buf[p]) /\ disk'[q][i] = buf[p][j] /\ fp[p] = q
    BY <1>0, <1>4, DiskGrows DEF Longer
  <2>2. \A t \in 1 .. (j - 1) :
          old + t \in 1 .. (i - 1) /\ disk'[q][old + t] = buf[p][t]
    <3>1. TAKE t \in 1 .. (j - 1)
    <3>2. old + t \in (old + 1) .. new /\ old + t <= i - 1
      BY <1>0, <2>1
    <3>3. old + t - old = t
      BY <1>0
    <3> QED
      BY <1>0, <3>2, <3>3, DiskGrows DEF Longer
  <2>3. ASSUME NEW n \in Written(q)', n < buf[p][j].n
        PROVE  InFile(q, n, i - 1)'
    <3>0. buf[p][j].n \in Written(q)
      BY <2>1 DEF BufAt
    <3>1. n \in Written(q)
      BY <1>1, <2>3, <3>0 DEF Grows
    <3>2. CASE InFile(q, n, old)
      BY <1>0, <1>1, <1>4, <3>1, <3>2, FileStays
    <3>3. CASE InBuf(p, n, j - 1)
      BY <1>0, <2>2, <3>3 DEF InFile, InBuf
    <3> QED
      BY <2>1, <2>3, <3>1, <3>2, <3>3 DEF BufAt
  <2> QED
    BY <2>1, <2>3 DEF BufAt, Grows
<1> QED
  BY <1>0, <1>3, <1>4

BufLine(r, q, i) ==
  /\ buf[r][i].by = q
  /\ buf[r][i].n \in Written(q)
  /\ buf[r][i].ok \/ buf[r][i].n \in console[q]
  /\ \A j \in 1 .. (i - 1) : buf[r][j].n # buf[r][i].n
  /\ \A n \in Written(q) : n < buf[r][i].n =>
       InFile(q, n, Len(disk[q])) \/ InBuf(r, n, i - 1)

(* A line that stays in a buffer still goes on from what is in the file.   *)
LEMMA LineStep ==
  ASSUME TypeOK, FilesType, FilesType', NEW p \in Procs,
         disk' = disk \/ disk' = Flushed(p), Grows,
         NEW r \in Procs, NEW q \in Procs, NEW i \in 1 .. Len(buf[r]),
         \A j \in 1 .. i : buf'[r][j] = buf[r][j], BufLine(r, q, i)
  PROVE  BufLine(r, q, i)'
<1>1. /\ \A n \in Written(q) : n \in Nat /\ n <= Len(logged[q])
      /\ \A n \in Written(q)' : n \in Int
      /\ Len(logged[q]) \in Nat
  BY WrittenBelow
<1>3. Len(buf[r]) \in Nat /\ i \in 1 .. i
  BY DEF FilesType
<1>4. buf'[r][i] = buf[r][i]
  BY <1>3
<1>5. ASSUME NEW n \in Written(q)', n < buf[r][i].n
      PROVE  InFile(q, n, Len(disk[q]))' \/ InBuf(r, n, i - 1)'
  <2>1. n \in Written(q)
    BY <1>1, <1>5 DEF BufLine, Grows
  <2>2. CASE InFile(q, n, Len(disk[q]))
    BY <1>1, <2>1, <2>2, FileKeeps
  <2>3. CASE InBuf(r, n, i - 1)
    BY <1>3, <2>3 DEF InBuf
  <2> QED
    BY <1>5, <2>1, <2>2, <2>3 DEF BufLine
<1> QED
  BY <1>3, <1>4, <1>5 DEF BufLine, Grows

LEMMA BufStep ==
  ASSUME TypeOK, FilesType, FilesType', NEW p \in Procs,
         disk' = disk \/ disk' = Flushed(p), Grows,
         NEW r \in Procs, BufAt(r), buf'[r] = buf[r], fp'[r] = fp[r]
  PROVE  BufAt(r)'
<1>1. SUFFICES ASSUME NEW q \in Procs, fp[r] = q, NEW i \in 1 .. Len(buf[r])
      PROVE  BufLine(r, q, i)'
  BY DEF BufAt, BufLine
<1>2. BufLine(r, q, i)
  BY <1>1 DEF BufAt, BufLine
<1> QED
  BY <1>2, LineStep

LEMMA KeptStep ==
  ASSUME TypeOK, FilesType, FilesType', NEW p \in Procs,
         disk' = disk \/ disk' = Flushed(p),
         NEW r \in Procs, KeptAt(r), Written(r)' = Written(r),
         buf'[r] = buf[r], fp'[r] = fp[r]
  PROVE  KeptAt(r)'
<1>2. SUFFICES ASSUME NEW n \in Written(r)
      PROVE  \/ InFile(r, n, Len(disk[r]))'
             \/ fp[r] = r /\ InBuf(r, n, Len(buf[r]))'
  BY DEF KeptAt
<1>3. n \in Nat
  BY WrittenBelow
<1>4. CASE InFile(r, n, Len(disk[r]))
  BY <1>3, <1>4, FileKeeps
<1>5. CASE fp[r] = r /\ InBuf(r, n, Len(buf[r]))
  BY <1>5 DEF InBuf
<1> QED
  BY <1>4, <1>5 DEF KeptAt

(* What was kept of p is in its file once its stream is flushed.           *)
LEMMA FlushedKept ==
  ASSUME TypeOK, FilesType, FilesType', NEW p \in Procs, disk' = Flushed(p),
         KeptAt(p), NEW n \in Written(p)
  PROVE  InFile(p, n, Len(disk[p]))'
<1>2. n \in Nat
  BY WrittenBelow
<1>3. CASE InFile(p, n, Len(disk[p]))
  BY <1>2, <1>3, FileKeeps
<1>4. CASE fp[p] = p /\ InBuf(p, n, Len(buf[p]))
  <2>1. PICK j \in 1 .. Len(buf[p]) : buf[p][j].n = n
    BY <1>4 DEF InBuf
  <2>2. /\ Len(disk[p]) + j \in 1 .. Len(disk'[p])
        /\ disk'[p][Len(disk[p]) + j] = buf[p][j]
    BY <1>4, DiskGrows DEF Longer
  <2> QED
    BY <2>1, <2>2 DEF InFile
<1> QED
  BY <1>3, <1>4 DEF KeptAt

-----------------------------------------------------------------------------
(* A message.                                                              *)

(* Line l goes to the buffer of p, or is the first of the next one.        *)
Adds(p, l) ==
  \/ disk' = disk /\ buf' = [buf EXCEPT ![p] = Append(@, l)]
  \/ disk' = Flushed(p) /\ buf' = [buf EXCEPT ![p] = <<l>>]

LEMMA LogIs ==
  ASSUME TypeOK, NEW p \in Procs, LifeAt(p), pc[p] \in Active,
         NEW m \in Msg, Log(p, m)
  PROVE  LET new == Len(logged[p]) + 1
         IN /\ Grows
            /\ \A q \in Procs \ {p} : Written(q)' = Written(q)
            /\ \/ /\ disk' = disk
                  /\ buf' = buf
                  /\ \A q \in Procs : Written(q)' = Written(q)
               \/ /\ fp[p] = p
                  /\ Written(p)' = Written(p) \cup {new}
                  /\ \E l \in Line :
                       /\ l.by = p
                       /\ l.n = new
                       /\ l.ok \/ new \in console'[p]
                       /\ Adds(p, l)
<1> DEFINE entry == Entry(p, m)
           new == Len(logged[p]) + 1
<1>1. /\ entry \in Seq(Line)
      /\ Len(entry) = (IF HasFile(p) /\ m.lvl >= FileLevel THEN 1 ELSE 0)
      /\ Len(entry) = 1 => entry[1].by = p /\ entry[1].n = new
                           /\ (entry[1].ok \/ new \in console'[p])
  BY EntryOf DEF LifeAt, Log
<1>2. Write(p, entry) /\ PrintOut(p, m) /\ UNCHANGED <<cb, fp>>
      /\ logged' = [logged EXCEPT ![p] = Append(@, m)]
  BY DEF Log
<1> HIDE DEF entry
<1>3. /\ Len(logged[p]) \in Nat
      /\ Len(logged'[p]) = Len(logged[p]) + 1
      /\ \A i \in 1 .. Len(logged[p]) : logged'[p][i] = logged[p][i]
      /\ logged'[p][Len(logged[p]) + 1] = m
      /\ \A q \in Procs \ {p} : logged'[q] = logged[q]
  <2>1. logged \in [Procs -> Seq(Msg)]
    BY DEF TypeOK, Msg
  <2>2. /\ logged'[p] = Append(logged[p], m)
        /\ \A q \in Procs \ {p} : logged'[q] = logged[q]
    BY <1>2, <2>1
  <2>3. logged[p] \in Seq(Msg)
    BY <2>1
  <2> QED
    BY <2>2, <2>3, AppendProperties
<1>4. \A q \in Procs \ {p} : Written(q)' = Written(q)
  BY <1>2, <1>3 DEF Written
<1>5. Written(p)' = IF HasFile(p) /\ m.lvl >= FileLevel
                    THEN Written(p) \cup {new} ELSE Written(p)
  BY <1>2, <1>3 DEF Written, HasFile
<1>6. Grows
  <2>1. \A q \in Procs : console[q] \subseteq console'[q]
    BY <1>2 DEF PrintOut, TypeOK
  <2> QED
    BY <1>3, <1>4, <1>5, <2>1 DEF Grows
<1>7. CASE HasFile(p) /\ m.lvl >= FileLevel
  <2>1. fp[p] = p
    BY <1>7 DEF LifeAt
  <2>2. PICK l \in Line : entry = <<l>> /\ l = entry[1]
    BY <1>1, <1>7
  <2>3. entry # << >> /\ buf[p] \o entry = Append(buf[p], l)
    BY <2>2, AppendIsConcat DEF TypeOK
  <2>4. Adds(p, l)
    BY <1>2, <2>1, <2>2, <2>3 DEF Write, Adds, Flushed, TypeOK
  <2> QED
    BY <1>1, <1>4, <1>5, <1>6, <1>7, <2>1, <2>2, <2>4
<1>8. CASE ~(HasFile(p) /\ m.lvl >= FileLevel)
  <2>1. entry = << >>
    BY <1>1, <1>8, EmptySeq
  <2>2. disk' = disk /\ buf' = buf
    <3>1. buf[p] \o << >> = buf[p]
      BY ConcatEmptySeq DEF TypeOK
    <3> QED
      BY <1>2, <2>1, <3>1 DEF Write, TypeOK
  <2> QED
    BY <1>4, <1>5, <1>6, <1>8, <2>2
<1> QED
  BY <1>7, <1>8

-----------------------------------------------------------------------------
(* Each step leaves every process p with what LifeAt, FileAt, BufAt and    *)
(* KeptAt say of it.                                                       *)

LEMMA LifeElsewhere ==
  ASSUME NEW q \in Procs, LifeAt(q),
         pc'[q] = pc[q], ctx'[q] = ctx[q], cb'[q] = cb[q], fp'[q] = fp[q],
         buf'[q] = buf[q], logged'[q] = logged[q], inherited'[q] = inherited[q]
  PROVE  LifeAt(q)'
BY DEF LifeAt, HasFile

LEMMA Clog_Life ==
  ASSUME ClogInv, TypeOK', Next, NEW q \in Procs
  PROVE  LifeAt(q)'
<1> USE ClogAssumption DEF Active
<1>0. LifeAt(q) /\ TypeOK /\ FilesType
  BY DEF ClogInv, TypeOK, FilesType, Streams
<1>1. ASSUME AllForked PROVE LifeAt(q)'
  BY <1>0, <1>1 DEF AllForked, LifeAt, TypeOK, HasFile, files, history
<1>2. ASSUME NEW w \in Workers, Fork(w) PROVE LifeAt(q)'
  <2>1. LifeAt(Ctrl) /\ w \in Procs /\ Ctrl \in Procs
    BY DEF ClogInv, Procs
  <2>2. CASE q = w
    <3>1. /\ pc'[w] = "born" /\ fp'[w] = fp[Ctrl] /\ buf'[w] = buf[Ctrl]
          /\ cb'[w] = cb[Ctrl] /\ logged'[w] = logged[w]
      BY <1>2, <2>1 DEF Fork, TypeOK
    <3>2. /\ fp[Ctrl] \in {NoFile, Ctrl} /\ cb[Ctrl] \in Lists
          /\ logged[w] = << >>
          /\ (fp[Ctrl] \notin Procs => buf[Ctrl] = << >>)
      BY <1>0, <1>2, <2>1, <2>2 DEF Fork, LifeAt
    <3> QED
      BY <2>1, <2>2, <3>1, <3>2 DEF LifeAt
  <2>3. CASE q # w
    BY <1>0, <1>2, <2>1, <2>3 DEF Fork, LifeAt, TypeOK, HasFile
  <2> QED
    BY <2>2, <2>3
<1>3. ASSUME NEW p \in Procs, InitLog(p) \/ InitLogFails(p) PROVE LifeAt(q)'
  <2>1. Registered(p) \subseteq Lists
    BY DEF Registered, Lists
  <2>2. CASE q # p
    <3>1. CASE InitLog(p)
      <4>1. /\ pc'[q] = pc[q] /\ ctx'[q] = ctx[q] /\ cb'[q] = cb[q]
            /\ logged'[q] = logged[q] /\ inherited'[q] = inherited[q]
        BY <1>0, <2>2, <3>1 DEF InitLog, TypeOK, history
      <4>2. fp'[q] = fp[q] /\ buf'[q] = buf[q]
        <5>1. UNCHANGED files \/ \E f \in Streams : Closing(p, f)
          BY <1>0, <3>1, ClosingSteps
        <5> QED
          BY <1>0, <2>2, <5>1, ClosingElsewhere
      <4> QED
        BY <1>0, <4>1, <4>2, LifeElsewhere
    <3>2. CASE InitLogFails(p)
      BY <1>0, <2>2, <3>2, LifeElsewhere DEF InitLogFails, TypeOK, history
    <3> QED
      BY <1>3, <3>1, <3>2
  <2>3. CASE q = p /\ InitLog(p)
    <3>1. PICK list \in Registered(p) :
            /\ cb' = [cb EXCEPT ![p] = list]
            /\ IF Contains(list, "file") THEN FileInit(p) ELSE UNCHANGED files
      BY <2>3 DEF InitLog
    <3>2. cb'[p] = list /\ list \in Lists
      BY <2>1, <3>1 DEF TypeOK
    <3>3. pc'[p] = "log" /\ ctx'[p] = "list" /\ UNCHANGED <<logged, inherited>>
          /\ pc[p] \in {"down", "born"}
      BY <2>3 DEF InitLog, TypeOK, history
    <3>4. CASE Contains(list, "file")
      <4>1. fp'[p] = p /\ buf'[p] = << >>
        BY <3>1, <3>4 DEF FileInit, TypeOK
      <4> QED
        BY <1>0, <2>3, <3>2, <3>3, <4>1 DEF LifeAt, HasFile, Procs
    <3>5. CASE ~Contains(list, "file")
      <4>1. fp'[p] = fp[p] /\ buf'[p] = buf[p]
        BY <3>1, <3>5 DEF files
      <4> QED
        BY <1>0, <2>3, <3>2, <3>3, <3>5, <4>1 DEF LifeAt, HasFile
    <3> QED
      BY <3>4, <3>5
  <2>4. CASE q = p /\ InitLogFails(p)
    BY <1>0, <2>4 DEF InitLogFails, LifeAt, TypeOK, Lists, history
  <2> QED
    BY <1>3, <2>2, <2>3, <2>4
<1>4. ASSUME NEW p \in Procs, LogAt(p) \/ LogInCb(p) PROVE LifeAt(q)'
  <2>1. PICK m \in Msg : Log(p, m)
    BY <1>4, LogsOf DEF LogAt, LogInCb, Msg
  <2>2. /\ pc[p] \in Active /\ pc'[p] \in Active
        /\ \A r \in Procs \ {p} : pc'[r] = pc[r]
    BY <1>4, LogsOf DEF LogAt, LogInCb, TypeOK
  <2>3. UNCHANGED <<ctx, cb, fp, inherited>>
    BY <2>1 DEF Log
  <2>4. CASE q = p
    <3>1. fp[q] \notin Procs => buf'[q] = buf[q]
      BY <1>0, <2>1, <2>2, <2>4, LogIs
    <3> QED
      BY <1>0, <2>2, <2>3, <2>4, <3>1 DEF LifeAt, HasFile
  <2>5. CASE q # p
    <3>1. logged'[q] = logged[q] /\ buf'[q] = buf[q]
      BY <1>0, <2>1, <2>5 DEF Log, Write, TypeOK
    <3> QED
      BY <1>0, <2>2, <2>3, <2>5, <3>1 DEF LifeAt, HasFile
  <2> QED
    BY <2>4, <2>5
<1>5. ASSUME NEW p \in Procs, Leave(p) \/ Kill(p) PROVE LifeAt(q)'
  BY <1>0, <1>5 DEF Leave, Kill, LifeAt, TypeOK, HasFile, files, history
<1>6. ASSUME NEW p \in Procs, Finish(p) \/ Exit(p) PROVE LifeAt(q)'
  <2>1. CASE Finish(p)
    <3>1. CASE q # p
      <4>1. /\ pc'[q] = pc[q] /\ ctx'[q] = ctx[q] /\ cb'[q] = cb[q]
            /\ logged'[q] = logged[q] /\ inherited'[q] = inherited[q]
        BY <1>0, <2>1, <3>1 DEF Finish, TypeOK, history
      <4>2. fp'[q] = fp[q] /\ buf'[q] = buf[q]
        <5>1. UNCHANGED files \/ \E f \in Streams : Closing(p, f)
          BY <1>0, <2>1, ClosingSteps
        <5> QED
          BY <1>0, <3>1, <5>1, ClosingElsewhere
      <4> QED
        BY <1>0, <4>1, <4>2, LifeElsewhere
    <3>2. CASE q = p
      <4>1. /\ pc'[p] = "off" /\ cb'[p] = cb[p] /\ cb[p] \in Lists
            /\ pc[p] = "uninit" /\ fp[p] \in {NoFile, "closed", Ctrl, p}
            /\ fp[p] \notin Procs => buf[p] = << >>
        BY <1>0, <2>1, <3>2 DEF Finish, TypeOK, LifeAt
      <4>2. CASE HasFile(p)
        <5>1. fp'[p] = "closed" /\ buf'[p] = << >>
          BY <1>0, <2>1, <4>2 DEF Finish, TypeOK, HasFile
        <5> QED
          BY <3>2, <4>1, <5>1 DEF LifeAt
      <4>3. CASE ~HasFile(p)
        <5>1. fp'[p] = fp[p] /\ buf'[p] = buf[p] /\ ~HasFile(p)'
          BY <2>1, <4>1, <4>3 DEF Finish, HasFile, files
        <5> QED
          BY <3>2, <4>1, <5>1 DEF LifeAt
      <4> QED
        BY <4>2, <4>3
    <3> QED
      BY <3>1, <3>2
  <2>2. CASE Exit(p)
    BY <1>0, <2>2 DEF Exit, LifeAt, TypeOK, HasFile, history
  <2> QED
    BY <1>6, <2>1, <2>2
<1> QED
  BY <1>1, <1>2, <1>3, <1>4, <1>5, <1>6 DEF Next

Kept(q) == FileAt(q) /\ BufAt(q) /\ KeptAt(q)

LEMMA LogStep ==
  ASSUME ClogInv, TypeOK', NEW p \in Procs, NEW m \in Msg,
         Log(p, m), pc[p] \in Active,
         NEW q \in Procs
  PROVE  Kept(q)'
<1> DEFINE new == Len(logged[p]) + 1
<1>0. /\ TypeOK /\ FilesType /\ FilesType' /\ LifeAt(p)
      /\ \A r \in Procs : FileAt(r) /\ BufAt(r) /\ KeptAt(r)
      /\ fp' = fp
  BY DEF ClogInv, TypeOK, FilesType, Streams, Log
<1>1. Grows /\ \A r \in Procs \ {p} : Written(r)' = Written(r)
  BY <1>0, LogIs
<1>2. CASE /\ disk' = disk /\ buf' = buf
           /\ \A r \in Procs : Written(r)' = Written(r)
  BY <1>0, <1>1, <1>2, FileStep, BufStep, KeptStep DEF Kept
<1>3. ASSUME fp[p] = p, Written(p)' = Written(p) \cup {new},
             NEW l \in Line, l.by = p, l.n = new, l.ok \/ new \in console'[p],
             Adds(p, l)
      PROVE  Kept(q)'
  <2>1. disk' = disk \/ disk' = Flushed(p)
    BY <1>3 DEF Adds
  <2>2. FileAt(q)'
    BY <1>0, <1>1, <2>1, FileStep
  <2>3. CASE q # p
    <3>1. buf'[q] = buf[q] /\ fp'[q] = fp[q]
      BY <1>0, <1>3, <2>3 DEF Adds, FilesType
    <3> QED
      BY <1>0, <1>1, <2>1, <2>2, <2>3, <3>1, BufStep, KeptStep DEF Kept
  <2>4. CASE q = p
    <3>1. \A n \in Written(p) : n \in Nat /\ n < new
      BY <1>0, WrittenBelow
    <3>3. CASE disk' = disk /\ buf' = [buf EXCEPT ![p] = Append(@, l)]
      <4>1. PICK old \in Nat : old = Len(buf[p])
        BY <1>0 DEF FilesType
      <4>2. /\ Len(buf'[p]) = old + 1
            /\ \A i \in 1 .. old : buf'[p][i] = buf[p][i]
            /\ buf'[p][old + 1] = l
        BY <1>0, <3>3, <4>1, AppendProperties DEF FilesType
      <4>3. ASSUME NEW i \in 1 .. old PROVE BufLine(p, p, i)'
        <5>1. BufLine(p, p, i)
          BY <1>0, <1>3, <4>1 DEF BufAt, BufLine
        <5> QED
          BY <1>0, <1>1, <2>1, <4>1, <4>2, <5>1, LineStep
      <4>4. ASSUME NEW n \in Written(p)
            PROVE  \/ InFile(p, n, Len(disk[p]))'
                   \/ \E j \in 1 .. old : buf'[p][j].n = n
        <5>1. CASE InFile(p, n, Len(disk[p]))
          BY <1>0, <2>1, <3>1, <5>1, FileKeeps
        <5>2. CASE InBuf(p, n, Len(buf[p]))
          BY <4>1, <4>2, <5>2 DEF InBuf
        <5> QED
          BY <1>0, <5>1, <5>2 DEF KeptAt
      <4>5. ASSUME NEW k \in Nat, k = old + 1 PROVE BufLine(p, p, k)'
        <5>1. k - 1 = old /\ buf'[p][k] = l
          BY <4>2, <4>5
        <5>2. \A j \in 1 .. old : buf'[p][j].n # new
          <6>1. \A j \in 1 .. old : buf[p][j].n \in Written(p)
            BY <1>0, <1>3, <4>1 DEF BufAt
          <6> QED
            BY <3>1, <4>2, <6>1
        <5>3. ASSUME NEW n \in Written(p)', n < new
              PROVE  InFile(p, n, Len(disk[p]))' \/ InBuf(p, n, k - 1)'
          <6>1. n \in Written(p)
            BY <1>3, <5>3
          <6> QED
            BY <4>4, <5>1, <6>1 DEF InBuf
        <5> QED
          BY <1>3, <5>1, <5>2, <5>3 DEF BufLine
      <4>6. BufAt(p)'
        <5>1. \A i \in 1 .. Len(buf'[p]) :
                i \in 1 .. old \/ (i \in Nat /\ i = old + 1)
          BY <4>2
        <5> QED
          BY <1>0, <1>3, <4>3, <4>5, <5>1 DEF BufAt, BufLine
      <4>7. KeptAt(p)'
        <5>1. /\ \A j \in 1 .. old : j \in 1 .. Len(buf'[p])
              /\ old + 1 \in 1 .. Len(buf'[p])
          BY <4>2
        <5> QED
          BY <1>0, <1>3, <4>2, <4>4, <5>1 DEF KeptAt, InBuf
      <4> QED
        BY <2>2, <2>4, <4>6, <4>7 DEF Kept
    <3>4. CASE disk' = Flushed(p) /\ buf' = [buf EXCEPT ![p] = <<l>>]
      <4>1. Len(buf'[p]) = 1 /\ buf'[p][1] = l
        BY <1>0, <3>4 DEF FilesType
      <4>2. \A n \in Written(p) : InFile(p, n, Len(disk[p]))'
        BY <1>0, <3>4, FlushedKept
      <4>3. BufAt(p)'
        <5>1. SUFFICES ASSUME NEW i \in 1 .. Len(buf'[p])
              PROVE  BufLine(p, p, i)'
          BY <1>0, <1>3 DEF BufAt, BufLine
        <5>2. i = 1 /\ \A j \in 1 .. (i - 1) : FALSE
          BY <4>1
        <5> QED
          BY <1>3, <4>1, <4>2, <5>2 DEF BufLine
      <4>4. KeptAt(p)'
        BY <1>0, <1>3, <4>1, <4>2 DEF KeptAt, InBuf
      <4> QED
        BY <2>2, <2>4, <4>3, <4>4 DEF Kept
    <3> QED
      BY <1>3, <2>4, <3>3, <3>4 DEF Adds
  <2> QED
    BY <2>3, <2>4
<1> QED
  BY <1>0, <1>2, <1>3, LogIs

(* Setting up or closing the log does not change what should be written.   *)
LEMMA SameWritten ==
  ASSUME ClogInv, NEW p \in Procs, NEW q \in Procs,
         InitLog(p) \/ InitLogFails(p) \/ Finish(p) \/ Exit(p)
  PROVE  Written(q)' = Written(q)
<1>0. LifeAt(p) /\ TypeOK
  BY DEF ClogInv
<1>1. CASE cb'[q] = cb[q]
  BY <1>1 DEF InitLog, InitLogFails, Finish, Exit, history, Written
<1>2. CASE cb'[q] # cb[q]
  <2>1. logged'[q] = << >> /\ logged[q] = << >>
    BY <1>0, <1>2
    DEF InitLog, InitLogFails, Finish, Exit, history, LifeAt, TypeOK
  <2>2. \A i \in 1 .. Len(<< >>) : FALSE
    OBVIOUS
  <2> QED
    BY <2>1, <2>2 DEF Written
<1> QED
  BY <1>1, <1>2

LEMMA GrowsSame ==
  ASSUME \A q \in Procs : Written(q)' = Written(q), console' = console
  PROVE  Grows
BY DEF Grows

LEMMA CloseStep ==
  ASSUME ClogInv, TypeOK', NEW p \in Procs, NEW q \in Procs,
         InitLog(p) \/ InitLogFails(p) \/ Finish(p) \/ Exit(p)
  PROVE  Kept(q)'
<1>0. /\ TypeOK /\ FilesType /\ FilesType' /\ LifeAt(p)
      /\ \A r \in Procs : FileAt(r) /\ BufAt(r) /\ KeptAt(r)
  BY DEF ClogInv, TypeOK, FilesType, Streams
<1>1. Grows /\ \A r \in Procs : Written(r)' = Written(r)
  BY SameWritten, GrowsSame DEF InitLog, InitLogFails, Finish, Exit, history
<1>2. CASE UNCHANGED files
  BY <1>0, <1>1, <1>2, FileStep, BufStep, KeptStep DEF files, Kept
<1>3. ASSUME NEW f \in Streams, Closing(p, f) PROVE Kept(q)'
  <2>1. FileAt(q)'
    BY <1>0, <1>1, <1>3, FileStep DEF Closing
  <2>2. CASE q # p
    <3>1. buf'[q] = buf[q] /\ fp'[q] = fp[q]
      BY <1>0, <1>3, <2>2 DEF Closing, FilesType
    <3> QED
      BY <1>0, <1>1, <1>3, <2>1, <3>1, BufStep, KeptStep DEF Closing, Kept
  <2>3. CASE q = p
    <3>1. \A i \in 1 .. Len(buf'[p]) : FALSE
      BY <1>0, <1>3 DEF Closing, FilesType
    <3>2. BufAt(p)'
      BY <3>1 DEF BufAt
    <3>3. KeptAt(p)'
      BY <1>0, <1>1, <1>3, FlushedKept DEF Closing, KeptAt
    <3> QED
      BY <2>1, <2>3, <3>2, <3>3 DEF Kept
  <2> QED
    BY <2>2, <2>3
<1> QED
  BY <1>0, <1>2, <1>3, ClosingSteps

LEMMA ForkStep ==
  ASSUME ClogInv, TypeOK', NEW w \in Workers, Fork(w), NEW q \in Procs
  PROVE  Kept(q)'
<1> USE ClogAssumption
<1>0. /\ TypeOK /\ FilesType /\ FilesType' /\ LifeAt(w) /\ LifeAt(Ctrl)
      /\ \A r \in Procs : FileAt(r) /\ BufAt(r) /\ KeptAt(r)
      /\ w \in Procs /\ Ctrl \in Procs
  BY DEF ClogInv, TypeOK, FilesType, Streams, Procs
<1>1. UNCHANGED <<disk, logged, console>>
  BY DEF Fork
<1>2. logged[w] = << >>
  BY <1>0 DEF Fork, LifeAt
<1>3. Written(w) = {} /\ Written(w)' = {}
  <2>1. \A i \in 1 .. Len(<< >>) : FALSE
    OBVIOUS
  <2> QED
    BY <1>1, <1>2, <2>1 DEF Written
<1>4. \A r \in Procs \ {w} :
        buf'[r] = buf[r] /\ fp'[r] = fp[r] /\ Written(r)' = Written(r)
  BY <1>0 DEF Fork, TypeOK, Written
<1>5. Grows
  BY <1>1, <1>3, <1>4, GrowsSame
<1>6. FileAt(q)'
  BY <1>0, <1>1, <1>5, FileStep
<1>7. CASE q # w
  BY <1>0, <1>1, <1>4, <1>5, <1>6, <1>7, BufStep, KeptStep DEF Kept
<1>8. CASE q = w
  <2>1. BufAt(Ctrl)'
    BY <1>0, <1>1, <1>4, <1>5, BufStep
  <2>2. buf'[w] = buf'[Ctrl] /\ fp'[w] = fp'[Ctrl]
    BY <1>0, <1>4 DEF Fork, TypeOK
  <2>3. BufAt(w)'
    BY <2>1, <2>2 DEF BufAt, InBuf
  <2> QED
    BY <1>3, <1>6, <1>8, <2>3 DEF KeptAt, Kept
<1> QED
  BY <1>7, <1>8

LEMMA Clog_Kept ==
  ASSUME ClogInv, TypeOK', Next, NEW q \in Procs
  PROVE  Kept(q)'
<1> USE ClogAssumption
<1>0. TypeOK /\ FileAt(q) /\ BufAt(q) /\ KeptAt(q)
  BY DEF ClogInv
<1>1. ASSUME UNCHANGED <<cb, files, history>> PROVE Kept(q)'
  <2>1. /\ FilesType /\ FilesType' /\ UNCHANGED <<disk, console>>
        /\ buf' = buf /\ fp' = fp /\ \A r \in Procs : Written(r)' = Written(r)
    BY <1>0, <1>1 DEF TypeOK, FilesType, Streams, files, history, Written
  <2> QED
    BY <1>0, <2>1, GrowsSame, FileStep, BufStep, KeptStep DEF Kept
<1>2. ASSUME NEW p \in Procs, LogAt(p) \/ LogInCb(p) PROVE Kept(q)'
  <2>1. PICK m \in Msg : Log(p, m)
    BY <1>2, LogsOf DEF LogAt, LogInCb, Msg
  <2>2. pc[p] \in Active
    BY <1>2, LogsOf DEF LogAt, LogInCb, Active
  <2> QED
    BY <2>1, <2>2, LogStep
<1>3. AllForked => UNCHANGED <<cb, files, history>>
  BY DEF AllForked
<1>4. \A p \in Procs : Leave(p) \/ Kill(p) => UNCHANGED <<cb, files, history>>
  BY DEF Leave, Kill
<1> QED
  BY <1>1, <1>2, <1>3, <1>4, CloseStep, ForkStep DEF Next

-----------------------------------------------------------------------------
(* The copies of a line.                                                   *)

LEMMA Counts ==
  ASSUME FilesType, NEW l \in Line
  PROVE  /\ IsFiniteSet(Copies(l)) /\ Cardinality(Copies(l)) \in Nat
         /\ IsFiniteSet(Holders(l)) /\ Cardinality(Holders(l)) \in Nat
         /\ IsFiniteSet(Heirs(l)) /\ Cardinality(Heirs(l)) \in Nat
<1>1. Len(disk[l.by]) \in Nat
  BY DEF FilesType, Line
<1>2. /\ IsFiniteSet(1 .. Len(disk[l.by]))
      /\ Copies(l) \in SUBSET (1 .. Len(disk[l.by]))
  BY <1>1, FS_Interval DEF Copies
<1>3. IsFiniteSet(Workers) /\ IsFiniteSet(Procs)
  BY ClogAssumption, FS_AddElement DEF Procs
<1>4. Holders(l) \in SUBSET Procs /\ Heirs(l) \in SUBSET Workers
  BY DEF Holders, Heirs
<1> QED
  BY <1>2, <1>3, <1>4, FS_Subset, FS_CardinalityType

LEMMA Fewer ==
  ASSUME NEW S, IsFiniteSet(S), NEW T, T \subseteq S
  PROVE  /\ Cardinality(T) \in Nat /\ Cardinality(S) \in Nat
         /\ Cardinality(T) <= Cardinality(S)
BY FS_Subset, FS_CardinalityType

LEMMA OneMore ==
  ASSUME NEW S, IsFiniteSet(S), NEW x, NEW T, T \subseteq S \cup {x}
  PROVE  /\ Cardinality(T) \in Nat /\ Cardinality(S) \in Nat
         /\ Cardinality(T) <= Cardinality(S) + 1
<1>1. Cardinality(S) \in Nat
  BY FS_CardinalityType
<1>2. IsFiniteSet(S \cup {x}) /\ Cardinality(S \cup {x})
        = IF x \in S THEN Cardinality(S) ELSE Cardinality(S) + 1
  BY FS_AddElement
<1>3. Cardinality(T) \in Nat /\ Cardinality(T) <= Cardinality(S \cup {x})
  BY <1>2, Fewer
<1> QED
  BY <1>1, <1>2, <1>3

(* The buffer of p goes to the file: a line in it is one copy more in the  *)
(* file, and p holds it no longer.                                         *)
LEMMA FlushedCopies ==
  ASSUME FilesType, FilesType', NEW p \in Procs, BufAt(p), disk' = Flushed(p),
         NEW l \in Line, Holders(l)' \subseteq Holders(l) \ {p}
  PROVE  /\ Cardinality(Copies(l)') + Cardinality(Holders(l)') \in Nat
         /\ Cardinality(Copies(l)') + Cardinality(Holders(l)')
              <= Cardinality(Copies(l)) + Cardinality(Holders(l))
<1>1. PICK q \in Procs : q = l.by
  BY DEF Line
<1> DEFINE old == Len(disk[q])
<1>2. /\ IsFiniteSet(Copies(l)) /\ Cardinality(Copies(l)) \in Nat
      /\ IsFiniteSet(Holders(l)) /\ Cardinality(Holders(l)) \in Nat
  BY Counts
<1>3. /\ old \in Nat
      /\ \A i \in 1 .. old : disk'[q][i] = disk[q][i]
      /\ \A i \in (old + 1) .. Len(disk'[q]) :
           /\ fp[p] = q
           /\ i - old \in 1 .. Len(buf[p])
           /\ disk'[q][i] = buf[p][i - old]
  <2>1. Longer(p, q)
    BY DiskGrows
  <2> QED
    BY <2>1 DEF Longer
<1>4. CASE p \in Holders(l)
  <2>1. PICK j \in 1 .. Len(buf[p]) : buf[p][j] = l
    BY <1>4 DEF Holders
  <2>2. \A t \in 1 .. Len(buf[p]) : buf[p][t] = l => t = j
    <3>1. \A i \in 1 .. Len(buf[p]) : \A t \in 1 .. (i - 1) :
            buf[p][t].n # buf[p][i].n
      BY <1>1, <1>4 DEF BufAt, Holders
    <3>2. Len(buf[p]) \in Nat
      BY DEF FilesType
    <3>3. TAKE t \in 1 .. Len(buf[p])
    <3>4. t < j \/ t = j \/ j < t
      BY <3>2
    <3> QED
      BY <2>1, <3>1, <3>2, <3>4
  <2>3. Copies(l)' \subseteq Copies(l) \cup {old + j}
    <3>1. SUFFICES ASSUME NEW i \in 1 .. Len(disk'[q]), disk'[q][i] = l
          PROVE  i \in Copies(l) \cup {old + j}
      BY <1>1 DEF Copies
    <3>2. CASE i \in 1 .. old
      BY <1>1, <1>3, <3>1, <3>2 DEF Copies
    <3>3. CASE i \in (old + 1) .. Len(disk'[q])
      <4>1. i - old = j
        BY <1>3, <2>2, <3>1, <3>3
      <4> QED
        BY <1>3, <3>3, <4>1
    <3> QED
      BY <1>3, <3>2, <3>3
  <2>4. /\ IsFiniteSet(Holders(l) \ {p})
        /\ Cardinality(Holders(l) \ {p}) = Cardinality(Holders(l)) - 1
    BY <1>2, <1>4, FS_RemoveElement
  <2>5. /\ Cardinality(Copies(l)') \in Nat
        /\ Cardinality(Copies(l)') <= Cardinality(Copies(l)) + 1
    BY <1>2, <2>3, OneMore
  <2>6. /\ Cardinality(Holders(l)') \in Nat
        /\ Cardinality(Holders(l)') <= Cardinality(Holders(l)) - 1
    BY <1>2, <2>4, Fewer
  <2> QED
    BY <1>2, <2>5, <2>6
<1>5. CASE p \notin Holders(l)
  <2>1. Copies(l)' \subseteq Copies(l)
    <3>1. SUFFICES ASSUME NEW i \in 1 .. Len(disk'[q]), disk'[q][i] = l
          PROVE  i \in Copies(l)
      BY <1>1 DEF Copies
    <3>2. i \in 1 .. old
      BY <1>1, <1>3, <1>5, <3>1 DEF Holders
    <3> QED
      BY <1>1, <1>3, <3>1, <3>2 DEF Copies
  <2>2. Holders(l)' \subseteq Holders(l)
    OBVIOUS
  <2>3. /\ Cardinality(Copies(l)') \in Nat
        /\ Cardinality(Copies(l)') <= Cardinality(Copies(l))
    BY <1>2, <2>1, Fewer
  <2>4. /\ Cardinality(Holders(l)') \in Nat
        /\ Cardinality(Holders(l)') <= Cardinality(Holders(l))
    BY <1>2, <2>2, Fewer
  <2> QED
    BY <1>2, <2>3, <2>4
<1> QED
  BY <1>4, <1>5

LEMMA LessCopies ==
  ASSUME FilesType, CopiesOK, NEW l \in Line,
         Copies(l)' \subseteq Copies(l), Holders(l)' \subseteq Holders(l),
         Heirs(l) \subseteq Heirs(l)', IsFiniteSet(Heirs(l)')
  PROVE  Cardinality(Copies(l)') + Cardinality(Holders(l)')
           <= 1 + Cardinality(Heirs(l)')
<1>1. /\ Cardinality(Copies(l)') \in Nat /\ Cardinality(Holders(l)') \in Nat
      /\ Cardinality(Copies(l)') <= Cardinality(Copies(l))
      /\ Cardinality(Holders(l)') <= Cardinality(Holders(l))
      /\ Cardinality(Heirs(l)') \in Nat
      /\ Cardinality(Heirs(l)) <= Cardinality(Heirs(l)')
  BY Counts, Fewer
<1> QED
  BY <1>1, Counts DEF CopiesOK

LEMMA Clog_Copies ==
  ASSUME ClogInv, TypeOK', Next
  PROVE  CopiesOK'
<1> USE ClogAssumption
<1> SUFFICES ASSUME NEW l \in Line
             PROVE  Cardinality(Copies(l)') + Cardinality(Holders(l)')
                      <= 1 + Cardinality(Heirs(l)')
  BY DEF CopiesOK
<1> DEFINE Counted == Cardinality(Copies(l)) + Cardinality(Holders(l))
                        <= 1 + Cardinality(Heirs(l))
<1>0. /\ TypeOK /\ FilesType /\ FilesType' /\ CopiesOK /\ l.by \in Procs
      /\ \A r \in Procs : LifeAt(r) /\ FileAt(r) /\ BufAt(r)
      /\ IsFiniteSet(Heirs(l)')
      /\ Counted
  <2>1. Heirs(l)' \in SUBSET Workers
    BY DEF Heirs
  <2> QED
    BY <2>1, FS_Subset DEF ClogInv, CopiesOK, TypeOK, FilesType, Streams, Line
<1>c. /\ Cardinality(Copies(l)) \in Nat /\ Cardinality(Holders(l)) \in Nat
      /\ Cardinality(Heirs(l)) \in Nat
  BY <1>0, Counts
<1>1. ASSUME UNCHANGED <<files, history>>
      PROVE  Counted'
  BY <1>0, <1>1 DEF Copies, Holders, Heirs, files, history
<1>2. ASSUME NEW p \in Procs, NEW f \in Streams, Closing(p, f),
             UNCHANGED history
      PROVE  Counted'
  <2>1. Heirs(l)' = Heirs(l)
    BY <1>2 DEF Heirs, history
  <2>2. Holders(l)' \subseteq Holders(l) \ {p}
    <3>1. /\ Len(buf'[p]) = 0
          /\ \A r \in Procs \ {p} : buf'[r] = buf[r] /\ fp'[r] = fp[r]
      BY <1>0, <1>2, EmptySeq DEF Closing, FilesType
    <3> QED
      BY <3>1 DEF Holders
  <2>3. /\ Cardinality(Copies(l)') + Cardinality(Holders(l)') \in Nat
        /\ Cardinality(Copies(l)') + Cardinality(Holders(l)')
             <= Cardinality(Copies(l)) + Cardinality(Holders(l))
    BY <1>0, <1>2, <2>2, FlushedCopies DEF Closing
  <2> QED
    BY <1>0, <1>c, <2>1, <2>3
<1>3. ASSUME NEW p \in Procs, NEW m \in Msg, Log(p, m), pc[p] \in Active
      PROVE  Counted'
  <2> DEFINE new == Len(logged[p]) + 1
  <2>1. Heirs(l)' = Heirs(l) /\ fp' = fp
    BY <1>3 DEF Log, Heirs
  <2>2. \A n \in Written(p) : n \in Nat /\ n < new
    BY <1>0, WrittenBelow
  <2>3. CASE disk' = disk /\ buf' = buf
    BY <1>0, <1>c, <2>1, <2>3 DEF Copies, Holders
  <2>4. ASSUME fp[p] = p, NEW k \in Line, k.by = p, k.n = new, Adds(p, k)
        PROVE  Counted'
    <3>0. \A r \in Procs \ {p} : buf'[r] = buf[r]
      BY <1>0, <2>4 DEF Adds, FilesType
    <3>1. CASE l = k
      <4>1. Copies(l)' \subseteq {}
        <5> HIDE DEF Counted
        <5>1. SUFFICES ASSUME NEW i \in 1 .. Len(disk'[p])
              PROVE  disk'[p][i] # l
          BY <2>4, <3>1 DEF Copies
        <5>2. /\ Len(disk[p]) \in Nat
              /\ \A t \in 1 .. Len(disk[p]) : disk[p][t].n \in Written(p)
              /\ \A t \in 1 .. Len(buf[p]) : buf[p][t].n \in Written(p)
          BY <1>0, <2>4 DEF FileAt, BufAt, FilesType
        <5>3. disk'[p][i].n \in Written(p)
          <6> DEFINE old == Len(disk[p])
          <6>1. /\ \A t \in 1 .. old : disk'[p][t] = disk[p][t]
                /\ \A t \in (old + 1) .. Len(disk'[p]) :
                     /\ t - old \in 1 .. Len(buf[p])
                     /\ disk'[p][t] = buf[p][t - old]
            <7>1. /\ FilesType /\ FilesType' /\ fp[p] = p
                  /\ disk' = disk \/ disk' = Flushed(p)
              BY <1>0, <2>4 DEF Adds
            <7>2. Longer(p, p)
              BY <7>1, DiskGrows
            <7> QED
              BY <7>2 DEF Longer
          <6>2. i \in 1 .. old \/ i \in (old + 1) .. Len(disk'[p])
            BY <5>2
          <6> HIDE DEF old
          <6> QED
            BY <5>2, <6>1, <6>2 DEF old
        <5> QED
          BY <2>2, <2>4, <3>1, <5>3
      <4>2. Holders(l)' \subseteq {p}
        <5>1. SUFFICES ASSUME NEW r \in Procs \ {p}, fp[r] = p,
                              NEW i \in 1 .. Len(buf[r])
              PROVE  buf[r][i] # l
          BY <2>1, <2>4, <3>0, <3>1 DEF Holders
        <5>2. buf[r][i].n \in Written(p)
          BY <1>0, <5>1 DEF BufAt
        <5> QED
          BY <2>2, <2>4, <3>1, <5>2
      <4>3. Cardinality(Copies(l)') = 0
        BY <4>1, FS_EmptySet
      <4>4. Cardinality(Holders(l)') \in Nat /\ Cardinality(Holders(l)') <= 1
        <5>1. IsFiniteSet({p}) /\ Cardinality({p}) = 1
          BY FS_Singleton
        <5> QED
          BY <4>2, <5>1, Fewer
      <4> QED
        BY <1>c, <2>1, <4>3, <4>4
    <3>2. CASE l # k /\ disk' = disk /\ buf' = [buf EXCEPT ![p] = Append(@, k)]
      <4>1. Copies(l)' = Copies(l)
        BY <3>2 DEF Copies
      <4>2. \A i \in 1 .. Len(buf'[p]) :
              buf'[p][i] = l => \E j \in 1 .. Len(buf[p]) : buf[p][j] = l
        <5>1. PICK old \in Nat : old = Len(buf[p])
          BY <1>0 DEF FilesType
        <5>2. /\ Len(buf'[p]) = old + 1
              /\ \A i \in 1 .. old : buf'[p][i] = buf[p][i]
              /\ buf'[p][old + 1] = k
          BY <1>0, <2>4, <3>2, <5>1, AppendProperties DEF FilesType
        <5> QED
          BY <3>2, <5>1, <5>2
      <4>3. Holders(l)' \subseteq Holders(l)
        BY <2>1, <3>0, <4>2 DEF Holders
      <4> QED
        BY <1>0, <2>1, <4>1, <4>3, LessCopies
    <3>3. CASE l # k /\ disk' = Flushed(p) /\ buf' = [buf EXCEPT ![p] = <<k>>]
      <4>1. \A i \in 1 .. Len(buf'[p]) : buf'[p][i] # l
        BY <1>0, <3>3 DEF FilesType
      <4>2. Holders(l)' \subseteq Holders(l) \ {p}
        BY <2>1, <3>0, <4>1 DEF Holders
      <4>3. /\ Cardinality(Copies(l)') + Cardinality(Holders(l)') \in Nat
            /\ Cardinality(Copies(l)') + Cardinality(Holders(l)')
                 <= Cardinality(Copies(l)) + Cardinality(Holders(l))
        BY <1>0, <3>3, <4>2, FlushedCopies
      <4> QED
        BY <1>0, <1>c, <2>1, <4>3
    <3> QED
      BY <2>4, <3>1, <3>2, <3>3 DEF Adds
  <2> QED
    BY <1>0, <1>3, <2>3, <2>4, LogIs
<1>4. ASSUME NEW w \in Workers, Fork(w)
      PROVE  Counted'
  <2>1. /\ w \in Procs /\ Ctrl \in Procs
        /\ inherited[w] = {} /\ inherited'[w] = ToSet(buf[Ctrl])
        /\ \A v \in Workers \ {w} : inherited'[v] = inherited[v]
        /\ buf'[w] = buf[Ctrl]
        /\ \A r \in Procs \ {w} : buf'[r] = buf[r] /\ fp'[r] = fp[r]
        /\ fp[w] = NoFile
        /\ disk' = disk
    BY <1>0, <1>4 DEF Fork, TypeOK, LifeAt, Procs
  <2>2. Copies(l)' = Copies(l)
    BY <2>1 DEF Copies
  <2>3. CASE l \in ToSet(buf[Ctrl])
    <3>1. Heirs(l)' = Heirs(l) \cup {w} /\ w \notin Heirs(l)
      BY <2>1, <2>3 DEF Heirs
    <3>2. Cardinality(Heirs(l)') = Cardinality(Heirs(l)) + 1
      BY <1>0, <3>1, Counts, FS_AddElement
    <3>3. Holders(l)' \subseteq Holders(l) \cup {w}
      BY <2>1 DEF Holders
    <3>4. /\ Cardinality(Holders(l)') \in Nat
          /\ Cardinality(Holders(l)') <= Cardinality(Holders(l)) + 1
      BY <1>0, <3>3, Counts, OneMore
    <3> QED
      BY <1>0, <1>c, <2>2, <3>2, <3>4
  <2>4. CASE l \notin ToSet(buf[Ctrl])
    <3>1. \A i \in 1 .. Len(buf[Ctrl]) : buf[Ctrl][i] # l
      BY <1>0, <2>1, <2>4, LenProperties DEF ToSet, FilesType
    <3>2. Holders(l)' \subseteq Holders(l)
      BY <2>1, <3>1 DEF Holders
    <3>3. Heirs(l) \subseteq Heirs(l)'
      BY <2>1 DEF Heirs
    <3> QED
      BY <1>0, <2>2, <3>2, <3>3, LessCopies
  <2> QED
    BY <2>3, <2>4
<1>5. ASSUME NEW p \in Procs, LogAt(p) \/ LogInCb(p)
      PROVE  \E m \in Msg : Log(p, m) /\ pc[p] \in Active
  BY <1>5, LogsOf DEF LogAt, LogInCb, Msg, Active
<1>6. ASSUME NEW p \in Procs,
             InitLog(p) \/ InitLogFails(p) \/ Finish(p) \/ Exit(p)
      PROVE  /\ UNCHANGED history
             /\ UNCHANGED files \/ \E f \in Streams : Closing(p, f)
  BY <1>0, <1>6, ClosingSteps DEF InitLog, InitLogFails, Finish, Exit
<1>7. ASSUME AllForked \/ \E p \in Procs : Leave(p) \/ Kill(p)
      PROVE  UNCHANGED <<files, history>>
  BY <1>7 DEF AllForked, Leave, Kill
<1> QED
  BY <1>1, <1>2, <1>3, <1>4, <1>5, <1>6, <1>7 DEF Next

-----------------------------------------------------------------------------
(* The theorems.                                                           *)

LEMMA Clog_Next == ClogInv /\ [Next]_vars => ClogInv'
<1> SUFFICES ASSUME ClogInv, [Next]_vars PROVE ClogInv'
  OBVIOUS
<1>1. CASE Next
  <2>1. TypeOK'
    BY <1>1, Clog_Type
  <2>2. ASSUME NEW q \in Procs
        PROVE  LifeAt(q)' /\ FileAt(q)' /\ BufAt(q)' /\ KeptAt(q)'
    BY <1>1, <2>1, Clog_Life, Clog_Kept DEF Kept
  <2>3. CopiesOK'
    BY <1>1, <2>1, Clog_Copies
  <2> QED
    BY <2>1, <2>2, <2>3 DEF ClogInv
<1>2. CASE UNCHANGED vars
  <2>0. UNCHANGED <<pc, ctx, cb, fp, buf, disk, size, logged, cbs, console,
                    inherited>>
    BY <1>2 DEF vars, files, history
  <2>1. TypeOK /\ TypeOK' /\ FilesType /\ FilesType'
    BY <2>0 DEF ClogInv, TypeOK, FilesType, Streams
  <2>2. ASSUME NEW q \in Procs
        PROVE  LifeAt(q)' /\ FileAt(q)' /\ BufAt(q)' /\ KeptAt(q)'
    <3>1. LifeAt(q) /\ FileAt(q) /\ BufAt(q) /\ KeptAt(q)
      BY DEF ClogInv
    <3>2. LifeAt(q)'
      BY <2>0, <3>1, LifeElsewhere
    <3>3. Grows /\ \A r \in Procs : Written(r)' = Written(r)
      BY <2>0, GrowsSame DEF Written
    <3> QED
      BY <2>0, <2>1, <3>1, <3>2, <3>3, FileStep, BufStep, KeptStep
  <2>3. CopiesOK'
    BY <2>0 DEF ClogInv, CopiesOK, Copies, Holders, Heirs
  <2> QED
    BY <2>1, <2>2, <2>3 DEF ClogInv
<1> QED
  BY <1>1, <1>2

(* Whatever fails and whenever a process is killed, the files and the      *)
(* buffers of the control process and its workers stay as ClogInv says.    *)
THEOREM ClogSafe == Spec => []ClogInv
<1>1. Init => ClogInv
  BY Clog_Init
<1> QED
  BY <1>1, Clog_Next, PTL DEF Spec

(* Every variable of the log keeps its type.                               *)
THEOREM LogTypeCorrect == Spec => []TypeOK
<1>1. ClogInv => TypeOK
  BY DEF ClogInv
<1> QED
  BY <1>1, ClogSafe, PTL

(* The file of a process has lines of its own only (clog_file_init_...     *)
(* callback_fun closes the inherited stream before it opens one).          *)
THEOREM FilesApart == Spec => []OwnLines
<1>1. ClogInv => OwnLines
  BY DEF ClogInv, FileAt, OwnLines
<1> QED
  BY <1>1, ClogSafe, PTL

(* No line overtakes another of its process, in whatever process the       *)
(* buffer with it is written.                                              *)
THEOREM LinesInOrder == Spec => []InOrder
<1>1. ClogInv => InOrder
  BY DEF ClogInv, FileAt, InOrder
<1> QED
  BY <1>1, ClogSafe, PTL

(* A process that was not killed has written all its lines.                *)
THEOREM AllWritten == Spec => []NothingLost
<1>1. ASSUME ClogInv, NEW p \in Procs, pc[p] \in {"off", "exited"},
             NEW n \in Written(p)
      PROVE  InFile(p, n, Len(disk[p]))
  <2>1. LifeAt(p) /\ KeptAt(p) /\ HasFile(p)
    BY <1>1 DEF ClogInv, Written, HasFile
  <2>2. buf[p] = << >>
    BY <1>1, <2>1 DEF LifeAt
  <2>3. ~InBuf(p, n, Len(buf[p]))
    <3>1. \A j \in 1 .. Len(<< >>) : FALSE
      OBVIOUS
    <3> QED
      BY <2>2, <3>1 DEF InBuf
  <2> QED
    BY <2>1, <2>3 DEF KeptAt
<1>2. ClogInv => NothingLost
  BY <1>1 DEF NothingLost
<1> QED
  BY <1>2, ClogSafe, PTL

(* A line is in a file once, and once more for each worker that was forked *)
(* while it was in the buffer.                                             *)
THEOREM CopiesBounded == Spec => []RepeatedByHeirs
<1>1. ASSUME ClogInv, NEW p \in Procs, NEW i \in 1 .. Len(disk[p])
      PROVE  Cardinality({j \in 1 .. Len(disk[p]) : disk[p][j] = disk[p][i]})
               <= 1 + Cardinality({w \in Workers : disk[p][i] \in inherited[w]})
  <2> DEFINE l == disk[p][i]
  <2>1. l \in Line /\ l.by = p
    BY <1>1, ElementOfSeq DEF ClogInv, TypeOK, FileAt
  <2>2. FilesType
    BY <1>1 DEF ClogInv, TypeOK, FilesType, Streams
  <2> HIDE DEF l
  <2>3. /\ Cardinality(Copies(l)) + Cardinality(Holders(l))
             <= 1 + Cardinality(Heirs(l))
        /\ Cardinality(Copies(l)) \in Nat /\ Cardinality(Holders(l)) \in Nat
        /\ Cardinality(Heirs(l)) \in Nat
    BY <1>1, <2>1, <2>2, Counts DEF ClogInv, CopiesOK
  <2>4. Cardinality(Copies(l)) <= 1 + Cardinality(Heirs(l))
    BY <2>3
  <2> QED
    BY <2>1, <2>4 DEF Copies, Heirs, l
<1>2. ClogInv => RepeatedByHeirs
  BY <1>1 DEF RepeatedByHeirs
<1> QED
  BY <1>2, ClogSafe, PTL

(* A line whose arguments were used up is on the console with them.        *)
THEOREM ReadableLines == Spec => []ReadableSomewhere
<1>1. ClogInv => ReadableSomewhere
  BY DEF ClogInv, FileAt, ReadableSomewhere
<1> QED
  BY <1>1, ClogSafe, PTL

(* Nothing is logged through callbacks that are not there yet, or a stream *)
(* that is gone.                                                           *)
THEOREM LoggedInTime == Spec => NoLateMessage
<1> DEFINE InTime == \A p \in Procs :
             logged'[p] # logged[p] =>
               ctx[p] = "list" /\ fp[p] # "closed" /\ pc[p] # "born"
<1>1. ASSUME ClogInv, [Next]_vars PROVE InTime
  <2>1. SUFFICES ASSUME NEW p \in Procs, logged'[p] # logged[p]
        PROVE  ctx[p] = "list" /\ fp[p] # "closed" /\ pc[p] # "born"
    OBVIOUS
  <2>2. TypeOK /\ LifeAt(p)
    BY <1>1 DEF ClogInv
  <2>3. LogAt(p) \/ LogInCb(p)
    <3>1. \/ logged' = logged
          \/ \E r \in Procs : LogAt(r) \/ LogInCb(r)
      BY <1>1
      DEF Next, vars, history, AllForked, Fork, InitLog, InitLogFails, Leave,
          Finish, Exit, Kill
    <3>2. PICK r \in Procs : LogAt(r) \/ LogInCb(r)
      BY <2>1, <3>1
    <3>3. \E m : logged' = [logged EXCEPT ![r] = Append(@, m)]
      BY <3>2 DEF LogAt, LogInCb, Log
    <3>4. r = p
      BY <2>1, <2>2, <3>3 DEF TypeOK
    <3> QED
      BY <3>2, <3>4
  <2>4. pc[p] \in Active
    BY <2>3, LogsOf DEF LogAt, LogInCb, Active
  <2> QED
    BY <2>2, <2>4 DEF LifeAt, Active
<1>2. ClogInv /\ [Next]_vars => [InTime]_vars
  BY <1>1
<1> QED
  BY <1>2, ClogSafe, PTL DEF Spec, NoLateMessage
=============================================================================
