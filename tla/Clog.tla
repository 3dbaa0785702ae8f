-------------------------------- MODULE Clog --------------------------------
(***************************************************************************)
(* The log of the control process and its workers: each process gives its  *)
(* messages to the console and to a file of its own, through a stdio       *)
(* buffer which a worker inherits when it is forked (src/3rd/log.c,        *)
(* src/src/jmm_log.c), from the places of main and jmm_proc_wf that log    *)
(* something (src/src/jmm.c, src/src/jmm_proc.c).                          *)
(*                                                                         *)
(* A line is named by its process and its number; of its text only counts  *)
(* whether the arguments of the message were still there to be printed.    *)
(***************************************************************************)
EXTENDS Integers, SequencesExt

CONSTANTS
  Ctrl,       (* the control process                                     *)
  Workers,    (* the processes it forks                                  *)
  NoFile,     (* _fp is null                                             *)
  ConLevel,   (* conf.log_term_lvl                                       *)
  FileLevel,  (* conf.log_file_lvl                                       *)
  CbMessages, (* what the callbacks of the event loops may log           *)
  MaxCb,      (* bound: the messages the callbacks of each process log   *)
  MaxSize,    (* bound: the lines a stdio buffer may hold                 *)
  FaultsOf    (* the failures each process may meet, see FaultKinds      *)

(* "malloc": a callback is not registered, and nobody is told; "open": the *)
(* log file cannot be opened; "shm", "fork", "event": jmm_init_shm,        *)
(* jmm_init_proc, jmm_init_event fail, or what a worker has like them;     *)
(* "start": a worker ends before its jmm_init_log_wf; "kill": a process is *)
(* killed.                                                                 *)
FaultKinds == {"malloc", "open", "shm", "fork", "event", "start", "kill"}

Procs == Workers \cup {Ctrl}

(* A message has its level and may have arguments to print.                *)
Message(lvl, args) == [lvl |-> lvl, args |-> args]
Info  == 200
Fatal == 500

ASSUME ClogAssumption ==
  /\ IsFiniteSet(Workers)
  /\ Ctrl \notin Workers
  /\ NoFile \notin Procs \cup {"closed"}
  /\ "closed" \notin Procs
  /\ ConLevel \in Nat
  /\ FileLevel \in Nat
  /\ CbMessages \subseteq [lvl : Nat, args : BOOLEAN]
  /\ MaxCb \in [Procs -> Nat]
  /\ MaxSize \in Nat
  /\ FaultsOf \in [Procs -> SUBSET FaultKinds]

VARIABLES
  pc,        (* where each process is                                    *)
  ctx,       (* _context.cb: never set, the list, or a list that is freed *)
  cb,        (* the appenders on that list, in their order               *)
  fp,        (* _fp: the process whose file it is, "closed" afterwards   *)
  buf,       (* what is in the buffer of that stream                     *)
  disk,      (* what is in the file of each process                      *)
  size,      (* how many lines a stdio buffer holds                      *)
  logged,    (* history: the messages of each process                    *)
  cbs,       (* history: how many of them callbacks logged               *)
  console,   (* history: those the console has with their arguments      *)
  inherited  (* history: the lines in the buffer it was forked with      *)

files == <<fp, buf, disk>>
history == <<logged, cbs, console, inherited>>
vars == <<pc, ctx, cb, size, files, history>>

(***************************************************************************)
(* "down": main before jmm_init_log; "none": not forked; "born": before    *)
(* jmm_init_log_wf; "log", "shm", "fork", "event": before the message that *)
(* this part is ready; "ready": before the event loop; "advice" and        *)
(* "failing": before the report of a failure; "leave": after the loop;     *)
(* "uninit": before clog_finish; "off": after it.                          *)
(***************************************************************************)
Pcs == {"down", "none", "born", "log", "shm", "fork", "forked", "event",
        "ready", "loop", "leave", "advice", "failing", "uninit", "off",
        "exited", "killed"}

(* The messages on the way of the control process: where it is, where it   *)
(* goes and what it logs in between.                                       *)
CtrlLogs ==
  LET info  == Message(Info, FALSE)
      fatal == Message(Fatal, FALSE)
  IN {<<"log", "shm", info>>, <<"shm", "fork", info>>,
      <<"forked", "event", info>>, <<"event", "ready", info>>,
      <<"ready", "loop", info>>, <<"leave", "uninit", info>>,
      <<"failing", "uninit", fatal>>}
     \cup (IF "shm" \in FaultsOf[Ctrl]
           THEN {<<"shm", "failing", Message(Fatal, args)>> : args \in BOOLEAN}
           ELSE {})
     \cup (IF "fork" \in FaultsOf[Ctrl]
           THEN {<<"fork", "advice", fatal>>,
                 <<"advice", "failing", Message(Fatal, TRUE)>>} ELSE {})
     \cup (IF "event" \in FaultsOf[Ctrl] THEN {<<"event", "uninit", fatal>>} ELSE {})

(* Mutant of WfLogs: the log is closed before the last message.            *)
WfLogsAfterUninit(w) ==
  LET child == Message(Info, TRUE)
  IN {<<"log", "shm", child>>, <<"shm", "event", child>>,
      <<"event", "ready", child>>, <<"ready", "loop", child>>,
      <<"leave", "uninit", Message(Info, FALSE)>>,
      <<"off", "exited", Message(Info, FALSE)>>}

WfLogs(w) ==
  LET child == Message(Info, TRUE)
  IN {<<"log", "shm", child>>, <<"shm", "event", child>>,
      <<"event", "ready", child>>, <<"ready", "loop", child>>,
      <<"leave", "uninit", Message(Info, FALSE)>>}
     \cup (IF "shm" \in FaultsOf[w]
           THEN {<<"shm", "uninit", Message(Fatal, args)>> : args \in BOOLEAN}
           ELSE {})

Logs(p) == IF p = Ctrl THEN CtrlLogs ELSE WfLogs(p)

Init ==
  /\ pc = [p \in Procs |-> IF p = Ctrl THEN "down" ELSE "none"]
  /\ ctx = [p \in Procs |-> "zero"]
  /\ cb = [p \in Procs |-> << >>]
  /\ fp = [p \in Procs |-> NoFile]
  /\ buf = [p \in Procs |-> << >>]
  /\ disk = [p \in Procs |-> << >>]
  /\ size \in 1 .. MaxSize
  /\ logged = [p \in Procs |-> << >>]
  /\ cbs = [p \in Procs |-> 0]
  /\ console = [p \in Procs |-> {}]
  /\ inherited = [p \in Procs |-> {}]

-----------------------------------------------------------------------------
(* The files after fclose of the stream of p, or its exit.                 *)
Flushed(p) ==
  IF fp[p] \in Procs THEN [disk EXCEPT ![fp[p]] = @ \o buf[p]] ELSE disk

(* Mutant of FileInit: a stream that is there already is kept.             *)
FileInitOnce(p) ==
  IF fp[p] = NoFile
  THEN /\ fp' = [fp EXCEPT ![p] = p]
       /\ UNCHANGED <<buf, disk>>
  ELSE UNCHANGED <<fp, buf, disk>>

(* clog_file_init_callback_fun closes the stream a worker has inherited,   *)
(* with what is in its buffer, and opens the file named after its own pid. *)
FileInit(p) ==
  /\ disk' = Flushed(p)
  /\ buf' = [buf EXCEPT ![p] = << >>]
  /\ fp' = [fp EXCEPT ![p] = p]

(* Mutant of Registered: without the clog_clearup before.                  *)
RegisteredAgain(p) == {cb[p] \o <<"console", "file">>}

(* The list clog_clearup and clog_register_callback make: an appender is   *)
(* missing when malloc failed, which counts as success.                    *)
Registered(p) ==
  {<<"console", "file">>}
    \cup (IF "malloc" \in FaultsOf[p]
          THEN {<<"console">>, <<"file">>, << >>} ELSE {})

(* jmm_init_log and jmm_init_log_wf.                                       *)
InitLog(p) ==
  /\ pc[p] \in {"down", "born"}
  /\ pc' = [pc EXCEPT ![p] = "log"]
  /\ ctx' = [ctx EXCEPT ![p] = "list"]
  /\ \E list \in Registered(p) :
       /\ cb' = [cb EXCEPT ![p] = list]
       /\ IF Contains(list, "file") THEN FileInit(p) ELSE UNCHANGED files
  /\ UNCHANGED history

(* fopen fails: the process ends, with no stream left to flush.            *)
InitLogFails(p) ==
  /\ "open" \in FaultsOf[p]
  /\ pc[p] \in {"down", "born"}
  /\ pc' = [pc EXCEPT ![p] = "exited"]
  /\ ctx' = [ctx EXCEPT ![p] = "list"]
  /\ cb' = [cb EXCEPT ![p] = <<"console", "file">>]
  /\ disk' = Flushed(p)
  /\ buf' = [buf EXCEPT ![p] = << >>]
  /\ fp' = [fp EXCEPT ![p] = NoFile]
  /\ UNCHANGED history

Level(appender) == IF appender = "console" THEN ConLevel ELSE FileLevel

(* Mutant of Passes: reqlvl > loglvl.                                      *)
PassesAbove(lvl, appender) == lvl > Level(appender)

Passes(lvl, appender) == lvl >= Level(appender)

(* Mutant of UsedUp: an appender formats the text and then asks its level. *)
UsedUpByAll(p, i, m) == m.args /\ i > 1

(* All appenders are given one va_list: the first to print a message has   *)
(* its arguments, another one prints what it finds behind them.            *)
UsedUp(p, i, m) ==
  m.args /\ \E j \in 1 .. (i - 1) : Passes(m.lvl, cb[p][j])

(* The positions of the file appenders that take a message, in their order.*)
Takers(p, m) ==
  LET at == {i \in 1 .. Len(cb[p]) : cb[p][i] = "file" /\ Passes(m.lvl, "file")}
      ranks == 1 .. Cardinality(at)
  IN CHOOSE q \in [ranks -> at] : \A t, u \in ranks : t < u => q[t] < q[u]

(* Mutant of Entry: the first message is message 0.                        *)
EntryFromZero(p, m) ==
  LET takers == Takers(p, m)
  IN [t \in 1 .. Len(takers) |->
        [by |-> p, n |-> Len(logged[p]), ok |-> ~UsedUp(p, takers[t], m)]]

(* What a message adds to the stream: each file appender of the list       *)
(* writes it.                                                              *)
Entry(p, m) ==
  LET takers == Takers(p, m)
  IN [t \in 1 .. Len(takers) |->
        [by |-> p, n |-> Len(logged[p]) + 1, ok |-> ~UsedUp(p, takers[t], m)]]

(* Mutant of Write: the line goes past the buffer.                         *)
WriteThrough(p, entry) ==
  IF entry = << >> \/ Len(buf[p]) + Len(entry) <= size
  THEN /\ buf' = [buf EXCEPT ![p] = @ \o entry]
       /\ UNCHANGED disk
  ELSE /\ disk' = [disk EXCEPT ![fp[p]] = @ \o entry]
       /\ UNCHANGED buf

(* fprintf: the text stays in the buffer; when it is full it goes to the   *)
(* file, and the text starts the next one.                                 *)
Write(p, entry) ==
  IF entry = << >> \/ Len(buf[p]) + Len(entry) <= size
  THEN /\ buf' = [buf EXCEPT ![p] = @ \o entry]
       /\ UNCHANGED disk
  ELSE /\ disk' = [disk EXCEPT ![fp[p]] = @ \o buf[p]]
       /\ buf' = [buf EXCEPT ![p] = entry]

(* clog_console_log_callback_fun.                                          *)
PrintOut(p, m) ==
  console' = [console EXCEPT ![p] =
    IF \E i \in 1 .. Len(cb[p]) :
         cb[p][i] = "console" /\ Passes(m.lvl, "console") /\ ~UsedUp(p, i, m)
    THEN @ \cup {Len(logged[p]) + 1} ELSE @]

(* clog_debug to clog_fatal: clog_message goes through the callbacks.      *)
Log(p, m) ==
  /\ logged' = [logged EXCEPT ![p] = Append(@, m)]
  /\ PrintOut(p, m)
  /\ Write(p, Entry(p, m))
  /\ UNCHANGED <<ctx, cb, fp, inherited>>

(* The messages of main and jmm_proc_wf.                                   *)
LogAt(p) ==
  \E step \in Logs(p) :
    /\ pc[p] = step[1]
    /\ pc' = [pc EXCEPT ![p] = step[2]]
    /\ Log(p, step[3])
    /\ UNCHANGED cbs

(* A callback of the event loop logs something.                            *)
LogInCb(p) ==
  /\ pc[p] = "loop"
  /\ cbs[p] < MaxCb[p]
  /\ cbs' = [cbs EXCEPT ![p] = @ + 1]
  /\ \E m \in CbMessages : Log(p, m)
  /\ UNCHANGED pc

(* The event loop ends; or a worker cannot set up its events or program.   *)
Leave(p) ==
  /\ \/ pc[p] = "loop" /\ pc' = [pc EXCEPT ![p] = "leave"]
     \/ /\ "event" \in FaultsOf[p]
        /\ p # Ctrl
        /\ pc[p] = "event"
        /\ pc' = [pc EXCEPT ![p] = "uninit"]
  /\ UNCHANGED <<ctx, cb, files, history>>

(* clog_finish closes the stream and frees the callbacks; _fp and          *)
(* _context.cb still point to them.                                        *)
Finish(p) ==
  /\ pc[p] = "uninit"
  /\ pc' = [pc EXCEPT ![p] = "off"]
  /\ ctx' = [ctx EXCEPT ![p] = "freed"]
  /\ IF ~Contains(cb[p], "file") THEN UNCHANGED files
     ELSE /\ disk' = Flushed(p)
          /\ buf' = [buf EXCEPT ![p] = << >>]
          /\ fp' = [fp EXCEPT ![p] = "closed"]
  /\ UNCHANGED <<cb, history>>

(* exit flushes what is open, in a worker without an appender of its own   *)
(* or one that ends before jmm_init_log_wf the stream of its parent.       *)
Exit(p) ==
  /\ pc[p] = "off" \/ (pc[p] = "born" /\ "start" \in FaultsOf[p])
  /\ pc' = [pc EXCEPT ![p] = "exited"]
  /\ disk' = Flushed(p)
  /\ buf' = [buf EXCEPT ![p] = << >>]
  /\ UNCHANGED <<ctx, cb, fp, history>>

(* What is in the buffer of a process that is killed is gone.              *)
Kill(p) ==
  /\ "kill" \in FaultsOf[p]
  /\ pc[p] \notin {"none", "exited", "killed"}
  /\ pc' = [pc EXCEPT ![p] = "killed"]
  /\ UNCHANGED <<ctx, cb, files, history>>

-----------------------------------------------------------------------------
(* jmm_init_proc: the control process logs nothing between its forks.  A   *)
(* worker starts with a copy of everything, the buffer included.           *)
Fork(w) ==
  /\ pc[Ctrl] = "fork"
  /\ pc[w] = "none"
  /\ pc' = [pc EXCEPT ![w] = "born"]
  /\ ctx' = [ctx EXCEPT ![w] = ctx[Ctrl]]
  /\ cb' = [cb EXCEPT ![w] = cb[Ctrl]]
  /\ fp' = [fp EXCEPT ![w] = fp[Ctrl]]
  /\ buf' = [buf EXCEPT ![w] = buf[Ctrl]]
  /\ inherited' = [inherited EXCEPT ![w] = ToSet(buf[Ctrl])]
  /\ UNCHANGED <<disk, logged, cbs, console>>

AllForked ==
  /\ pc[Ctrl] = "fork"
  /\ \A w \in Workers : pc[w] # "none"
  /\ pc' = [pc EXCEPT ![Ctrl] = "forked"]
  /\ UNCHANGED <<ctx, cb, files, history>>

Next ==
  /\ UNCHANGED size
  /\ \/ AllForked
     \/ \E w \in Workers : Fork(w)
     \/ \E p \in Procs : \/ InitLog(p) \/ InitLogFails(p)
                         \/ LogAt(p) \/ LogInCb(p) \/ Leave(p)
                         \/ Finish(p) \/ Exit(p) \/ Kill(p)

Spec == Init /\ [][Next]_vars
-----------------------------------------------------------------------------
Line == [by : Procs, n : Nat \ {0}, ok : BOOLEAN]

(* The values every variable may have.                                     *)
TypeOK ==
  /\ pc \in [Procs -> Pcs]
  /\ ctx \in [Procs -> {"zero", "list", "freed"}]
  /\ cb \in [Procs -> Seq({"console", "file"})]
  /\ fp \in [Procs -> Procs \cup {NoFile, "closed"}]
  /\ buf \in [Procs -> Seq(Line)]
  /\ disk \in [Procs -> Seq(Line)]
  /\ size \in 1 .. MaxSize
  /\ logged \in [Procs -> Seq([lvl : Nat, args : BOOLEAN])]
  /\ cbs \in [Procs -> Nat]
  /\ console \in [Procs -> SUBSET Nat]
  /\ inherited \in [Procs -> SUBSET Line]

(* Whatever fails on the way up or down, a process logs nothing before it  *)
(* has set up its callbacks, nor after clog_finish, which leaves           *)
(* _context.cb and _fp pointing at what it has freed and closed.           *)
NoLateMessage ==
  [][\A p \in Procs :
       logged'[p] # logged[p] =>
         ctx[p] = "list" /\ fp[p] # "closed" /\ pc[p] # "born"]_vars

(* A process writes into its own file only; what a worker has inherited    *)
(* from the control process goes to the file of that one.                  *)
OwnLines == \A p \in Procs : \A i \in 1 .. Len(disk[p]) : disk[p][i].by = p

(* The numbers of the messages of p that should be in its file.            *)
Written(p) ==
  {n \in 1 .. Len(logged[p]) :
     Contains(cb[p], "file") /\ logged[p][n].lvl >= FileLevel}

InFile(p, n, k) == \E i \in 1 .. k : disk[p][i].n = n

(* When a line is in a file, all the lines its process logged before are   *)
(* there before it, although the parent and its workers write the same     *)
(* buffer at different times and any of them may be killed: leaving out    *)
(* repetitions the file is the beginning of what was logged.               *)
InOrder ==
  \A p \in Procs : \A i \in 1 .. Len(disk[p]) :
    /\ disk[p][i].n \in Written(p)
    /\ \A n \in Written(p) : n < disk[p][i].n => InFile(p, n, i - 1)

(* A process that ends in good order has all its lines in its file.        *)
NothingLost ==
  \A p \in Procs : pc[p] \in {"off", "exited"} =>
    \A n \in Written(p) : InFile(p, n, Len(disk[p]))

(* A line is repeated only by workers that were forked while it was in the *)
(* buffer, and once by each.                                               *)
RepeatedByHeirs ==
  \A p \in Procs : \A i \in 1 .. Len(disk[p]) :
    Cardinality({j \in 1 .. Len(disk[p]) : disk[p][j] = disk[p][i]})
      <= 1 + Cardinality({w \in Workers : disk[p][i] \in inherited[w]})

(* A line without its arguments in a file has them on the console: what    *)
(* the first vfprintf used up was printed, whichever levels are set.       *)
ReadableSomewhere ==
  \A p \in Procs : \A i \in 1 .. Len(disk[p]) :
    disk[p][i].ok \/ disk[p][i].n \in console[p]
-----------------------------------------------------------------------------
(***************************************************************************)
(* The inductive invariant behind the safety properties.                   *)
(***************************************************************************)

(* Where a process may log something: its list is made and not yet freed.  *)
Active == {"log", "shm", "fork", "forked", "event", "ready", "loop", "leave",
           "advice", "failing", "uninit"}

Lists == {<<"console", "file">>, <<"console">>, <<"file">>, << >>}

HasFile(p) == Contains(cb[p], "file")

(* What a process has depends on where it is: with a file appender its     *)
(* stream is that of its own file, without one it is that of its parent.   *)
LifeAt(p) ==
  /\ cb[p] \in Lists
  /\ fp[p] \in {NoFile, "closed", Ctrl, p}
  /\ fp[p] \notin Procs => buf[p] = << >>
  /\ pc[p] \in {"down", "none", "born"} => logged[p] = << >>
  /\ pc[p] \in {"down", "none"} => fp[p] = NoFile /\ inherited[p] = {}
  /\ pc[p] \in Active => ctx[p] = "list" /\ (HasFile(p) => fp[p] = p)
  /\ pc[p] \notin {"off", "exited", "killed"} => fp[p] # "closed"
  /\ pc[p] = "off" /\ HasFile(p) => buf[p] = << >>
  /\ pc[p] = "exited" => buf[p] = << >>

InBuf(p, n, k) == \E j \in 1 .. k : buf[p][j].n = n

(* The file of p: its own lines, with their predecessors before them.      *)
FileAt(p) ==
  \A i \in 1 .. Len(disk[p]) :
    /\ disk[p][i].by = p
    /\ disk[p][i].n \in Written(p)
    /\ disk[p][i].ok \/ disk[p][i].n \in console[p]
    /\ \A n \in Written(p) : n < disk[p][i].n => InFile(p, n, i - 1)

(* The buffer of p goes on from what is in the file its stream belongs to. *)
BufAt(p) ==
  \A q \in Procs : fp[p] = q => \A i \in 1 .. Len(buf[p]) :
    /\ buf[p][i].by = q
    /\ buf[p][i].n \in Written(q)
    /\ buf[p][i].ok \/ buf[p][i].n \in console[q]
    /\ \A j \in 1 .. (i - 1) : buf[p][j].n # buf[p][i].n
    /\ \A n \in Written(q) : n < buf[p][i].n =>
         InFile(q, n, Len(disk[q])) \/ InBuf(p, n, i - 1)

(* What p has logged is in its file or on its way there.                   *)
KeptAt(p) ==
  \A n \in Written(p) :
    InFile(p, n, Len(disk[p])) \/ (fp[p] = p /\ InBuf(p, n, Len(buf[p])))

(* Of a line there is one copy for the process that logged it and one for  *)
(* each worker forked with it, in the file or still in a buffer.           *)
Copies(l) == {i \in 1 .. Len(disk[l.by]) : disk[l.by][i] = l}
Holders(l) ==
  {p \in Procs : fp[p] = l.by /\ \E i \in 1 .. Len(buf[p]) : buf[p][i] = l}
Heirs(l) == {w \in Workers : l \in inherited[w]}

CopiesOK ==
  \A l \in Line :
    Cardinality(Copies(l)) + Cardinality(Holders(l)) <= 1 + Cardinality(Heirs(l))

ClogInv ==
  /\ TypeOK
  /\ \A p \in Procs : LifeAt(p) /\ FileAt(p) /\ BufAt(p) /\ KeptAt(p)
  /\ CopiesOK
=============================================================================
