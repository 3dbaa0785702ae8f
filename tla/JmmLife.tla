------------------------------ MODULE JmmLife -------------------------------
(***************************************************************************)
(* The life of the process pool: a control process creates the shared      *)
(* memory, forks its workers, runs, is told to stop, ends its workers and  *)
(* removes the memory; or fails on the way; or is killed, and is started   *)
(* again (src/src/jmm.c, jmm_proc.c, jmm_shm.c, jmm_event.c).              *)
(*                                                                         *)
(* Workers are forked first and then run beside their parent: a worker     *)
(* writes its own wf->pid, in the memory inherited from its parent, and    *)
(* looks the memory up again by its key afterwards.                        *)
(***************************************************************************)
EXTENDS Integers

CONSTANTS
  Runs,     (* the starts of the program, each one control process       *)
  ProcNum,  (* conf.proc_num                                             *)
  NoRun,    (* no shared memory has the key                              *)
  Faults    (* the failures that may happen, see FaultKinds              *)

(***************************************************************************)
(* "fork": fork, pipe or socketpair fails; "bind": jmm_init_event fails;   *)
(* "wf": a worker fails to initialise or is killed; "stuck": a worker      *)
(* never comes back to its event loop (JmmPool shows how);                 *)
(* "kill": the control process is killed.                                  *)
(***************************************************************************)
FaultKinds == {"fork", "bind", "wf", "stuck", "kill"}

ASSUME LifeAssumption ==
  /\ ProcNum \in Nat
  /\ NoRun \notin Runs
  /\ Faults \subseteq FaultKinds

Wf == 0 .. (ProcNum - 1)

VARIABLES
  cpc,      (* where each control process is                             *)
  step,     (* where it is in the two loops that end the workers         *)
  k,        (* the worker its loop has got to                            *)
  sigchld,  (* SIGCHLD is pending                                        *)
  missed,   (* history: live workers passed over because wf->pid was 0   *)
  seg,      (* the run whose shared memory has the key                   *)
  pid,      (* wf->pid # 0, in the memory of each run                    *)
  wpc,      (* where each worker is                                      *)
  att,      (* the memory it has attached by the key                     *)
  sigint    (* SIGINT is pending for it                                  *)

ctrlVars == <<cpc, step, k, missed>>
vars == <<ctrlVars, sigchld, seg, pid, wpc, att, sigint>>

(***************************************************************************)
(* "fork": jmm_init_proc; "abort": its failure; "event": jmm_init_event;   *)
(* "loop": event_base_dispatch; "stop": jmm_ctrl_c_cb; "reap":             *)
(* jmm_uninit_proc; "remove": jmm_uninit_shm.  The last four: no more.     *)
(***************************************************************************)
Holding == {"fork", "abort", "event", "loop", "stop", "reap", "remove"}
Ended   == {"refused", "aborted", "done", "killed"}
CtrlPcs == {"down"} \cup Holding \cup Ended

(* "attach": after wf->pid = getpid(); "init": after jmm_init_shm_wf.      *)
WfPcs == {"none", "forked", "attach", "init", "loop", "stuck", "exiting",
          "dead", "reaped"}

Gone(r, i) == wpc[r][i] \in {"none", "dead", "reaped"}

Init ==
  /\ cpc = [r \in Runs |-> "down"]
  /\ step = [r \in Runs |-> "check"]
  /\ k = [r \in Runs |-> 0]
  /\ sigchld = [r \in Runs |-> FALSE]
  /\ missed = [r \in Runs |-> {}]
  /\ seg = NoRun
  /\ pid = [r \in Runs |-> [i \in Wf |-> FALSE]]
  /\ wpc = [r \in Runs |-> [i \in Wf |-> "none"]]
  /\ att = [r \in Runs |-> [i \in Wf |-> NoRun]]
  /\ sigint = [r \in Runs |-> [i \in Wf |-> FALSE]]

-----------------------------------------------------------------------------
(* The control process.                                                    *)

(* jmm_init_shm: the key must be free.                                     *)
InitShm(r) ==
  /\ cpc[r] = "down"
  /\ IF seg = NoRun
     THEN cpc' = [cpc EXCEPT ![r] = "fork"] /\ seg' = r
     ELSE cpc' = [cpc EXCEPT ![r] = "refused"] /\ UNCHANGED seg
  /\ UNCHANGED <<step, k, missed, sigchld, pid, wpc, att, sigint>>

(* Mutant of Fork: the loop runs one too far.                              *)
ForkOneMore(r) ==
  /\ cpc[r] = "fork"
  /\ k[r] <= ProcNum
  /\ wpc' = [wpc EXCEPT ![r][k[r]] = "forked"]
  /\ k' = [k EXCEPT ![r] = @ + 1]
  /\ UNCHANGED <<cpc, step, missed, sigchld, seg, pid, att, sigint>>

Fork(r) ==
  /\ cpc[r] = "fork"
  /\ k[r] < ProcNum
  /\ wpc' = [wpc EXCEPT ![r][k[r]] = "forked"]
  /\ k' = [k EXCEPT ![r] = @ + 1]
  /\ UNCHANGED <<cpc, step, missed, sigchld, seg, pid, att, sigint>>

(* Workers that were forked already are not told.                          *)
ForkFails(r) ==
  /\ "fork" \in Faults
  /\ cpc[r] = "fork"
  /\ k[r] < ProcNum
  /\ cpc' = [cpc EXCEPT ![r] = "abort"]
  /\ UNCHANGED <<step, k, missed, sigchld, seg, pid, wpc, att, sigint>>

Forked(r) ==
  /\ cpc[r] = "fork"
  /\ k[r] = ProcNum
  /\ cpc' = [cpc EXCEPT ![r] = "event"]
  /\ k' = [k EXCEPT ![r] = 0]
  /\ UNCHANGED <<step, missed, sigchld, seg, pid, wpc, att, sigint>>

(* Signals have handlers from here on.                                     *)
InitEvent(r) ==
  /\ cpc[r] = "event"
  /\ cpc' = [cpc EXCEPT ![r] = "loop"]
  /\ UNCHANGED <<step, k, missed, sigchld, seg, pid, wpc, att, sigint>>

InitEventFails(r) ==
  /\ "bind" \in Faults
  /\ cpc[r] = "event"
  /\ cpc' = [cpc EXCEPT ![r] = "reap"]
  /\ UNCHANGED <<step, k, missed, sigchld, seg, pid, wpc, att, sigint>>

(* Mutant of ChildCb: the pid of a worker that was waited for stays.       *)
ChildCbKeepsPid(r) ==
  /\ cpc[r] = "loop"
  /\ sigchld[r]
  /\ sigchld' = [sigchld EXCEPT ![r] = FALSE]
  /\ wpc' = [wpc EXCEPT ![r] =
               [i \in Wf |-> IF @[i] = "dead" THEN "reaped" ELSE @[i]]]
  /\ UNCHANGED <<ctrlVars, seg, pid, att, sigint>>

(* jmm_child_cb.                                                           *)
ChildCb(r) ==
  /\ cpc[r] = "loop"
  /\ sigchld[r]
  /\ sigchld' = [sigchld EXCEPT ![r] = FALSE]
  /\ pid' = [pid EXCEPT ![r] = [i \in Wf |-> wpc[r][i] # "dead" /\ @[i]]]
  /\ wpc' = [wpc EXCEPT ![r] =
               [i \in Wf |-> IF @[i] = "dead" THEN "reaped" ELSE @[i]]]
  /\ UNCHANGED <<ctrlVars, seg, att, sigint>>

(* SIGTERM or SIGINT: jmm_ctrl_c_cb.                                       *)
Terminate(r) ==
  /\ cpc[r] = "loop"
  /\ cpc' = [cpc EXCEPT ![r] = "stop"]
  /\ UNCHANGED <<step, k, missed, sigchld, seg, pid, wpc, att, sigint>>

(* Mutant of EndWf: no signal is sent to the worker.                       *)
EndWfSilent(r) ==
  /\ cpc[r] \in {"stop", "reap"}
  /\ step[r] = "check"
  /\ k[r] < ProcNum
  /\ pid[r][k[r]]
  /\ step' = [step EXCEPT ![r] = "wait"]
  /\ missed' = [missed EXCEPT ![r] = @ \ {k[r]}]
  /\ UNCHANGED <<cpc, k, sigchld, seg, pid, wpc, att, sigint>>

(* kill(wf->pid, SIGINT), the same in jmm_ctrl_c_cb and jmm_uninit_proc.   *)
EndWf(r) ==
  /\ cpc[r] \in {"stop", "reap"}
  /\ step[r] = "check"
  /\ k[r] < ProcNum
  /\ pid[r][k[r]]
  /\ sigint' = [sigint EXCEPT ![r][k[r]] = TRUE]
  /\ step' = [step EXCEPT ![r] = "wait"]
  /\ missed' = [missed EXCEPT ![r] = @ \ {k[r]}]
  /\ UNCHANGED <<cpc, k, sigchld, seg, pid, wpc, att>>

(* wf->pid == 0: nothing is sent, the worker alive or not.                 *)
PassWf(r) ==
  /\ cpc[r] \in {"stop", "reap"}
  /\ step[r] = "check"
  /\ k[r] < ProcNum
  /\ ~pid[r][k[r]]
  /\ step' = [step EXCEPT ![r] = "clear"]
  /\ missed' = [missed EXCEPT ![r] =
                  IF Gone(r, k[r]) THEN @ ELSE @ \cup {k[r]}]
  /\ UNCHANGED <<cpc, k, sigchld, seg, pid, wpc, att, sigint>>

(* Mutant of WaitWf: waitpid with WNOHANG.                                 *)
WaitWfNoHang(r) ==
  /\ cpc[r] \in {"stop", "reap"}
  /\ step[r] = "wait"
  /\ wpc' = [wpc EXCEPT ![r][k[r]] = IF @ = "dead" THEN "reaped" ELSE @]
  /\ step' = [step EXCEPT ![r] = "clear"]
  /\ UNCHANGED <<cpc, k, missed, sigchld, seg, pid, att, sigint>>

(* waitpid(wf->pid, NULL, 0) returns when the worker has ended.            *)
WaitWf(r) ==
  /\ cpc[r] \in {"stop", "reap"}
  /\ step[r] = "wait"
  /\ wpc[r][k[r]] = "dead"
  /\ wpc' = [wpc EXCEPT ![r][k[r]] = "reaped"]
  /\ step' = [step EXCEPT ![r] = "clear"]
  /\ UNCHANGED <<cpc, k, missed, sigchld, seg, pid, att, sigint>>

(* wf->pid = 0, whatever it is by now.                                     *)
ClearWf(r) ==
  /\ cpc[r] \in {"stop", "reap"}
  /\ step[r] = "clear"
  /\ pid' = [pid EXCEPT ![r][k[r]] = FALSE]
  /\ k' = [k EXCEPT ![r] = @ + 1]
  /\ step' = [step EXCEPT ![r] = "check"]
  /\ UNCHANGED <<cpc, missed, sigchld, seg, wpc, att, sigint>>

(* Mutant of LeaveLoop: jmm_uninit_shm is called before jmm_uninit_proc.   *)
LeaveLoopRemoves(r) ==
  /\ cpc[r] = "stop"
  /\ k[r] = ProcNum
  /\ cpc' = [cpc EXCEPT ![r] = "reap"]
  /\ k' = [k EXCEPT ![r] = 0]
  /\ seg' = NoRun
  /\ UNCHANGED <<step, missed, sigchld, pid, wpc, att, sigint>>

(* event_base_loopbreak, jmm_uninit_event, and jmm_uninit_proc begins.     *)
LeaveLoop(r) ==
  /\ cpc[r] = "stop"
  /\ k[r] = ProcNum
  /\ cpc' = [cpc EXCEPT ![r] = "reap"]
  /\ k' = [k EXCEPT ![r] = 0]
  /\ UNCHANGED <<step, missed, sigchld, seg, pid, wpc, att, sigint>>

Reaped(r) ==
  /\ cpc[r] = "reap"
  /\ k[r] = ProcNum
  /\ cpc' = [cpc EXCEPT ![r] = "remove"]
  /\ UNCHANGED <<step, k, missed, sigchld, seg, pid, wpc, att, sigint>>

(* Mutant of Remove: the failure path of jmm_init_proc keeps the memory.   *)
RemoveUnlessAborted(r) ==
  /\ cpc[r] \in {"remove", "abort"}
  /\ seg' = IF cpc[r] = "abort" THEN seg ELSE NoRun
  /\ cpc' = [cpc EXCEPT ![r] = IF @ = "abort" THEN "aborted" ELSE "done"]
  /\ UNCHANGED <<step, k, missed, sigchld, pid, wpc, att, sigint>>

(* jmm_uninit_shm: the key is free again; memory that is attached stays.   *)
Remove(r) ==
  /\ cpc[r] \in {"remove", "abort"}
  /\ seg' = IF seg = r THEN NoRun ELSE seg
  /\ cpc' = [cpc EXCEPT ![r] = IF @ = "abort" THEN "aborted" ELSE "done"]
  /\ UNCHANGED <<step, k, missed, sigchld, pid, wpc, att, sigint>>

(* The control process is killed: SIGKILL, or any signal before it has     *)
(* handlers and after it has freed them.                                   *)
Killed(r) ==
  /\ "kill" \in Faults
  /\ cpc[r] \in Holding
  /\ cpc' = [cpc EXCEPT ![r] = "killed"]
  /\ UNCHANGED <<step, k, missed, sigchld, seg, pid, wpc, att, sigint>>

-----------------------------------------------------------------------------
(* The workers.                                                            *)

(* wf->pid = getpid().                                                     *)
SetPid(r, i) ==
  /\ wpc[r][i] = "forked"
  /\ pid' = [pid EXCEPT ![r][i] = TRUE]
  /\ wpc' = [wpc EXCEPT ![r][i] = "attach"]
  /\ UNCHANGED <<ctrlVars, sigchld, seg, att, sigint>>

(* The process ends; SIGCHLD is noticed when it has a handler.             *)
Die(r, i) ==
  /\ wpc' = [wpc EXCEPT ![r][i] = "dead"]
  /\ sigchld' = [sigchld EXCEPT ![r] = @ \/ cpc[r] = "loop"]
  /\ UNCHANGED <<ctrlVars, seg, pid, att, sigint>>

(* jmm_init_shm_wf finds the memory that has the key now, or none.         *)
Attach(r, i) ==
  /\ wpc[r][i] = "attach"
  /\ seg # NoRun
  /\ att' = [att EXCEPT ![r][i] = seg]
  /\ wpc' = [wpc EXCEPT ![r][i] = "init"]
  /\ UNCHANGED <<ctrlVars, sigchld, seg, pid, sigint>>

AttachFails(r, i) == wpc[r][i] = "attach" /\ seg = NoRun /\ Die(r, i)

(* jmm_init_event_wf and prog_init are done.                               *)
WfReady(r, i) ==
  /\ wpc[r][i] = "init"
  /\ wpc' = [wpc EXCEPT ![r][i] = "loop"]
  /\ UNCHANGED <<ctrlVars, sigchld, seg, pid, att, sigint>>

(* SIGINT before jmm_init_event_wf ends the process.                       *)
IntKills(r, i) ==
  sigint[r][i] /\ wpc[r][i] \in {"forked", "attach", "init"} /\ Die(r, i)

(* jmm_ctrl_c_wf_cb breaks the event loop.                                 *)
IntBreaks(r, i) ==
  /\ sigint[r][i]
  /\ wpc[r][i] = "loop"
  /\ wpc' = [wpc EXCEPT ![r][i] = "exiting"]
  /\ UNCHANGED <<ctrlVars, sigchld, seg, pid, att, sigint>>

WfExit(r, i) == wpc[r][i] = "exiting" /\ Die(r, i)

WfDies(r, i) == "wf" \in Faults /\ ~Gone(r, i) /\ Die(r, i)

WfSticks(r, i) ==
  /\ "stuck" \in Faults
  /\ wpc[r][i] = "loop"
  /\ wpc' = [wpc EXCEPT ![r][i] = "stuck"]
  /\ UNCHANGED <<ctrlVars, sigchld, seg, pid, att, sigint>>

-----------------------------------------------------------------------------
Control(r) ==
  \/ Fork(r) \/ Forked(r) \/ InitEvent(r) \/ ChildCb(r)
  \/ EndWf(r) \/ PassWf(r) \/ WaitWf(r) \/ ClearWf(r)
  \/ LeaveLoop(r) \/ Reaped(r) \/ Remove(r)

Worker(r, i) ==
  \/ SetPid(r, i) \/ Attach(r, i) \/ AttachFails(r, i) \/ WfReady(r, i)
  \/ IntKills(r, i) \/ IntBreaks(r, i) \/ WfExit(r, i)

Next ==
  \E r \in Runs :
    \/ InitShm(r) \/ Control(r) \/ Terminate(r)
    \/ ForkFails(r) \/ InitEventFails(r) \/ Killed(r)
    \/ \E i \in Wf : Worker(r, i) \/ WfDies(r, i) \/ WfSticks(r, i)

Spec == Init /\ [][Next]_vars

(* Processes run; starts, stops and faults may or may not come.            *)
Fairness ==
  \A r \in Runs :
    /\ WF_vars(Control(r))
    /\ \A i \in Wf : WF_vars(Worker(r, i))

FairSpec == Spec /\ Fairness
-----------------------------------------------------------------------------
(* The values every variable may have.                                     *)
TypeOK ==
  /\ cpc \in [Runs -> CtrlPcs]
  /\ step \in [Runs -> {"check", "wait", "clear"}]
  /\ k \in [Runs -> 0 .. ProcNum]
  /\ sigchld \in [Runs -> BOOLEAN]
  /\ missed \in [Runs -> SUBSET Wf]
  /\ seg \in Runs \cup {NoRun}
  /\ pid \in [Runs -> [Wf -> BOOLEAN]]
  /\ wpc \in [Runs -> [Wf -> WfPcs]]
  /\ att \in [Runs -> [Wf -> Runs \cup {NoRun}]]
  /\ sigint \in [Runs -> [Wf -> BOOLEAN]]

(* One pool at a time: a control process between jmm_init_shm and          *)
(* jmm_uninit_shm has the memory of the key, and the memory outlives its   *)
(* control process only when that was killed, so that every other end      *)
(* leaves a key the next start can take.                                   *)
PoolOwnsMemory ==
  /\ \A r \in Runs : cpc[r] \in Holding => seg = r
  /\ seg # NoRun => cpc[seg] \in Holding \cup {"killed"}

(* A process id in the table of a control process is that of a child it    *)
(* has not waited for, but for the moment before it is cleared: kill and   *)
(* waitpid never meet a stranger that got a process id again.              *)
PidIsOwnChild ==
  \A r \in Runs, i \in Wf :
    cpc[r] \in Holding /\ pid[r][i] =>
      wpc[r][i] \notin {"none", "reaped"} \/ (step[r] = "clear" /\ k[r] = i)

(* While its control process is there, a worker never works on the memory  *)
(* of another one, although it finds it by a key all of them share.        *)
OwnMemory ==
  \A r \in Runs, i \in Wf :
    cpc[r] \in Holding => att[r][i] \in {r, NoRun}

(* When the control process has stopped in good order, the only workers    *)
(* left are those it passed over before they had written their pid.        *)
StoppedPoolEmpty ==
  \A r \in Runs, i \in Wf :
    cpc[r] = "done" => Gone(r, i) \/ i \in missed[r]

(* A control process that was told to stop stops, unless a worker never    *)
(* comes back to its event loop: then it waits for that one.               *)
StopEnds ==
  \A r \in Runs :
    cpc[r] = "stop" ~> \/ cpc[r] \in Ended
                       \/ \E i \in Wf : wpc[r][i] = "stuck" /\ sigint[r][i]

-----------------------------------------------------------------------------
(* The inductive invariant behind the four safety properties.              *)

(* Before jmm_init_proc has got to a worker there is nothing of it, and    *)
(* its pid and its memory come in the order its own steps set them.        *)
WfStages ==
  \A r \in Runs, i \in Wf :
    /\ cpc[r] \in {"down", "refused"} => wpc[r][i] = "none"
    /\ cpc[r] = "fork" /\ k[r] <= i => wpc[r][i] = "none"
    /\ wpc[r][i] \in {"none", "forked"} => ~pid[r][i]
    /\ wpc[r][i] \in {"none", "forked", "attach"} => att[r][i] = NoRun

(* The loops that end the workers only stop inside at a worker.            *)
StepOK ==
  \A r \in Runs :
    /\ cpc[r] \in Holding \ {"stop", "reap"} => step[r] = "check"
    /\ cpc[r] = "down" => step[r] = "check" /\ k[r] = 0
    /\ cpc[r] \in {"event", "loop"} => k[r] = 0
    /\ step[r] # "check" => k[r] \in Wf

(* What jmm_uninit_proc has got through is empty but for what it missed.   *)
ReapOK ==
  \A r \in Runs, i \in Wf :
    (\/ cpc[r] = "reap" /\ (i < k[r] \/ (i = k[r] /\ step[r] = "clear"))
     \/ cpc[r] \in {"remove", "done"})
      => Gone(r, i) \/ i \in missed[r]

LifeInv ==
  TypeOK /\ PoolOwnsMemory /\ PidIsOwnChild /\ OwnMemory /\ WfStages
         /\ StepOK /\ ReapOK

-----------------------------------------------------------------------------
(* jmm_event.c:223: the children are ended when the control process is     *)
(* told to stop.  Refuted by TLC.                                          *)
ChildrenEnded ==
  \A r \in Runs, i \in Wf : cpc[r] = "done" => Gone(r, i)
=============================================================================
