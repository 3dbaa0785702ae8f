------------------------------ MODULE JmmStop -------------------------------
(***************************************************************************)
(* The pool at work is told to stop: SIGTERM or SIGINT meets the control   *)
(* process in the middle of anything, workers are signalled and waited for *)
(* one by one while they still take and serve connections                  *)
(* (jmm_ctrl_c_cb, jmm_uninit_event and jmm_uninit_proc, beside JmmPool).  *)
(* Workers are forked in the loop that makes the channels and close none   *)
(* of what they inherit: worker w has both ends of every channel up to its *)
(* own, and a channel lasts as long as one process has it.                 *)
(***************************************************************************)
EXTENDS JmmPool

VARIABLES
  term,    (* the signal to stop is pending for the control process      *)
  spc,     (* "run", "stop": jmm_ctrl_c_cb, "reap": jmm_uninit_proc,     *)
           (* "down": the control process has ended its workers          *)
  step,    (* where it is with a worker                                  *)
  k,       (* the worker its loop has got to                             *)
  sigint,  (* SIGINT of each worker: none, sent, or seen by a sleeper    *)
  shut     (* the workers whose channels the control process has closed  *)

stopVars == <<term, spc, step, k, sigint, shut>>
allVars == <<vars, stopVars>>

StopInit ==
  /\ Init
  /\ term = FALSE
  /\ spc = "run"
  /\ step = "check"
  /\ k = 0
  /\ sigint = [w \in Wf |-> "none"]
  /\ shut = {}

(***************************************************************************)
(* The pool goes on.  In jmm_ctrl_c_cb and after its loop the control      *)
(* process handles no event, and a freed listener takes no connection.     *)
(***************************************************************************)
AtWork ==
  /\ Next
  /\ spc # "run" => UNCHANGED ctrlVars /\ (sigchld => sigchld')
  /\ spc \in {"reap", "down"} => backlog' = backlog
  /\ UNCHANGED stopVars

-----------------------------------------------------------------------------
(* Somebody signals the control process alone, or from its terminal the    *)
(* workers with it.                                                        *)
Signal ==
  /\ ~term
  /\ term' = TRUE
  /\ sigint' \in {sigint, [w \in Wf |-> "sent"]}
  /\ UNCHANGED <<vars, spc, step, k, shut>>

(* jmm_ctrl_c_cb is a callback of the event loop, like the listener's; the *)
(* variables of the last search have no further use.                       *)
Terminate ==
  /\ term
  /\ spc = "run"
  /\ cpc = "loop"
  /\ spc' = "stop"
  /\ wi' = 0
  /\ sj' = 0
  /\ skipped' = {}
  /\ UNCHANGED <<clientVars, cpc, cconn, sigchld, pid, mutex, slot, chanVars,
                 wfVars, term, step, k, sigint, shut>>

AtCheck == spc \in {"stop", "reap"} /\ step = "check" /\ k < ProcNum

(* Mutant of EndWf: the signal is not sent.                                *)
EndWfSilent ==
  /\ AtCheck
  /\ pid[k] # 0
  /\ step' = "wait"
  /\ UNCHANGED <<vars, term, spc, k, sigint, shut>>

(* kill(wf->pid, SIGINT).                                                  *)
EndWf ==
  /\ AtCheck
  /\ pid[k] # 0
  /\ step' = "wait"
  /\ sigint' = [sigint EXCEPT ![k] = "sent"]
  /\ UNCHANGED <<vars, term, spc, k, shut>>

PassWf ==
  /\ AtCheck
  /\ pid[k] = 0
  /\ step' = "clear"
  /\ UNCHANGED <<vars, term, spc, k, sigint, shut>>

(* waitpid(wf->pid, NULL, 0).                                              *)
WaitWf ==
  /\ step = "wait"
  /\ wpc[k] = "dead"
  /\ wpc' = [wpc EXCEPT ![k] = "reaped"]
  /\ step' = "clear"
  /\ UNCHANGED <<clientVars, ctrlVars, sigchld, pid, mutex, slot, chanVars,
                 cur, bev, term, spc, k, sigint, shut>>

(* Mutant of ClearWf: jmm_uninit_proc leaves the channels open.            *)
ClearWfKeepsFds ==
  /\ step = "clear"
  /\ pid' = [pid EXCEPT ![k] = 0]
  /\ k' = k + 1
  /\ step' = "check"
  /\ UNCHANGED <<clientVars, ctrlVars, sigchld, mutex, slot, chanVars,
                 wfVars, term, spc, sigint, shut>>

(* wf->pid = 0; jmm_uninit_proc closes the control process's ends of both  *)
(* channels.  What is in them stays until nobody has them open.            *)
ClearWf ==
  /\ step = "clear"
  /\ pid' = [pid EXCEPT ![k] = 0]
  /\ k' = k + 1
  /\ step' = "check"
  /\ shut' = IF spc = "reap" THEN shut \cup {k} ELSE shut
  /\ UNCHANGED <<clientVars, ctrlVars, sigchld, mutex, slot, chanVars,
                 wfVars, term, spc, sigint>>

(* event_base_loopbreak; jmm_uninit_event frees the listener, and who is   *)
(* in its queue is reset; jmm_uninit_proc begins.                          *)
LeaveLoop ==
  /\ spc = "stop"
  /\ k = ProcNum
  /\ spc' = "reap"
  /\ k' = 0
  /\ backlog' = {}
  /\ UNCHANGED <<client, ctrlVars, sigchld, pid, mutex, slot, chanVars,
                 wfVars, term, step, sigint, shut>>

Reaped ==
  /\ spc = "reap"
  /\ k = ProcNum
  /\ spc' = "down"
  /\ UNCHANGED <<vars, term, step, k, sigint, shut>>

Stop == Terminate \/ EndWf \/ PassWf \/ WaitWf \/ ClearWf \/ LeaveLoop \/ Reaped

-----------------------------------------------------------------------------
(* What SIGINT does to a worker.                                           *)

(* It ends a process that has no handler yet, or none any more.            *)
IntKills(w) ==
  /\ sigint[w] # "none"
  /\ wpc[w] \in {"forked", "init", "exiting"}
  /\ Die(w)
  /\ UNCHANGED stopVars

(* In the event loop, now or when the callback is over, jmm_ctrl_c_wf_cb   *)
(* ends that loop.                                                         *)
IntBreaks(w) ==
  /\ sigint[w] # "none"
  /\ LoopBreak(w)
  /\ UNCHANGED stopVars

(* It interrupts the futex wait: pthread_mutex_lock tries once more.       *)
IntWakes(w) ==
  /\ sigint[w] = "sent"
  /\ wpc[w] = "asleep"
  /\ sigint' = [sigint EXCEPT ![w] = "seen"]
  /\ wpc' = [wpc EXCEPT ![w] = "lock"]
  /\ UNCHANGED <<clientVars, ctrlVars, sigchld, pid, mutex, slot, chanVars,
                 cur, bev, term, spc, step, k, shut>>

Interrupted(w) == IntKills(w) \/ IntBreaks(w) \/ IntWakes(w)

StopNext ==
  \/ AtWork
  \/ Signal
  \/ Stop
  \/ \E w \in Wf : Interrupted(w)

(***************************************************************************)
(* Each process runs: as long as it has something to do it does something. *)
(* A sleeper that the control process does not wake is not fair, neither   *)
(* are clients, faults and signals from outside.                           *)
(***************************************************************************)
Ctrl ==
  \/ ((\E c \in Conns : Accept(c)) \/ ChildCb) /\ AtWork
  \/ (Search \/ SendFd \/ WriteId \/ CloseFd) /\ UNCHANGED stopVars
  \/ Stop

Handles(w) ==
  \/ (Worker(w) \/ \E s \in Slots : SockEvent(w, s)) /\ UNCHANGED stopVars
  \/ Interrupted(w)

StopFairness ==
  /\ WF_allVars(Ctrl)
  /\ \A w \in Wf : WF_allVars(Handles(w))

StopSpec == StopInit /\ [][StopNext]_allVars /\ StopFairness
-----------------------------------------------------------------------------
(* The search has come to a last worker that is gone with its mutex        *)
(* locked: the control process is lost (JmmPool!SearchEnds).               *)
Spins ==
  /\ cpc = "scan"
  /\ wi = ProcNum - 1
  /\ pid[wi] # 0
  /\ Gone(wi)
  /\ mutex[wi] # "free"

InChannel(c, v) == \E i \in 1 .. Len(fdq[v]) : fdq[v][i] = c

(* Somebody has the channels of worker v: the control process, that worker *)
(* or one that was forked after it.                                        *)
ChannelOpen(v) == v \notin shut \/ \E w \in v .. (ProcNum - 1) : ~Gone(w)

(* The connection went with the last process that had its channel.         *)
Lost(c) == \E v \in Wf : InChannel(c, v) /\ ~ChannelOpen(v)

(* It lies in the channel of a worker that is gone, where nobody will take *)
(* it, and a later worker that outlives the stop keeps it open.            *)
Stranded(c) ==
  /\ spc = "down"
  /\ \E v, w \in Wf : InChannel(c, v) /\ Gone(v) /\ v < w /\ ~Gone(w)

(* Every connection that arrives is served or closed in the end, by the    *)
(* pool at work or by its stop, which resets what nobody has taken; unless *)
(* the search is caught by a worker that was interrupted with its mutex,   *)
(* or the stop passed over a worker that was late (jmm_proc.c:94-116).     *)
ArrivalsSettle ==
  \A c \in Conns :
    Stage(c) = "waiting" ~>
      Stage(c) \in {"served", "closed"} \/ Lost(c) \/ Stranded(c) \/ Spins

(* A worker whose SIGCHLD is pending, perhaps one signal for several       *)
(* deaths, leaves the pool, in jmm_child_cb or in the loops of the stop.   *)
DeathsNoticed ==
  \A w \in Wf :
    (wpc[w] = "dead" /\ sigchld /\ spc = "run")
      ~> (Gone(w) /\ pid[w] = 0) \/ Spins

(* A signal to stop stops the pool, wherever it finds the control process  *)
(* and the workers: none of them is left in a wait for ever.               *)
StopCompletes == term ~> spc = "down" \/ Spins

(* When the control process has ended its workers, a connection is open    *)
(* only in the channel of a worker that is gone and because of a late one: *)
(* none is in the queue of the listener, in a channel somebody still reads *)
(* or at a worker that was not waited for.                                 *)
OnlyStrandedLeft ==
  spc = "down" =>
    \A c \in Conns : Stage(c) \in {"new", "closed"} \/ Lost(c) \/ Stranded(c)

-----------------------------------------------------------------------------
(***************************************************************************)
(* The inductive invariant behind OnlyStrandedLeft.                        *)
(***************************************************************************)

StopTypeOK ==
  /\ term \in BOOLEAN
  /\ spc \in {"run", "stop", "reap", "down"}
  /\ step \in {"check", "wait", "clear"}
  /\ k \in 0 .. ProcNum
  /\ sigint \in [Wf -> {"none", "sent", "seen"}]
  /\ shut \in SUBSET Wf

(* The control process stops with no connection in its hands, and where    *)
(* its two loops over the workers are.                                     *)
StopAt ==
  /\ cpc = "loop" => cconn = NoFd
  /\ spc # "run" => cpc = "loop"
  /\ spc = "run" => k = 0
  /\ step # "check" => spc \in {"stop", "reap"} /\ k < ProcNum
  /\ spc = "down" => k = ProcNum
  /\ spc \in {"reap", "down"} =>
       backlog = {} /\ \A w \in Wf : w < k => w \in shut

(* Worker w is gone, or has no connection and none on its way.  The latter *)
(* are workers the loops pass over: forked, but with wf->pid not set yet,  *)
(* or set and then cleared behind their back.                              *)
Left(w) == Gone(w) \/ (fdq[w] = << >> /\ \A s \in Slots : bev[w][s] = NoFd)

(* Nothing is sent to a worker that is not in the pool, and what the loop  *)
(* of jmm_uninit_proc has passed is gone or has nothing.                   *)
LeftOK ==
  /\ cpc \in {"slots", "send"} => pid[wi] # 0
  /\ step = "clear" => Left(k)
  /\ \A w \in Wf :
       /\ pid[w] = 0 => Left(w)
       /\ spc \in {"reap", "down"} /\ w < k => Left(w)

StopInv == HandInv /\ StopTypeOK /\ StopAt /\ LeftOK
=============================================================================
