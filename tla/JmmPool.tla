------------------------------ MODULE JmmPool -------------------------------
(***************************************************************************)
(* The process pool of jmm at work: the control process accepts            *)
(* connections, looks for a worker with a free slot through the shared     *)
(* memory, and hands the socket over; the workers take it, serve it and    *)
(* give the slot back (src/src/jmm_proc.c, src/src/jmm_event.c).           *)
(*                                                                         *)
(* The mutex of a worker is taken by the control process with              *)
(* pthread_mutex_trylock and, when a slot is assigned, released by the     *)
(* worker.  It is zeroed memory in a segment shared by processes, without  *)
(* PTHREAD_PROCESS_SHARED: an unlock wakes sleepers of the unlocking       *)
(* process only.                                                           *)
(***************************************************************************)
EXTENDS Integers, Sequences

CONSTANTS
  ProcNum,  (* conf.proc_num: the workers that are forked               *)
  SlotNum,  (* conf.proc_svr_num: the connections a worker can serve    *)
  Conns,    (* the client connections, each used once                   *)
  NoFd,     (* sock_fd = 0 and bufferevent NULL: no connection          *)
  BadFd,    (* sock_fd = -1: a descriptor that was not received         *)
  Faults    (* the failures that may happen, see FaultKinds             *)

(***************************************************************************)
(* "init": a worker fails to initialise; "fatal": prog_service reports a   *)
(* failure and the worker leaves its loop; "kill": a worker is killed;     *)
(* "send": sendmsg of a descriptor fails; "recv": recvmsg brings the       *)
(* message without it, the one failure of a blocking socket in which no    *)
(* signal breaks the wait (libevent's handlers restart it).                *)
(***************************************************************************)
FaultKinds == {"init", "fatal", "kill", "send", "recv"}

ASSUME PoolAssumption ==
  /\ ProcNum \in Nat
  /\ SlotNum \in Nat
  /\ NoFd \notin Conns
  /\ BadFd \notin Conns
  /\ NoFd # BadFd
  /\ Faults \subseteq FaultKinds

Wf == 0 .. (ProcNum - 1)
Slots == 0 .. (SlotNum - 1)
Fds == Conns \cup {NoFd, BadFd}

VARIABLES
  \* clients and kernel
  client,   (* what the peer of each connection has done                 *)
  backlog,  (* connections waiting in the listen queue                   *)
  \* control process
  cpc,      (* where the control process is                              *)
  cconn,    (* the connection jmm_listener_cb works on                   *)
  wi,       (* i of jmm_find_free_wf, then wf_id                         *)
  sj,       (* sock_id                                                   *)
  skipped,  (* history: workers passed over on EBUSY, not examined since *)
  sigchld,  (* SIGCHLD is pending                                        *)
  \* shared memory, one record per worker
  pid,      (* wf->pid                                                   *)
  mutex,    (* wf->mutex: free, or locked by a side                      *)
  slot,     (* wf->shm_sock[].sock_fd                                    *)
  \* channels, one pair per worker
  fdq,      (* socketpair father_fd -> mother_fd: descriptors            *)
  pipe,     (* pipe boy_fd -> girl_fd: slot numbers                      *)
  \* workers
  wpc,      (* where the worker is                                       *)
  cur,      (* the slot its callback works on                            *)
  bev       (* event_wf.sock[]: its bufferevents                         *)

clientVars == <<client, backlog>>
ctrlVars   == <<cpc, cconn, wi, sj, skipped>>
chanVars   == <<fdq, pipe>>
wfVars     == <<wpc, cur, bev>>
vars == <<clientVars, ctrlVars, sigchld, pid, mutex, slot, chanVars, wfVars>>

CtrlPcs == {"loop", "scan", "slots", "send", "write", "close", "refuse"}

(***************************************************************************)
(* "forked": before wf->pid is set; "init": up to event_base_dispatch;     *)
(* "loop": in the event loop; "recv", "unlock": in jmm_cmm_read_wf_cb;     *)
(* "lock": before pthread_mutex_lock in jmm_sock_event_wf_cb; "asleep": in *)
(* the futex wait of that call; "held": after it; "exiting": after         *)
(* event_base_loopbreak; "dead": a zombie; "reaped": waited for.           *)
(***************************************************************************)
WfPcs == {"forked", "init", "loop", "recv", "unlock", "lock", "asleep",
          "held", "exiting", "dead", "reaped"}

Gone(w) == wpc[w] \in {"dead", "reaped"}

(* The process id of worker w; 0 in wf->pid means no process.              *)
Pid(w) == w + 1

-----------------------------------------------------------------------------
(***************************************************************************)
(* The control process enters event_base_dispatch.  Its children were      *)
(* forked before and have got to any point of their start.  One that died  *)
(* before evsignal_new(SIGCHLD) left a zombie and no signal.               *)
(***************************************************************************)
Init ==
  /\ client = [c \in Conns |-> "new"]
  /\ backlog = {}
  /\ cpc = "loop"
  /\ cconn = NoFd
  /\ wi = 0
  /\ sj = 0
  /\ skipped = {}
  /\ wpc \in [Wf -> {"forked", "init", "loop"} \cup
                    (IF Faults \cap {"init", "kill"} = {} THEN {} ELSE {"dead"})]
  /\ pid \in [Wf -> 0 .. ProcNum]
  /\ \A w \in Wf :
       \/ wpc[w] = "forked" /\ pid[w] = 0
       \/ wpc[w] \in {"init", "loop"} /\ pid[w] = Pid(w)
       \/ wpc[w] = "dead" /\ pid[w] \in {0, Pid(w)}
  /\ sigchld \in {FALSE, \E w \in Wf : wpc[w] = "dead"}
  /\ mutex = [w \in Wf |-> "free"]
  /\ slot = [w \in Wf |-> [s \in Slots |-> NoFd]]
  /\ fdq = [w \in Wf |-> << >>]
  /\ pipe = [w \in Wf |-> << >>]
  /\ cur = [w \in Wf |-> 0]
  /\ bev = [w \in Wf |-> [s \in Slots |-> NoFd]]

-----------------------------------------------------------------------------
(* Clients.                                                                *)

Connect(c) ==
  /\ client[c] = "new"
  /\ client' = [client EXCEPT ![c] = "open"]
  /\ backlog' = backlog \cup {c}
  /\ UNCHANGED <<ctrlVars, sigchld, pid, mutex, slot, chanVars, wfVars>>

(* The peer closes or resets the connection, wherever it has got to.       *)
Disconnect(c) ==
  /\ client[c] = "open"
  /\ client' = [client EXCEPT ![c] = "closed"]
  /\ UNCHANGED <<backlog, ctrlVars, sigchld, pid, mutex, slot, chanVars, wfVars>>

-----------------------------------------------------------------------------
(* The control process: jmm_listener_cb, jmm_find_free_wf, jmm_assign_wf.  *)

(* The listener accepts a connection and the search starts at worker 0.    *)
Accept(c) ==
  /\ cpc = "loop"
  /\ c \in backlog
  /\ backlog' = backlog \ {c}
  /\ cpc' = "scan"
  /\ cconn' = c
  /\ wi' = 0
  /\ sj' = 0
  /\ skipped' = {}
  /\ UNCHANGED <<client, sigchld, pid, mutex, slot, chanVars, wfVars>>

(* wf->pid == 0: the worker is passed over.                                *)
ScanDead ==
  /\ cpc = "scan"
  /\ wi < ProcNum
  /\ pid[wi] = 0
  /\ wi' = wi + 1
  /\ UNCHANGED <<clientVars, cpc, cconn, sj, skipped, sigchld, pid, mutex,
                 slot, chanVars, wfVars>>

(* Mutant of ScanBusy: without the i = 0 at the last worker.               *)
ScanBusyGivesUp ==
  /\ cpc = "scan"
  /\ wi < ProcNum
  /\ pid[wi] # 0
  /\ mutex[wi] # "free"
  /\ wi' = wi + 1
  /\ skipped' = skipped \cup {wi}
  /\ UNCHANGED <<clientVars, cpc, cconn, sj, sigchld, pid, mutex, slot,
                 chanVars, wfVars>>

(***************************************************************************)
(* pthread_mutex_trylock says EBUSY.  At the last worker i is set to 0 and *)
(* the loop's i++ makes it 1: worker 0 is not looked at again.             *)
(***************************************************************************)
ScanBusy ==
  /\ cpc = "scan"
  /\ wi < ProcNum
  /\ pid[wi] # 0
  /\ mutex[wi] # "free"
  /\ wi' = IF wi = ProcNum - 1 THEN 1 ELSE wi + 1
  /\ skipped' = skipped \cup {wi}
  /\ UNCHANGED <<clientVars, cpc, cconn, sj, sigchld, pid, mutex, slot,
                 chanVars, wfVars>>

(* Mutant of ScanLock: the result of the trylock is not looked at.         *)
ScanLockUnchecked ==
  /\ cpc = "scan"
  /\ wi < ProcNum
  /\ pid[wi] # 0
  /\ mutex' = [mutex EXCEPT ![wi] = "ctrl"]
  /\ cpc' = "slots"
  /\ skipped' = skipped \ {wi}
  /\ UNCHANGED <<clientVars, cconn, wi, sj, sigchld, pid, slot, chanVars,
                 wfVars>>

ScanLock ==
  /\ cpc = "scan"
  /\ wi < ProcNum
  /\ pid[wi] # 0
  /\ mutex[wi] = "free"
  /\ mutex' = [mutex EXCEPT ![wi] = "ctrl"]
  /\ cpc' = "slots"
  /\ skipped' = skipped \ {wi}
  /\ UNCHANGED <<clientVars, cconn, wi, sj, sigchld, pid, slot, chanVars,
                 wfVars>>

(* Every slot is taken: unlock, next worker.                               *)
SlotsFull ==
  /\ cpc = "slots"
  /\ \A s \in Slots : slot[wi][s] # NoFd
  /\ mutex' = [mutex EXCEPT ![wi] = "free"]
  /\ cpc' = "scan"
  /\ wi' = wi + 1
  /\ UNCHANGED <<clientVars, cconn, sj, skipped, sigchld, pid, slot,
                 chanVars, wfVars>>

(* Mutant of SlotFound: the slot loop runs one too far.                    *)
SlotFoundOneTooFar ==
  /\ cpc = "slots"
  /\ \E s \in 0 .. SlotNum :
       /\ s \in Slots => slot[wi][s] = NoFd
       /\ \A r \in 0 .. (s - 1) : slot[wi][r] # NoFd
       /\ sj' = s
  /\ cpc' = "send"
  /\ UNCHANGED <<clientVars, cconn, wi, skipped, sigchld, pid, mutex, slot,
                 chanVars, wfVars>>

(* The first free slot is chosen; the mutex stays locked for the worker.   *)
SlotFound ==
  /\ cpc = "slots"
  /\ \E s \in Slots :
       /\ slot[wi][s] = NoFd
       /\ \A r \in 0 .. (s - 1) : slot[wi][r] # NoFd
       /\ sj' = s
  /\ cpc' = "send"
  /\ UNCHANGED <<clientVars, cconn, wi, skipped, sigchld, pid, mutex, slot,
                 chanVars, wfVars>>

(* jmm_find_free_wf returns JMM_FAIL: no available resource.               *)
ScanFail ==
  /\ cpc = "scan"
  /\ wi >= ProcNum
  /\ cpc' = "refuse"
  /\ UNCHANGED <<clientVars, cconn, wi, sj, skipped, sigchld, pid, mutex,
                 slot, chanVars, wfVars>>

(* jmm_send_fd: the descriptor goes into the socketpair.                   *)
SendFd ==
  /\ cpc = "send"
  /\ fdq' = [fdq EXCEPT ![wi] = Append(@, cconn)]
  /\ cpc' = "write"
  /\ UNCHANGED <<clientVars, cconn, wi, sj, skipped, sigchld, pid, mutex,
                 slot, pipe, wfVars>>

(* sendmsg fails; the result is not looked at and the slot is still sent.  *)
SendFdFails ==
  /\ "send" \in Faults
  /\ cpc = "send"
  /\ cpc' = "write"
  /\ UNCHANGED <<clientVars, cconn, wi, sj, skipped, sigchld, pid, mutex,
                 slot, chanVars, wfVars>>

(* Mutant of WriteId: the number of the worker instead of the slot.        *)
WriteIdOfWorker ==
  /\ cpc = "write"
  /\ pipe' = [pipe EXCEPT ![wi] = Append(@, wi)]
  /\ cpc' = "close"
  /\ UNCHANGED <<clientVars, cconn, wi, sj, skipped, sigchld, pid, mutex,
                 slot, fdq, wfVars>>

WriteId ==
  /\ cpc = "write"
  /\ pipe' = [pipe EXCEPT ![wi] = Append(@, sj)]
  /\ cpc' = "close"
  /\ UNCHANGED <<clientVars, cconn, wi, sj, skipped, sigchld, pid, mutex,
                 slot, fdq, wfVars>>

(* close(fd), assigned or not, and back to the event loop.                 *)
CloseFd ==
  /\ cpc \in {"close", "refuse"}
  /\ cpc' = "loop"
  /\ cconn' = NoFd
  /\ UNCHANGED <<clientVars, wi, sj, skipped, sigchld, pid, mutex, slot,
                 chanVars, wfVars>>

(* Mutant of ChildCb: one waitpid for a signal, if instead of while.       *)
ChildCbReapsOne ==
  /\ cpc = "loop"
  /\ sigchld
  /\ sigchld' = FALSE
  /\ \E w \in Wf :
       /\ wpc[w] = "dead"
       /\ pid' = [pid EXCEPT ![w] = 0]
       /\ wpc' = [wpc EXCEPT ![w] = "reaped"]
  /\ UNCHANGED <<clientVars, ctrlVars, mutex, slot, chanVars, cur, bev>>

(***************************************************************************)
(* jmm_child_cb: every zombie is waited for and its wf->pid cleared.  It   *)
(* is an event callback: it does not run while jmm_listener_cb does.       *)
(***************************************************************************)
ChildCb ==
  /\ cpc = "loop"
  /\ sigchld
  /\ sigchld' = FALSE
  /\ pid' = [w \in Wf |-> IF wpc[w] = "dead" THEN 0 ELSE pid[w]]
  /\ wpc' = [w \in Wf |-> IF wpc[w] = "dead" THEN "reaped" ELSE wpc[w]]
  /\ UNCHANGED <<clientVars, ctrlVars, mutex, slot, chanVars, cur, bev>>

-----------------------------------------------------------------------------
(* The workers.                                                            *)

(* The first statement of the child: wf->pid = getpid().                   *)
WfStart(w) ==
  /\ wpc[w] = "forked"
  /\ pid' = [pid EXCEPT ![w] = Pid(w)]
  /\ wpc' = [wpc EXCEPT ![w] = "init"]
  /\ UNCHANGED <<clientVars, ctrlVars, sigchld, mutex, slot, chanVars, cur, bev>>

(* jmm_proc_wf has set up log, shared memory, events and program.          *)
WfReady(w) ==
  /\ wpc[w] = "init"
  /\ wpc' = [wpc EXCEPT ![w] = "loop"]
  /\ UNCHANGED <<clientVars, ctrlVars, sigchld, pid, mutex, slot, chanVars,
                 cur, bev>>

(* The process ends, by exit or by a signal: the kernel closes its         *)
(* descriptors and signals the parent; the shared memory stays as it is.   *)
Die(w) ==
  /\ wpc' = [wpc EXCEPT ![w] = "dead"]
  /\ bev' = [bev EXCEPT ![w] = [s \in Slots |-> NoFd]]
  /\ sigchld' = TRUE
  /\ UNCHANGED <<clientVars, ctrlVars, pid, mutex, slot, chanVars, cur>>

WfInitFails(w) == "init" \in Faults /\ wpc[w] = "init" /\ Die(w)

WfKilled(w) == "kill" \in Faults /\ ~Gone(w) /\ Die(w)

(* Mutant of CmmRead: the mutex is opened before the descriptor is taken.  *)
CmmReadUnlocks(w) ==
  /\ wpc[w] = "loop"
  /\ pipe[w] # << >>
  /\ pipe' = [pipe EXCEPT ![w] = Tail(@)]
  /\ cur' = [cur EXCEPT ![w] = Head(pipe[w])]
  /\ mutex' = [mutex EXCEPT ![w] = "free"]
  /\ wpc' = [wpc EXCEPT ![w] =
               IF slot[w][Head(pipe[w])] = NoFd THEN "recv" ELSE "loop"]
  /\ UNCHANGED <<clientVars, ctrlVars, sigchld, pid, slot, fdq, bev>>

(***************************************************************************)
(* jmm_cmm_read_wf_cb reads a slot number.  When the slot is taken         *)
(* ("should never go here") nothing else happens, not even the unlock.     *)
(***************************************************************************)
CmmRead(w) ==
  /\ wpc[w] = "loop"
  /\ pipe[w] # << >>
  /\ pipe' = [pipe EXCEPT ![w] = Tail(@)]
  /\ cur' = [cur EXCEPT ![w] = Head(pipe[w])]
  /\ wpc' = [wpc EXCEPT ![w] =
               IF slot[w][Head(pipe[w])] = NoFd THEN "recv" ELSE "loop"]
  /\ UNCHANGED <<clientVars, ctrlVars, sigchld, pid, mutex, slot, fdq, bev>>

(* Mutant of Install: the slot is not marked in the shared memory.         *)
InstallUnrecorded(w, fd) ==
  /\ fdq' = [fdq EXCEPT ![w] = Tail(@)]
  /\ bev' = [bev EXCEPT ![w][cur[w]] = IF @ = NoFd THEN fd ELSE @]
  /\ wpc' = [wpc EXCEPT ![w] = "unlock"]
  /\ UNCHANGED <<clientVars, ctrlVars, sigchld, pid, mutex, slot, pipe, cur>>

(* Mutant of Install: the slot number read is not used, slot 0 is taken.   *)
InstallInFirst(w, fd) ==
  /\ fdq' = [fdq EXCEPT ![w] = Tail(@)]
  /\ bev' = [bev EXCEPT ![w][0] = IF @ = NoFd THEN fd ELSE @]
  /\ slot' = [slot EXCEPT ![w][0] = fd]
  /\ wpc' = [wpc EXCEPT ![w] = "unlock"]
  /\ UNCHANGED <<clientVars, ctrlVars, sigchld, pid, mutex, pipe, cur>>

(* jmm_init_event_sock does nothing when the bufferevent exists; the slot  *)
(* is then set in any case.                                                *)
Install(w, fd) ==
  /\ fdq' = [fdq EXCEPT ![w] = Tail(@)]
  /\ bev' = [bev EXCEPT ![w][cur[w]] = IF @ = NoFd THEN fd ELSE @]
  /\ slot' = [slot EXCEPT ![w][cur[w]] = fd]
  /\ wpc' = [wpc EXCEPT ![w] = "unlock"]
  /\ UNCHANGED <<clientVars, ctrlVars, sigchld, pid, mutex, pipe, cur>>

(* jmm_recv_fd waits for a descriptor; its mother_fd is a blocking socket. *)
RecvFd(w) ==
  /\ wpc[w] = "recv"
  /\ fdq[w] # << >>
  /\ Install(w, Head(fdq[w]))

(* The message comes without its descriptor, as when the table is full:    *)
(* newsf stays -1 and is installed like a descriptor.                      *)
RecvFdFails(w) ==
  /\ "recv" \in Faults
  /\ wpc[w] = "recv"
  /\ fdq[w] # << >>
  /\ Install(w, BadFd)

(* The worker opens the lock of its parent.                                *)
CmmUnlock(w) ==
  /\ wpc[w] = "unlock"
  /\ mutex' = [mutex EXCEPT ![w] = "free"]
  /\ wpc' = [wpc EXCEPT ![w] = "loop"]
  /\ UNCHANGED <<clientVars, ctrlVars, sigchld, pid, slot, chanVars, cur, bev>>

(* jmm_sock_event_wf_cb: end of file or an error on a connection.  A       *)
(* bufferevent of descriptor -1 has no events.                             *)
SockEvent(w, s) ==
  /\ wpc[w] = "loop"
  /\ bev[w][s] \in Conns
  /\ client[bev[w][s]] = "closed"
  /\ wpc' = [wpc EXCEPT ![w] = "lock"]
  /\ cur' = [cur EXCEPT ![w] = s]
  /\ UNCHANGED <<clientVars, ctrlVars, sigchld, pid, mutex, slot, chanVars, bev>>

Acquire(w) ==
  /\ mutex[w] = "free"
  /\ mutex' = [mutex EXCEPT ![w] = "wf"]
  /\ wpc' = [wpc EXCEPT ![w] = "held"]
  /\ UNCHANGED <<clientVars, ctrlVars, sigchld, pid, slot, chanVars, cur, bev>>

Lock(w) == wpc[w] = "lock" /\ Acquire(w)

LockWait(w) ==
  /\ wpc[w] = "lock"
  /\ mutex[w] # "free"
  /\ wpc' = [wpc EXCEPT ![w] = "asleep"]
  /\ UNCHANGED <<clientVars, ctrlVars, sigchld, pid, mutex, slot, chanVars,
                 cur, bev>>

(* A sleeper tries again when something wakes it, a signal for instance.   *)
(* The unlock of another process need not: no fairness is assumed.         *)
FutexRetry(w) == wpc[w] = "asleep" /\ Acquire(w)

(* Mutant of SockClose: sock_fd is not set back to 0.                      *)
SockCloseKeepsSlot(w) ==
  /\ wpc[w] = "held"
  /\ bev' = [bev EXCEPT ![w][cur[w]] = NoFd]
  /\ mutex' = [mutex EXCEPT ![w] = "free"]
  /\ wpc' = [wpc EXCEPT ![w] = "loop"]
  /\ UNCHANGED <<clientVars, ctrlVars, sigchld, pid, slot, chanVars, cur>>

(* Mutant of SockClose: the mutex is not unlocked.                         *)
SockCloseKeepsLock(w) ==
  /\ wpc[w] = "held"
  /\ bev' = [bev EXCEPT ![w][cur[w]] = NoFd]
  /\ slot' = [slot EXCEPT ![w][cur[w]] = NoFd]
  /\ wpc' = [wpc EXCEPT ![w] = "loop"]
  /\ UNCHANGED <<clientVars, ctrlVars, sigchld, pid, mutex, chanVars, cur>>

(* bufferevent_free closes the socket; the slot is given back.             *)
SockClose(w) ==
  /\ wpc[w] = "held"
  /\ bev' = [bev EXCEPT ![w][cur[w]] = NoFd]
  /\ slot' = [slot EXCEPT ![w][cur[w]] = NoFd]
  /\ mutex' = [mutex EXCEPT ![w] = "free"]
  /\ wpc' = [wpc EXCEPT ![w] = "loop"]
  /\ UNCHANGED <<clientVars, ctrlVars, sigchld, pid, chanVars, cur>>

(* event_base_loopbreak: the worker leaves its loop after this callback.    *)
LoopBreak(w) ==
  /\ wpc[w] = "loop"
  /\ wpc' = [wpc EXCEPT ![w] = "exiting"]
  /\ UNCHANGED <<clientVars, ctrlVars, sigchld, pid, mutex, slot, chanVars,
                 cur, bev>>

(* jmm_sock_read_wf_cb: prog_service fails on the data of a connection.    *)
(* Its other outcomes leave this state alone.                              *)
ServiceFatal(w, s) == "fatal" \in Faults /\ bev[w][s] \in Conns /\ LoopBreak(w)

(* jmm_ctrl_c_wf_cb: SIGINT or SIGTERM sent to a worker in its event loop. *)
CtrlCWf(w) == "kill" \in Faults /\ LoopBreak(w)

(* jmm_uninit_event_wf frees the bufferevents, then exit; the slots in the *)
(* shared memory and the mutex are left.                                   *)
WfExit(w) == wpc[w] = "exiting" /\ Die(w)

-----------------------------------------------------------------------------
Search ==
  ScanDead \/ ScanBusy \/ ScanLock \/ SlotsFull \/ SlotFound \/ ScanFail

Assign == SendFd \/ SendFdFails \/ WriteId \/ CloseFd

Worker(w) ==
  \/ WfStart(w) \/ WfReady(w)
  \/ CmmRead(w) \/ RecvFd(w) \/ CmmUnlock(w)
  \/ Lock(w) \/ LockWait(w) \/ SockClose(w)
  \/ WfExit(w)

Next ==
  \/ \E c \in Conns : Connect(c) \/ Disconnect(c) \/ Accept(c)
  \/ Search \/ Assign \/ ChildCb
  \/ \E w \in Wf : \/ Worker(w)
                   \/ WfInitFails(w) \/ WfKilled(w) \/ CtrlCWf(w)
                   \/ RecvFdFails(w) \/ FutexRetry(w)
                   \/ \E s \in Slots : SockEvent(w, s) \/ ServiceFatal(w, s)

Spec == Init /\ [][Next]_vars

(***************************************************************************)
(* Each process runs, and an event loop handles every event that is        *)
(* pending.  Clients, faults and the waking of a sleeper are not fair.     *)
(***************************************************************************)
Fairness ==
  /\ WF_vars(\E c \in Conns : Accept(c))
  /\ WF_vars(Search)
  /\ WF_vars(SendFd \/ WriteId \/ CloseFd)
  /\ SF_vars(ChildCb)
  /\ \A w \in Wf :
       /\ WF_vars(WfStart(w) \/ WfReady(w) \/ WfExit(w))
       /\ SF_vars(CmmRead(w))
       /\ WF_vars(RecvFd(w) \/ CmmUnlock(w))
       /\ WF_vars(Lock(w) \/ LockWait(w) \/ SockClose(w))
       /\ \A s \in Slots : SF_vars(SockEvent(w, s))

FairSpec == Spec /\ Fairness
-----------------------------------------------------------------------------
(***************************************************************************)
(* Safety.                                                                 *)
(***************************************************************************)

(* The values every variable may have.                                     *)
TypeOK ==
  /\ client \in [Conns -> {"new", "open", "closed"}]
  /\ backlog \in SUBSET Conns
  /\ cpc \in CtrlPcs
  /\ cconn \in Conns \cup {NoFd}
  /\ wi \in 0 .. ProcNum
  /\ sj \in Slots \cup {0}
  /\ skipped \in SUBSET Wf
  /\ sigchld \in BOOLEAN
  /\ pid \in [Wf -> 0 .. ProcNum]
  /\ mutex \in [Wf -> {"free", "ctrl", "wf"}]
  /\ slot \in [Wf -> [Slots -> Fds]]
  /\ fdq \in [Wf -> Seq(Conns)]
  /\ pipe \in [Wf -> Seq(Slots)]
  /\ wpc \in [Wf -> WfPcs]
  /\ cur \in [Wf -> Slots \cup {0}]
  /\ bev \in [Wf -> [Slots -> Fds]]

(* The control process is between its trylock of worker w's mutex and the  *)
(* unlock, or the write that passes the duty to unlock to the worker.      *)
CtrlHolds(w) == cpc \in {"slots", "send", "write"} /\ wi = w

(* The activities that rely on having worker w's mutex.                    *)
Holders(w) ==
  {h \in {"search", "command", "take", "close"} :
     \/ h = "search"  /\ CtrlHolds(w)
     \/ h = "command" /\ pipe[w] # << >>
     \/ h = "take"    /\ wpc[w] \in {"recv", "unlock"}
     \/ h = "close"   /\ wpc[w] = "held"}

(* Mutual exclusion across the hand-over: the search of the control        *)
(* process, a slot number on its way to the worker, the worker taking it   *)
(* and the worker closing a connection never overlap on one worker, and    *)
(* while there is one of them the mutex is locked - though the process     *)
(* that unlocks it is not the one that locked it.                          *)
MutualExclusion ==
  \A w \in Wf :
    /\ \A g, h \in Holders(w) : g = h
    /\ Holders(w) # {} => mutex[w] # "free"

(* jmm_cmm_read_wf_cb "should never go here": a slot number that reaches a *)
(* worker names a slot that is free in the shared memory and has no        *)
(* bufferevent, and there is never a second number behind it.              *)
NeverGoHere ==
  \A w \in Wf :
    /\ pipe[w] # << >> =>
         /\ Len(pipe[w]) = 1
         /\ slot[w][Head(pipe[w])] = NoFd
         /\ ~Gone(w) => bev[w][Head(pipe[w])] = NoFd
    /\ wpc[w] = "recv" =>
         /\ slot[w][cur[w]] = NoFd
         /\ bev[w][cur[w]] = NoFd

(* The private table of bufferevents of a live worker and its slots in the *)
(* shared memory, which the control process goes by, tell the same.        *)
TablesAgree ==
  \A w \in Wf : ~Gone(w) => bev[w] = slot[w]

(* A slot in use is never given to another descriptor: it is emptied       *)
(* first, whatever the control process, the worker and deaths do.          *)
SlotNotOverwritten ==
  [][\A w \in Wf, s \in Slots :
       slot[w][s] # NoFd => slot'[w][s] \in {slot[w][s], NoFd}]_vars

(* With more than one worker, a connection is not refused because the      *)
(* mutex of the last worker was busy: that one is tried until it answers.  *)
LastWorkerInsisted ==
  cpc = "refuse" /\ ProcNum > 1 => ProcNum - 1 \notin skipped

(* A worker that waits for its mutex in jmm_sock_event_wf_cb while the     *)
(* mutex is locked for an assignment that only this worker can take: it    *)
(* waits for itself.                                                       *)
SelfDeadlock(w) ==
  wpc[w] = "asleep" /\ (pipe[w] # << >> \/ (CtrlHolds(w) /\ cpc = "write"))

(* No worker waits for itself.  True of PROC_SVR_NUM=1 (etc/jmm.conf): an  *)
(* assignment is only made to a worker without connections.                *)
NoSelfDeadlock == \A w \in Wf : ~SelfDeadlock(w)

-----------------------------------------------------------------------------
(***************************************************************************)
(* The inductive invariant behind the safety properties.                   *)
(***************************************************************************)

(* What the control process is working on exists, and the slot it found is *)
(* still free when it has sent the number of it.                           *)
CtrlOK ==
  /\ cpc # "loop" => cconn \in Conns
  /\ cpc \in {"slots", "send", "write"} => wi \in Wf
  /\ cpc \in {"send", "write"} => sj \in Slots /\ slot[wi][sj] = NoFd

(* At most one of the four uses of w's mutex, and only while it is locked. *)
Handling(w) == wpc[w] \in {"recv", "unlock", "held"}

LockAt(w) ==
  /\ CtrlHolds(w) => pipe[w] = << >> /\ ~Handling(w)
  /\ pipe[w] # << >> => Len(pipe[w]) = 1 /\ ~Handling(w)
  /\ CtrlHolds(w) \/ pipe[w] # << >> \/ Handling(w) => mutex[w] # "free"

LockOK == \A w \in Wf : LockAt(w)

(* The slots that are spoken of are free or in use as they should be.      *)
SlotAt(w) ==
  /\ pipe[w] # << >> => slot[w][Head(pipe[w])] = NoFd
  /\ wpc[w] = "recv" => cur[w] \in Slots /\ slot[w][cur[w]] = NoFd
  /\ wpc[w] \in {"lock", "asleep", "held"} =>
       cur[w] \in Slots /\ slot[w][cur[w]] # NoFd

SlotOK == \A w \in Wf : SlotAt(w)

(* While a search runs no process is reaped, so that a worker passed over  *)
(* as busy is still in the pool.                                           *)
ScanOK ==
  /\ cpc # "loop" => \A w \in skipped : pid[w] # 0
  /\ cpc = "slots" => wi \notin skipped
  /\ (cpc = "refuse" \/ (cpc = "scan" /\ wi = ProcNum)) /\ ProcNum > 1
       => ProcNum - 1 \notin skipped

(* The inductive invariant: the parts above and what TablesAgree says.     *)
PoolInv == TypeOK /\ CtrlOK /\ LockOK /\ SlotOK /\ TablesAgree /\ ScanOK

(* A descriptor in the socketpair of w is the only one there, and the      *)
(* mutex is locked for it: by the control process, which has its slot      *)
(* number still to write, for the number in the pipe, or for the worker    *)
(* that has read the number or died on the way.                            *)
QueueAt(w) ==
  /\ fdq[w] # << >> =>
       /\ Len(fdq[w]) = 1
       /\ mutex[w] # "free"
       /\ \/ CtrlHolds(w) /\ cpc = "write"
          \/ pipe[w] # << >>
          \/ wpc[w] = "recv"
          \/ Gone(w)
  /\ (CtrlHolds(w) /\ cpc # "write") \/ wpc[w] \in {"unlock", "held"}
       => fdq[w] = << >>
  /\ Gone(w) => \A s \in Slots : bev[w][s] = NoFd

QueueOK == \A w \in Wf : QueueAt(w)

Queued(c, w) == fdq[w] # << >> /\ Head(fdq[w]) = c

Served(c, w, s) == bev[w][s] = c

(* A connection is in one place at a time: with its client, in the         *)
(* backlog, in the hands of the listener, in one socketpair or in one slot.*)
ConnAt(c) ==
  /\ client[c] = "new" \/ c \in backlog => cconn # c
  /\ client[c] = "new" => c \notin backlog
  /\ \/ client[c] = "new" \/ c \in backlog
     \/ cconn = c /\ cpc \in {"scan", "slots", "send", "refuse"}
     => \A w \in Wf : ~Queued(c, w) /\ \A s \in Slots : ~Served(c, w, s)
  /\ \A w \in Wf : Queued(c, w) =>
       \A v \in Wf : (Queued(c, v) => v = w) /\ \A s \in Slots : ~Served(c, v, s)
  /\ \A w \in Wf, s \in Slots : Served(c, w, s) =>
       \A v \in Wf, r \in Slots : Served(c, v, r) => v = w /\ r = s

ConnOK == \A c \in Conns : ConnAt(c)

(* What the implementation of ConnDispatch needs: PoolInv, and where the   *)
(* connections and their descriptors are.                                  *)
HandInv == PoolInv /\ QueueOK /\ ConnOK

-----------------------------------------------------------------------------
(***************************************************************************)
(* The abstract view: JmmPool implements ConnDispatch.                     *)
(***************************************************************************)

(* The connection is on its way to worker w.                               *)
Sent(c, w) ==
  \/ cpc = "send" /\ cconn = c /\ wi = w
  \/ \E i \in 1 .. Len(fdq[w]) : fdq[w][i] = c

(* The slot the connection on its way to worker w was found for.           *)
Target(w) ==
  IF cpc \in {"send", "write"} /\ wi = w THEN sj
  ELSE IF pipe[w] # << >> THEN Head(pipe[w])
  ELSE cur[w]

Stage(c) ==
  IF client[c] = "new" THEN "new"
  ELSE IF c \in backlog THEN "waiting"
  ELSE IF cconn = c /\ cpc \in {"scan", "slots", "refuse"} THEN "held"
  ELSE IF \E w \in Wf : Sent(c, w) THEN "bound"
  ELSE IF \E w \in Wf, s \in Slots : bev[w][s] = c THEN "served"
  ELSE "closed"

NoPlace == <<ProcNum, SlotNum>>

Place(c) ==
  LET stage == Stage(c)
      to == CHOOSE w \in Wf : Sent(c, w)
  IN CASE stage = "bound" -> <<to, Target(to)>>
       [] stage = "served" -> CHOOSE p \in Wf \X Slots : bev[p[1]][p[2]] = c
       [] OTHER -> NoPlace

Dispatch == INSTANCE ConnDispatch WITH
  Places <- Wf \X Slots,
  st <- [c \in Conns |-> Stage(c)],
  at <- [c \in Conns |-> Place(c)]

(* Each connection is refused, or bound to a slot no other connection is   *)
(* bound to and served in that very slot, although its descriptor and the  *)
(* slot number reach the worker through two different channels.            *)
ImplementsDispatch == Dispatch!DispatchSpec

-----------------------------------------------------------------------------
(***************************************************************************)
(* What comments of the source say of the program, and TLC refutes.        *)
(***************************************************************************)

(* jmm_proc.c:56 and jmm_event.c:319: the worker opens the lock its parent *)
(* left locked for it.                                                     *)
ChildUnlocks ==
  \A w \in Wf : pipe[w] # << >> ~> mutex[w] = "free"

(* jmm_proc.c:40 and 47: a dead worker is passed over and a locked one     *)
(* tried later, so that the search for a worker ends.                      *)
SearchEnds == cpc = "scan" ~> cpc # "scan" /\ cpc # "slots"

(* jmm_shm.h:27: the mutex synchronises the processes, so a worker that    *)
(* waits for it gets it.                                                   *)
WaiterGetsMutex == \A w \in Wf : wpc[w] = "lock" ~> wpc[w] = "held"
=============================================================================
