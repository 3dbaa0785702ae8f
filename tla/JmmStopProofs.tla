--------------------------- MODULE JmmStopProofs ----------------------------
(***************************************************************************)
(* The stop of the pool at work, for any number of workers, slots and      *)
(* connections and any set of failures.  StopInv is inductive: HandInv of  *)
(* JmmPool, which survives what the stop does to the processes, and what   *)
(* is left of the workers that its loops have passed.                      *)
(***************************************************************************)
EXTENDS JmmStop, JmmPoolProofs

LEMMA Stop_Init == StopInit => StopInv
<1> SUFFICES ASSUME StopInit PROVE StopInv
  OBVIOUS
<1>1. HandInv
  BY Init_Inv, Queue_Init, Conn_Init DEF HandInv, StopInit
<1>2. StopTypeOK /\ StopAt
  <2>1. sigint \in [Wf -> {"none", "sent", "seen"}] /\ shut = {}
    BY DEF StopInit
  <2>2. cpc = "loop" /\ cconn = NoFd /\ 0 \in 0 .. ProcNum
    BY PoolAssumption DEF StopInit, Init
  <2> QED
    BY <2>1, <2>2 DEF StopInit, StopTypeOK, StopAt
<1>3. \A w \in Wf : Left(w)
  BY DEF StopInit, Init, Left
<1>4. LeftOK
  BY <1>3 DEF StopInit, Init, LeftOK
<1> QED
  BY <1>1, <1>2, <1>4 DEF StopInv

-----------------------------------------------------------------------------
(* HandInv in the steps that are the stop's own.                           *)

(* A signal ends a process, or its event loop.                             *)
LEMMA Hand_End ==
  ASSUME HandInv, NEW w \in Wf, ~Gone(w), Die(w) \/ LoopBreak(w)
  PROVE  HandInv'
<1>0. PoolInv /\ TypeOK /\ QueueOK /\ ConnOK
  BY DEF HandInv, PoolInv
<1>1. PoolInv'
  BY <1>0, Start_Inv
<1>2. \A v \in Wf : QueueAt(v)'
  <2>1. CASE Die(w)
    BY <1>0, <2>1
    DEF Die, QueueOK, QueueAt, CtrlHolds, Gone, ctrlVars, chanVars, TypeOK
  <2>2. CASE LoopBreak(w)
    BY <1>0, <2>2
    DEF LoopBreak, QueueOK, QueueAt, CtrlHolds, Gone, ctrlVars, chanVars, TypeOK
  <2> QED
    BY <2>1, <2>2
<1>3. \A e \in Conns : ConnAt(e)'
  <2> SUFFICES ASSUME NEW e \in Conns PROVE ConnAt(e)'
    OBVIOUS
  <2>1. \A v \in Wf, s \in Slots : Served(e, v, s)' => Served(e, v, s)
    <3>1. CASE Die(w)
      BY <1>0, <3>1, PoolAssumption DEF Die, Served, TypeOK
    <3>2. CASE LoopBreak(w)
      BY <3>2 DEF LoopBreak, Served
    <3> QED
      BY <3>1, <3>2
  <2>2. \A v \in Wf : Queued(e, v)' <=> Queued(e, v)
    BY DEF Die, LoopBreak, Queued, chanVars
  <2>3. client' = client /\ backlog' = backlog /\ cconn' = cconn /\ cpc' = cpc
    BY DEF Die, LoopBreak, clientVars, ctrlVars
  <2> QED
    BY <1>0, <2>1, <2>2, <2>3 DEF ConnOK, ConnAt
<1> QED
  BY <1>1, <1>2, <1>3 DEF HandInv, QueueOK, ConnOK

(* An interrupted wait for the mutex is tried again.                       *)
LEMMA Hand_Wake ==
  ASSUME HandInv, NEW w \in Wf, IntWakes(w)
  PROVE  HandInv'
<1>0. PoolInv /\ TypeOK /\ QueueOK /\ ConnOK
  BY DEF HandInv, PoolInv
<1>1. TypeOK'
  BY <1>0 DEF IntWakes, TypeOK, WfPcs, clientVars, ctrlVars, chanVars
<1>2. CtrlOK' /\ ScanOK'
  BY <1>0 DEF IntWakes, PoolInv, CtrlOK, ScanOK, ctrlVars
<1>3. \A v \in Wf : LockAt(v)' /\ SlotAt(v)'
  BY <1>0
  DEF IntWakes, PoolInv, LockOK, LockAt, SlotOK, SlotAt, CtrlHolds, Handling,
      ctrlVars, chanVars, TypeOK
<1>4. TablesAgree'
  BY <1>0 DEF IntWakes, PoolInv, TablesAgree, Gone, TypeOK
<1>5. \A v \in Wf : QueueAt(v)'
  BY <1>0
  DEF IntWakes, QueueOK, QueueAt, CtrlHolds, Gone, ctrlVars, chanVars, TypeOK
<1>6. ConnOK'
  BY <1>0
  DEF IntWakes, ConnOK, ConnAt, Queued, Served, clientVars, ctrlVars, chanVars
<1> QED
  BY <1>1, <1>2, <1>3, <1>4, <1>5, <1>6
  DEF HandInv, PoolInv, LockOK, SlotOK, QueueOK

(* The control process in its loops: a dead worker is waited for, a worker *)
(* leaves the pool and its channels are closed, the listener is freed.     *)
LEMMA Hand_Stop ==
  ASSUME StopInv, Stop
  PROVE  HandInv'
<1>0. HandInv /\ PoolInv /\ TypeOK /\ QueueOK /\ ConnOK /\ StopAt /\ StopTypeOK
  BY DEF StopInv, HandInv, PoolInv
<1>1. ASSUME UNCHANGED vars PROVE HandInv'
  BY <1>0, <1>1, Hand_Next
<1>2. CASE Terminate
  <2>1. TypeOK' /\ CtrlOK' /\ ScanOK'
    BY <1>0, <1>2, PoolAssumption
    DEF Terminate, PoolInv, TypeOK, CtrlOK, ScanOK, clientVars, chanVars, wfVars
  <2>2. LockOK' /\ SlotOK' /\ TablesAgree'
    BY <1>0, <1>2
    DEF Terminate, PoolInv, LockOK, LockAt, SlotOK, SlotAt, TablesAgree,
        CtrlHolds, Handling, Gone, chanVars, wfVars
  <2>3. QueueOK' /\ ConnOK'
    BY <1>0, <1>2
    DEF Terminate, QueueOK, QueueAt, ConnOK, ConnAt, CtrlHolds, Gone, Queued,
        Served, clientVars, chanVars, wfVars
  <2> QED
    BY <2>1, <2>2, <2>3 DEF HandInv, PoolInv
<1>3. CASE WaitWf
  <2>0. wpc' = [wpc EXCEPT ![k] = "reaped"] /\ k \in Wf /\ wpc[k] = "dead"
    BY <1>0, <1>3, PoolAssumption DEF WaitWf, StopAt, StopTypeOK, Wf
  <2>1. TypeOK' /\ CtrlOK' /\ ScanOK'
    BY <1>0, <1>3, <2>0
    DEF WaitWf, PoolInv, TypeOK, CtrlOK, ScanOK, WfPcs, clientVars, ctrlVars,
        chanVars
  <2>2. \A v \in Wf : LockAt(v)' /\ SlotAt(v)'
    BY <1>0, <1>3, <2>0
    DEF WaitWf, PoolInv, LockOK, LockAt, SlotOK, SlotAt, CtrlHolds, Handling,
        ctrlVars, chanVars, TypeOK
  <2>3. TablesAgree'
    BY <1>0, <1>3, <2>0 DEF WaitWf, PoolInv, TablesAgree, Gone, TypeOK
  <2>4. \A v \in Wf : QueueAt(v)'
    BY <1>0, <1>3, <2>0
    DEF WaitWf, QueueOK, QueueAt, CtrlHolds, Gone, ctrlVars, chanVars, TypeOK
  <2>5. ConnOK'
    BY <1>0, <1>3
    DEF WaitWf, ConnOK, ConnAt, Queued, Served, clientVars, ctrlVars, chanVars
  <2> QED
    BY <2>1, <2>2, <2>3, <2>4, <2>5
    DEF HandInv, PoolInv, LockOK, SlotOK, QueueOK
<1>4. CASE ClearWf
  <2>0. k \in Wf /\ cpc = "loop" /\ cpc' = "loop"
    BY <1>0, <1>4, PoolAssumption
    DEF ClearWf, StopAt, StopTypeOK, Wf, ctrlVars
  <2>1. TypeOK'
    <3>1. pid' \in [Wf -> 0 .. ProcNum]
      BY <1>0, <1>4, <2>0, PoolAssumption DEF ClearWf, TypeOK
    <3> QED
      BY <1>0, <1>4, <3>1
      DEF ClearWf, TypeOK, clientVars, ctrlVars, chanVars, wfVars
  <2>2. CtrlOK' /\ ScanOK'
    BY <1>0, <1>4, <2>0 DEF ClearWf, CtrlOK, ScanOK
  <2>3. \A v \in Wf : LockAt(v)' /\ SlotAt(v)'
    BY <1>0, <1>4
    DEF ClearWf, PoolInv, LockOK, LockAt, SlotOK, SlotAt, CtrlHolds, Handling,
        ctrlVars, chanVars, wfVars
  <2>4. TablesAgree'
    BY <1>0, <1>4 DEF ClearWf, PoolInv, TablesAgree, Gone, wfVars
  <2>5. \A v \in Wf : QueueAt(v)'
    BY <1>0, <1>4
    DEF ClearWf, QueueOK, QueueAt, CtrlHolds, Gone, ctrlVars, chanVars, wfVars
  <2>6. ConnOK'
    BY <1>0, <1>4
    DEF ClearWf, ConnOK, ConnAt, Queued, Served, clientVars, ctrlVars, chanVars,
        wfVars
  <2> QED
    BY <2>1, <2>2, <2>3, <2>4, <2>5, <2>6
    DEF HandInv, PoolInv, LockOK, SlotOK, QueueOK
<1>5. CASE LeaveLoop
  <2>1. TypeOK' /\ CtrlOK' /\ ScanOK'
    BY <1>0, <1>5
    DEF LeaveLoop, PoolInv, TypeOK, CtrlOK, ScanOK, ctrlVars, chanVars, wfVars
  <2>2. LockOK' /\ SlotOK' /\ TablesAgree'
    BY <1>0, <1>5
    DEF LeaveLoop, PoolInv, LockOK, LockAt, SlotOK, SlotAt, TablesAgree,
        CtrlHolds, Handling, Gone, ctrlVars, chanVars, wfVars
  <2>3. QueueOK' /\ ConnOK'
    BY <1>0, <1>5
    DEF LeaveLoop, QueueOK, QueueAt, ConnOK, ConnAt, CtrlHolds, Gone, Queued,
        Served, ctrlVars, chanVars, wfVars
  <2> QED
    BY <2>1, <2>2, <2>3 DEF HandInv, PoolInv
<1> QED
  BY <1>1, <1>2, <1>3, <1>4, <1>5 DEF Stop, EndWf, PassWf, Reaped

LEMMA Stop_Hand ==
  ASSUME StopInv, [StopNext]_allVars
  PROVE  HandInv'
<1>0. HandInv
  BY DEF StopInv
<1>1. ASSUME NEW w \in Wf, Interrupted(w) PROVE HandInv'
  <2>1. CASE IntKills(w)
    BY <1>0, <2>1, Hand_End DEF IntKills, Gone
  <2>2. CASE IntBreaks(w)
    BY <1>0, <2>2, Hand_End DEF IntBreaks, LoopBreak, Gone
  <2> QED
    BY <1>0, <1>1, <2>1, <2>2, Hand_Wake DEF Interrupted
<1>2. CASE [Next]_vars
  BY <1>0, <1>2, Hand_Next
<1> QED
  BY <1>1, <1>2, Hand_Stop DEF StopNext, AtWork, Signal, allVars

-----------------------------------------------------------------------------
(* Where the stop is.                                                      *)
LEMMA Stop_At ==
  ASSUME StopInv, [StopNext]_allVars
  PROVE  StopTypeOK' /\ StopAt'
<1>0. StopTypeOK /\ StopAt
  BY DEF StopInv
<1>1. ASSUME AtWork PROVE StopTypeOK' /\ StopAt'
  <2>1. StopTypeOK'
    BY <1>0, <1>1 DEF AtWork, StopTypeOK, stopVars
  <2>2. spc # "run" => cpc' = cpc /\ cconn' = cconn
    BY <1>1 DEF AtWork, ctrlVars
  <2>3. cpc' = "loop" => cconn' = NoFd
    <3>1. \/ cpc' = cpc /\ cconn' = cconn
          \/ cpc' # "loop"
          \/ cconn' = NoFd
      BY <1>1
      DEF AtWork, Next, Worker, Search, Assign, Connect, Disconnect, Accept,
          ScanDead, ScanBusy, ScanLock, SlotsFull, SlotFound, ScanFail,
          SendFd, SendFdFails, WriteId, CloseFd, ChildCb, WfStart, WfReady,
          Die, WfInitFails, WfKilled, CtrlCWf, ServiceFatal, LoopBreak,
          WfExit, CmmRead, RecvFd, RecvFdFails, Install, CmmUnlock, Lock,
          Acquire, LockWait, FutexRetry, SockEvent, SockClose, ctrlVars
    <3> QED
      BY <1>0, <3>1 DEF StopAt
  <2>4. spc \in {"reap", "down"} => backlog' = backlog
    BY <1>1 DEF AtWork
  <2> QED
    BY <1>0, <1>1, <2>1, <2>2, <2>3, <2>4 DEF AtWork, StopAt, stopVars
<1>2. ASSUME Stop PROVE StopTypeOK' /\ StopAt'
  <2>1. CASE Terminate
    BY <1>0, <2>1, PoolAssumption DEF Terminate, StopTypeOK, StopAt
  <2>2. CASE EndWf \/ PassWf
    BY <1>0, <2>2, PoolAssumption
    DEF EndWf, PassWf, AtCheck, StopTypeOK, StopAt, vars, clientVars, ctrlVars
  <2>3. CASE WaitWf
    BY <1>0, <2>3 DEF WaitWf, StopTypeOK, StopAt, clientVars, ctrlVars
  <2>4. CASE ClearWf
    <3>1. k \in Wf /\ spc # "down" /\ k' = k + 1 /\ k \in Nat
      BY <1>0, <2>4, PoolAssumption DEF ClearWf, StopTypeOK, StopAt, Wf
    <3>2. shut' \in SUBSET Wf
      BY <1>0, <2>4, <3>1 DEF ClearWf, StopTypeOK
    <3>3. spc' \in {"reap", "down"} => \A w \in Wf : w < k' => w \in shut'
      <4> SUFFICES ASSUME spc = "reap", NEW w \in Wf, w < k + 1
                   PROVE  w \in shut'
        BY <2>4, <3>1 DEF ClearWf
      <4>1. w < k \/ w = k
        BY <3>1 DEF Wf
      <4> QED
        BY <1>0, <2>4, <4>1 DEF ClearWf, StopAt
    <3> QED
      BY <1>0, <2>4, <3>1, <3>2, <3>3, PoolAssumption
      DEF ClearWf, StopTypeOK, StopAt, clientVars, ctrlVars
  <2>5. CASE LeaveLoop
    <3>1. \A w \in Wf : ~(w < 0)
      BY DEF Wf
    <3> QED
      BY <1>0, <2>5, <3>1, PoolAssumption
      DEF LeaveLoop, StopTypeOK, StopAt, clientVars, ctrlVars
  <2>6. CASE Reaped
    BY <1>0, <2>6, PoolAssumption
    DEF Reaped, StopTypeOK, StopAt, vars, clientVars, ctrlVars
  <2> QED
    BY <1>2, <2>1, <2>2, <2>3, <2>4, <2>5, <2>6 DEF Stop
<1>3. ASSUME NEW w \in Wf, Interrupted(w) PROVE StopTypeOK' /\ StopAt'
  BY <1>0, <1>3
  DEF Interrupted, IntKills, IntBreaks, IntWakes, Die, LoopBreak, StopTypeOK,
      StopAt, stopVars, clientVars, ctrlVars
<1>4. CASE Signal
  <2>1. sigint' \in [Wf -> {"none", "sent", "seen"}]
    BY <1>0, <1>4 DEF Signal, StopTypeOK
  <2> QED
    BY <1>0, <1>4, <2>1
    DEF Signal, StopTypeOK, StopAt, vars, clientVars, ctrlVars
<1>5. CASE UNCHANGED allVars
  BY <1>0, <1>5
  DEF StopTypeOK, StopAt, allVars, stopVars, vars, clientVars, ctrlVars
<1> QED
  BY <1>1, <1>2, <1>3, <1>4, <1>5 DEF StopNext

(* A worker that is left stays so, whatever it and the others do, as long  *)
(* as no descriptor is sent to it.                                         *)
LEMMA Stays_Left ==
  ASSUME PoolInv, NEW w \in Wf, Left(w), Next, SendFd => wi # w
  PROVE  Left(w)'
<1> USE PoolAssumption
<1>0. TypeOK
  BY DEF PoolInv
<1>1. ASSUME NEW c \in Conns, Connect(c) \/ Disconnect(c) \/ Accept(c)
      PROVE  Left(w)'
  BY <1>1 DEF Connect, Disconnect, Accept, Left, Gone, chanVars, wfVars
<1>2. ASSUME Search PROVE Left(w)'
  BY <1>2
  DEF Search, ScanDead, ScanBusy, ScanLock, SlotsFull, SlotFound, ScanFail,
      Left, Gone, chanVars, wfVars
<1>3. ASSUME Assign PROVE Left(w)'
  <2>1. CASE SendFd
    BY <1>0, <2>1 DEF SendFd, Left, Gone, TypeOK, wfVars
  <2> QED
    BY <1>3, <2>1
    DEF Assign, SendFdFails, WriteId, CloseFd, Left, Gone, chanVars, wfVars
<1>4. ASSUME ChildCb PROVE Left(w)'
  BY <1>0, <1>4 DEF ChildCb, Left, Gone, chanVars
<1>5. ASSUME NEW v \in Wf,
             \/ WfStart(v) \/ WfReady(v) \/ LoopBreak(v) \/ LockWait(v)
             \/ CmmRead(v) \/ CmmUnlock(v)
             \/ (wpc[v] \in {"lock", "asleep"} /\ Acquire(v))
             \/ \E s \in Slots : SockEvent(v, s)
      PROVE  Left(w)'
  BY <1>0, <1>5
  DEF WfStart, WfReady, LoopBreak, LockWait, CmmRead, CmmUnlock, Acquire,
      SockEvent, Left, Gone, TypeOK, chanVars
<1>6. ASSUME NEW v \in Wf, Die(v) PROVE Left(w)'
  BY <1>0, <1>6 DEF Die, Left, Gone, TypeOK, chanVars
<1>7. ASSUME NEW v \in Wf, SockClose(v) PROVE Left(w)'
  BY <1>0, <1>7 DEF SockClose, Left, Gone, TypeOK, chanVars
<1>8. ASSUME NEW v \in Wf, NEW fd, wpc[v] = "recv", fdq[v] # << >>,
             Install(v, fd)
      PROVE  Left(w)'
  <2>1. v # w
    BY <1>8 DEF Left, Gone
  <2> QED
    BY <1>0, <1>8, <2>1 DEF Install, Left, Gone, TypeOK
<1> QED
  BY <1>1, <1>2, <1>3, <1>4, <1>5, <1>6, <1>7, <1>8
  DEF Next, Worker, WfInitFails, WfKilled, WfExit, CtrlCWf, ServiceFatal,
      RecvFd, RecvFdFails, Lock, FutexRetry

(* The pool at work takes no worker from the pool but those it waited for, *)
(* and sends only to workers that are in it.                               *)
LEMMA Left_Work ==
  ASSUME StopInv, AtWork
  PROVE  LeftOK'
<1>0. /\ PoolInv /\ TypeOK /\ CtrlOK /\ StopTypeOK /\ StopAt /\ LeftOK /\ Next
      /\ UNCHANGED <<spc, step, k>>
  BY DEF StopInv, HandInv, PoolInv, AtWork, stopVars
<1> USE PoolAssumption
<1>1. SendFd => cpc = "send" /\ wi \in Wf /\ pid[wi] # 0 /\ spc = "run"
  BY <1>0 DEF SendFd, CtrlOK, StopAt, LeftOK
<1>2. \A w \in Wf : Left(w) /\ (SendFd => wi # w) => Left(w)'
  BY <1>0, Stays_Left
<1> DEFINE InPool ==
      /\ cpc' \in {"slots", "send"} => pid'[wi'] # 0
      /\ \A w \in Wf : pid'[w] = 0 => pid[w] = 0 \/ Gone(w)'
<1>3. InPool
  <2>1. ASSUME UNCHANGED pid,
               \/ cpc' \notin {"slots", "send"}
               \/ cpc \in {"slots", "send"} /\ wi' = wi
               \/ pid[wi'] # 0
        PROVE  InPool
    BY <1>0, <2>1 DEF LeftOK
  <2>2. CASE ChildCb
    BY <1>0, <2>2 DEF ChildCb, ctrlVars, Gone, TypeOK
  <2>3. ASSUME NEW v \in Wf, WfStart(v)
        PROVE  InPool
    <3>1. Pid(v) # 0
      BY DEF Pid, Wf
    <3>2. cpc \in {"slots", "send"} => wi \in Wf
      BY <1>0 DEF CtrlOK
    <3> QED
      BY <1>0, <2>3, <3>1, <3>2 DEF WfStart, LeftOK, ctrlVars, TypeOK
  <2>4. ASSUME NEW c \in Conns, Connect(c) \/ Disconnect(c) \/ Accept(c)
        PROVE  /\ UNCHANGED pid
               /\ \/ cpc' \notin {"slots", "send"}
                  \/ cpc \in {"slots", "send"} /\ wi' = wi
    BY <2>4 DEF Connect, Disconnect, Accept, ctrlVars
  <2>5. ASSUME Search \/ Assign
        PROVE  /\ UNCHANGED pid
               /\ \/ cpc' \notin {"slots", "send"}
                  \/ cpc \in {"slots", "send"} /\ wi' = wi
                  \/ pid[wi'] # 0
    BY <2>5
    DEF Search, Assign, ScanDead, ScanBusy, ScanLock, SlotsFull, SlotFound,
        ScanFail, SendFd, SendFdFails, WriteId, CloseFd
  <2>6. ASSUME NEW v \in Wf,
               \/ WfReady(v) \/ LoopBreak(v) \/ LockWait(v) \/ CmmRead(v)
               \/ CmmUnlock(v) \/ Acquire(v) \/ Die(v) \/ SockClose(v)
               \/ RecvFd(v) \/ RecvFdFails(v) \/ \E s \in Slots : SockEvent(v, s)
        PROVE  UNCHANGED pid /\ UNCHANGED ctrlVars
    BY <2>6
    DEF WfReady, LoopBreak, LockWait, CmmRead, CmmUnlock, Acquire, Die,
        SockClose, SockEvent, RecvFd, RecvFdFails, Install
  <2>7. ASSUME NEW v \in Wf,
               \/ WfReady(v) \/ LoopBreak(v) \/ LockWait(v) \/ CmmRead(v)
               \/ CmmUnlock(v) \/ Acquire(v) \/ Die(v) \/ SockClose(v)
               \/ RecvFd(v) \/ RecvFdFails(v) \/ \E s \in Slots : SockEvent(v, s)
        PROVE  InPool
    BY <2>1, <2>6, <2>7 DEF ctrlVars
  <2>8. ASSUME \/ \E c \in Conns : Connect(c) \/ Disconnect(c) \/ Accept(c)
               \/ Search \/ Assign
        PROVE  InPool
    BY <2>1, <2>4, <2>5, <2>8
  <2> QED
    BY <1>0, <2>2, <2>3, <2>7, <2>8
    DEF Next, Worker, WfInitFails, WfKilled, WfExit, CtrlCWf, ServiceFatal,
        Lock, FutexRetry
<1>4. step = "check" \/ k \in Wf
  BY <1>0 DEF StopTypeOK, StopAt, Wf
<1>5. step' = "clear" => Left(k)'
  BY <1>0, <1>1, <1>2, <1>4 DEF LeftOK, StopAt
<1>6. ASSUME NEW w \in Wf
      PROVE  /\ pid'[w] = 0 => Left(w)'
             /\ spc' \in {"reap", "down"} /\ w < k' => Left(w)'
  BY <1>0, <1>1, <1>2, <1>3 DEF LeftOK, Left, StopAt
<1> QED
  BY <1>3, <1>5, <1>6 DEF LeftOK

(* So do the loops of the stop and the signals.                            *)
LEMMA Left_Stop ==
  ASSUME StopInv, Stop
  PROVE  LeftOK'
<1>0. TypeOK /\ StopTypeOK /\ StopAt /\ LeftOK
  BY DEF StopInv, HandInv, PoolInv
<1> USE PoolAssumption
<1>1. CASE Terminate
  BY <1>0, <1>1 DEF Terminate, LeftOK, StopAt, Left, Gone, chanVars, wfVars
<1>2. CASE EndWf
  BY <1>0, <1>2
  DEF EndWf, LeftOK, Left, Gone, vars, ctrlVars, chanVars, wfVars
<1>3. CASE PassWf
  <2>1. k \in Wf
    BY <1>0, <1>3 DEF PassWf, AtCheck, StopTypeOK, Wf
  <2> QED
    BY <1>0, <1>3, <2>1
    DEF PassWf, LeftOK, Left, Gone, vars, ctrlVars, chanVars, wfVars
<1>4. CASE WaitWf
  <2>1. k \in Wf
    BY <1>0, <1>4 DEF WaitWf, StopAt, StopTypeOK, Wf
  <2>2. \A w \in Wf : (Left(w) => Left(w)') /\ Left(k)'
    BY <1>0, <1>4, <2>1 DEF WaitWf, Left, Gone, TypeOK, chanVars
  <2> QED
    BY <1>0, <1>4, <2>1, <2>2 DEF WaitWf, LeftOK, ctrlVars, chanVars
<1>5. CASE ClearWf
  <2>1. k \in Wf /\ Left(k) /\ cpc = "loop"
    BY <1>0, <1>5 DEF ClearWf, StopAt, StopTypeOK, LeftOK, Wf
  <2>2. \A w \in Wf : Left(w) => Left(w)'
    BY <1>5 DEF ClearWf, Left, Gone, chanVars, wfVars
  <2>3. \A w \in Wf : w < k + 1 => w < k \/ w = k
    BY <1>0 DEF Wf, StopTypeOK
  <2>4. spc # "down"
    BY <1>0, <1>5 DEF ClearWf, StopAt
  <2> QED
    BY <1>0, <1>5, <2>1, <2>2, <2>3, <2>4
    DEF ClearWf, LeftOK, ctrlVars, TypeOK
<1>6. CASE LeaveLoop
  <2>1. \A w \in Wf : ~(w < 0)
    BY DEF Wf
  <2> QED
    BY <1>0, <1>6, <2>1
    DEF LeaveLoop, LeftOK, StopAt, Left, Gone, ctrlVars, chanVars, wfVars
<1>7. CASE Reaped
  BY <1>0, <1>7
  DEF Reaped, LeftOK, Left, Gone, vars, ctrlVars, chanVars, wfVars
<1> QED
  BY <1>1, <1>2, <1>3, <1>4, <1>5, <1>6, <1>7 DEF Stop

LEMMA Left_Signals ==
  ASSUME StopInv, Signal \/ \E w \in Wf : Interrupted(w)
  PROVE  LeftOK'
<1>0. TypeOK /\ LeftOK /\ StopTypeOK /\ StopAt
  BY DEF StopInv, HandInv, PoolInv
<1>1. \A w \in Wf : Left(w) => Left(w)'
  BY <1>0
  DEF Signal, Interrupted, IntKills, IntBreaks, IntWakes, Die, LoopBreak, Left,
      Gone, TypeOK, vars, chanVars, wfVars
<1>2. UNCHANGED <<spc, step, k, pid, cpc, wi, fdq>>
  BY DEF Signal, Interrupted, IntKills, IntBreaks, IntWakes, Die, LoopBreak,
         vars, stopVars, ctrlVars, chanVars
<1>3. step = "clear" => k \in Wf
  BY <1>0, PoolAssumption DEF StopTypeOK, StopAt, Wf
<1> QED
  BY <1>0, <1>1, <1>2, <1>3 DEF LeftOK

LEMMA Stop_Next == StopInv /\ [StopNext]_allVars => StopInv'
<1> SUFFICES ASSUME StopInv, [StopNext]_allVars PROVE StopInv'
  OBVIOUS
<1>1. ASSUME UNCHANGED allVars PROVE LeftOK'
  BY <1>1
  DEF StopInv, LeftOK, Left, Gone, allVars, stopVars, vars, ctrlVars, chanVars,
      wfVars
<1>2. LeftOK'
  BY <1>1, Left_Work, Left_Stop, Left_Signals DEF StopNext, StopInv
<1> QED
  BY <1>2, Stop_Hand, Stop_At DEF StopInv

-----------------------------------------------------------------------------
(* The hand-over keeps its discipline when the pool is told to stop in the *)
(* middle of it, and the loops of the stop pass no worker that still has   *)
(* something to do.                                                        *)
THEOREM StopSafe == StopSpec => []StopInv
<1>1. StopInit => StopInv
  BY Stop_Init
<1>2. StopInv /\ [StopNext]_allVars => StopInv'
  BY Stop_Next
<1> QED
  BY <1>1, <1>2, PTL DEF StopSpec

(* When jmm_uninit_proc is over, every connection has been closed, in the  *)
(* listener's queue, with its worker or with the last process that had its *)
(* channel, except those a late worker keeps open in the channel of one    *)
(* that ended before (jmm_event.c:99-124, 163-197, 215-234,                *)
(* jmm_proc.c:94-116, 134-153).                                            *)
THEOREM StopLeavesStranded == StopSpec => []OnlyStrandedLeft
<1>1. StopInv => OnlyStrandedLeft
  <2> SUFFICES ASSUME StopInv, spc = "down", NEW c \in Conns, client[c] # "new",
                      ~Lost(c), ~Stranded(c)
               PROVE  Stage(c) = "closed"
    BY DEF OnlyStrandedLeft, Stage
  <2>1. backlog = {} /\ cpc = "loop" /\ cconn = NoFd /\ c # NoFd
    BY PoolAssumption DEF StopInv, StopAt
  <2>2. \A w \in Wf : Left(w) /\ w \in shut
    <3>1. \A w \in Wf : w < k
      BY PoolAssumption DEF StopInv, StopAt, StopTypeOK, Wf
    <3> QED
      BY <3>1 DEF StopInv, StopAt, LeftOK
  <2>3. ASSUME NEW v \in Wf PROVE ~InChannel(c, v)
    <3>1. CASE ~Gone(v)
      BY <2>2, <3>1 DEF Left, InChannel
    <3>2. CASE Gone(v)
      <4> SUFFICES ASSUME InChannel(c, v) PROVE FALSE
        OBVIOUS
      <4>1. PICK w \in v .. (ProcNum - 1) : ~Gone(w)
        BY <2>2 DEF Lost, ChannelOpen
      <4>2. w \in Wf /\ v < w
        BY <3>2, <4>1, PoolAssumption DEF Wf
      <4> QED
        BY <3>2, <4>1, <4>2 DEF Stranded
    <3> QED
      BY <3>1, <3>2
  <2>4. \A w \in Wf : ~Sent(c, w) /\ \A s \in Slots : bev[w][s] # c
    BY <2>1, <2>2, <2>3
    DEF Sent, InChannel, Left, StopInv, HandInv, QueueOK, QueueAt
  <2> QED
    BY <2>1, <2>4 DEF Stage
<1> QED
  BY <1>1, StopSafe, PTL

(* The safety of the hand-over while the pool is being stopped: locks,     *)
(* slot numbers and tables are as they are when it is at work.             *)
THEOREM StopKeepsOrder ==
  StopSpec => [](MutualExclusion /\ NeverGoHere /\ TablesAgree)
<1>1. StopInv => PoolInv /\ TablesAgree
  BY DEF StopInv, HandInv, PoolInv
<1> QED
  BY <1>1, Inv_Exclusion, Inv_NeverGoHere, StopSafe, PTL

(* With one slot for a worker none waits for itself, so that SIGINT finds  *)
(* no worker in a wait that only that worker could end.                    *)
THEOREM OneSlotStopNoSelfDeadlock ==
  ASSUME SlotNum = 1
  PROVE  StopSpec => []NoSelfDeadlock
<1>1. StopInv => NoSelfDeadlock
  BY Inv_OneSlot DEF StopInv, HandInv
<1> QED
  BY <1>1, StopSafe, PTL
=============================================================================
