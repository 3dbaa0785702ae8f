--------------------------- MODULE JmmPoolProofs ---------------------------
(***************************************************************************)
(* The safety of JmmPool for any number of workers, slots and connections  *)
(* and any set of failures, and its implementation of ConnDispatch.        *)
(* PoolInv is inductive: one lemma per actor shows that its actions keep   *)
(* it.                                                                     *)
(***************************************************************************)
EXTENDS JmmPool, SequenceTheorems, TLAPS

(* Nothing is behind the only element of a sequence.                       *)
LEMMA TailOfOne ==
  ASSUME NEW S, NEW q \in Seq(S), Len(q) = 1
  PROVE  Tail(q) = << >>
<1>1. Tail(q) \in Seq(S) /\ Len(Tail(q)) = 0
  BY HeadTailProperties, EmptySeq
<1> QED
  BY <1>1, EmptySeq

LEMMA Init_Inv == Init => PoolInv
<1> SUFFICES ASSUME Init PROVE PoolInv
  OBVIOUS
<1> USE PoolAssumption DEF Init, PoolInv, Wf, Slots
<1>1. TypeOK
  <2>1. wpc \in [Wf -> WfPcs]
    BY DEF WfPcs
  <2>2. sigchld \in BOOLEAN
    OBVIOUS
  <2> QED
    BY <2>1, <2>2 DEF TypeOK, CtrlPcs, Fds
<1>2. CtrlOK /\ LockOK /\ SlotOK /\ ScanOK
  BY DEF CtrlOK, LockOK, LockAt, Handling, SlotOK, SlotAt, ScanOK, CtrlHolds
<1>3. TablesAgree
  BY DEF TablesAgree
<1> QED
  BY <1>1, <1>2, <1>3

(* Clients, and the accept of their connections.                           *)
LEMMA Client_Inv ==
  ASSUME PoolInv,
         \E c \in Conns : Connect(c) \/ Disconnect(c) \/ Accept(c)
  PROVE  PoolInv'
<1> USE PoolAssumption DEF PoolInv, clientVars, ctrlVars, chanVars, wfVars, Wf, Slots
<1>1. ASSUME NEW c \in Conns, Connect(c) PROVE PoolInv'
  <2>1. TypeOK'
    BY <1>1 DEF Connect, TypeOK, WfPcs
  <2>2. CtrlOK' /\ LockOK'
    BY <1>1 DEF Connect, TypeOK, CtrlOK, LockOK, LockAt, Handling, CtrlHolds
  <2>3. SlotOK' /\ TablesAgree'
    BY <1>1 DEF Connect, TypeOK, SlotOK, SlotAt, TablesAgree, Gone
  <2>4. ScanOK'
    BY <1>1 DEF Connect, TypeOK, ScanOK
  <2> QED
    BY <2>1, <2>2, <2>3, <2>4
<1>2. ASSUME NEW c \in Conns, Disconnect(c) PROVE PoolInv'
  <2>1. TypeOK'
    BY <1>2 DEF Disconnect, TypeOK, WfPcs
  <2>2. CtrlOK' /\ LockOK'
    BY <1>2 DEF Disconnect, TypeOK, CtrlOK, LockOK, LockAt, Handling, CtrlHolds
  <2>3. SlotOK' /\ TablesAgree'
    BY <1>2 DEF Disconnect, TypeOK, SlotOK, SlotAt, TablesAgree, Gone
  <2>4. ScanOK'
    BY <1>2 DEF Disconnect, TypeOK, ScanOK
  <2> QED
    BY <2>1, <2>2, <2>3, <2>4
<1>3. ASSUME NEW c \in Conns, Accept(c) PROVE PoolInv'
  BY <1>3
  DEF Accept, TypeOK, CtrlOK, LockOK, SlotOK, TablesAgree, ScanOK,
      LockAt, Handling, SlotAt, CtrlHolds, Gone, Fds, Pid, CtrlPcs, WfPcs
<1> QED
  BY <1>1, <1>2, <1>3

(* jmm_find_free_wf.                                                       *)
LEMMA Search_Inv ==
  ASSUME PoolInv,
         Search
  PROVE  PoolInv'
<1> USE PoolAssumption DEF PoolInv, clientVars, ctrlVars, chanVars, wfVars, Wf, Slots
<1>1. ASSUME ScanDead PROVE PoolInv'
  <2>1. TypeOK'
    <3>1. wi' \in 0 .. ProcNum /\ skipped' \in SUBSET Wf
      BY <1>1 DEF ScanDead, TypeOK
    <3> QED
      BY <1>1, <3>1 DEF ScanDead, TypeOK
  <2>2. CtrlOK' /\ LockOK'
    BY <1>1 DEF ScanDead, TypeOK, CtrlOK, LockOK, LockAt, Handling, CtrlHolds
  <2>3. SlotOK' /\ TablesAgree'
    BY <1>1 DEF ScanDead, TypeOK, SlotOK, SlotAt, TablesAgree, Gone
  <2>4. ScanOK'
    BY <1>1 DEF ScanDead, TypeOK, ScanOK
  <2> QED
    BY <2>1, <2>2, <2>3, <2>4
<1>2. ASSUME ScanBusy PROVE PoolInv'
  <2>1. TypeOK'
    <3>1. wi' \in 0 .. ProcNum /\ skipped' \in SUBSET Wf
      BY <1>2 DEF ScanBusy, TypeOK
    <3> QED
      BY <1>2, <3>1 DEF ScanBusy, TypeOK
  <2>2. CtrlOK' /\ LockOK'
    BY <1>2 DEF ScanBusy, TypeOK, CtrlOK, LockOK, LockAt, Handling, CtrlHolds
  <2>3. SlotOK' /\ TablesAgree'
    BY <1>2 DEF ScanBusy, TypeOK, SlotOK, SlotAt, TablesAgree, Gone
  <2>4. ScanOK'
    BY <1>2 DEF ScanBusy, TypeOK, ScanOK
  <2> QED
    BY <2>1, <2>2, <2>3, <2>4
<1>3. ASSUME ScanLock PROVE PoolInv'
  <2>1. TypeOK'
    BY <1>3 DEF ScanLock, TypeOK, CtrlOK, CtrlPcs, WfPcs
  <2>2. CtrlOK'
    BY <1>3 DEF ScanLock, TypeOK, CtrlOK, LockOK, LockAt, Handling, CtrlHolds
  <2>3. LockOK'
    BY <1>3 DEF ScanLock, TypeOK, CtrlOK, LockOK, LockAt, Handling, CtrlHolds
  <2>4. SlotOK'
    BY <1>3 DEF ScanLock, TypeOK, CtrlOK, LockOK, LockAt, Handling, SlotOK, SlotAt, CtrlHolds
  <2>5. TablesAgree'
    BY <1>3 DEF ScanLock, TypeOK, TablesAgree, SlotOK, SlotAt, Gone
  <2>6. ScanOK'
    BY <1>3 DEF ScanLock, TypeOK, ScanOK
  <2> QED
    BY <2>1, <2>2, <2>3, <2>4, <2>5, <2>6
<1>4. ASSUME SlotsFull PROVE PoolInv'
  <2>1. TypeOK'
    <3>1. wi' \in 0 .. ProcNum /\ mutex' \in [Wf -> {"free", "ctrl", "wf"}]
      BY <1>4 DEF SlotsFull, TypeOK, CtrlOK
    <3> QED
      BY <1>4, <3>1 DEF SlotsFull, TypeOK, CtrlPcs
  <2>2. CtrlOK' /\ LockOK'
    BY <1>4 DEF SlotsFull, TypeOK, CtrlOK, LockOK, LockAt, Handling, CtrlHolds
  <2>3. SlotOK' /\ TablesAgree'
    BY <1>4 DEF SlotsFull, TypeOK, SlotOK, SlotAt, TablesAgree, Gone
  <2>4. ScanOK'
    BY <1>4 DEF SlotsFull, TypeOK, ScanOK
  <2> QED
    BY <2>1, <2>2, <2>3, <2>4
<1>5. ASSUME SlotFound PROVE PoolInv'
  BY <1>5
  DEF SlotFound, TypeOK, CtrlOK, LockOK, SlotOK, TablesAgree, ScanOK,
      LockAt, Handling, SlotAt, CtrlHolds, Gone, Fds, Pid, CtrlPcs, WfPcs
<1>6. ASSUME ScanFail PROVE PoolInv'
  <2>1. TypeOK'
    BY <1>6 DEF ScanFail, TypeOK, CtrlOK, CtrlPcs, WfPcs
  <2>2. CtrlOK' /\ LockOK'
    BY <1>6 DEF ScanFail, TypeOK, CtrlOK, LockOK, LockAt, Handling, CtrlHolds
  <2>3. SlotOK' /\ TablesAgree'
    BY <1>6 DEF ScanFail, TypeOK, SlotOK, SlotAt, TablesAgree, Gone
  <2>4. ScanOK'
    BY <1>6 DEF ScanFail, TypeOK, ScanOK
  <2> QED
    BY <2>1, <2>2, <2>3, <2>4
<1> QED
  BY <1>1, <1>2, <1>3, <1>4, <1>5, <1>6 DEF Search

(* jmm_assign_wf and the close in jmm_listener_cb; jmm_child_cb.           *)
LEMMA Assign_Inv ==
  ASSUME PoolInv,
         Assign \/ ChildCb
  PROVE  PoolInv'
<1> USE PoolAssumption DEF PoolInv, clientVars, ctrlVars, chanVars, wfVars, Wf, Slots
<1>1. ASSUME SendFd PROVE PoolInv'
  <2>1. TypeOK'
    BY <1>1 DEF SendFd, TypeOK, CtrlOK, CtrlPcs, WfPcs
  <2>2. CtrlOK'
    BY <1>1 DEF SendFd, TypeOK, CtrlOK, LockOK, LockAt, Handling, CtrlHolds
  <2>3. LockOK'
    BY <1>1 DEF SendFd, TypeOK, CtrlOK, LockOK, LockAt, Handling, CtrlHolds
  <2>4. SlotOK'
    BY <1>1 DEF SendFd, TypeOK, CtrlOK, LockOK, LockAt, Handling, SlotOK, SlotAt, CtrlHolds
  <2>5. TablesAgree'
    BY <1>1 DEF SendFd, TypeOK, TablesAgree, SlotOK, SlotAt, Gone
  <2>6. ScanOK'
    BY <1>1 DEF SendFd, TypeOK, ScanOK
  <2> QED
    BY <2>1, <2>2, <2>3, <2>4, <2>5, <2>6
<1>2. ASSUME SendFdFails PROVE PoolInv'
  BY <1>2
  DEF SendFdFails, TypeOK, CtrlOK, LockOK, SlotOK, TablesAgree, ScanOK,
      LockAt, Handling, SlotAt, CtrlHolds, Gone, Fds, Pid, CtrlPcs, WfPcs
<1>3. ASSUME WriteId PROVE PoolInv'
  <2>1. TypeOK'
    <3>1. pipe' \in [Wf -> Seq(Slots)]
      BY <1>3 DEF WriteId, TypeOK, CtrlOK
    <3> QED
      BY <1>3, <3>1 DEF WriteId, TypeOK, CtrlPcs
  <2>2. CtrlOK'
    BY <1>3 DEF WriteId, TypeOK, CtrlOK, LockOK, LockAt, Handling, CtrlHolds
  <2>3. LockOK'
    <3>1. pipe[wi] = << >> /\ wi \in Wf /\ sj \in Slots
      BY <1>3 DEF WriteId, CtrlOK, LockOK, LockAt, CtrlHolds
    <3>2. pipe'[wi] = <<sj>> /\ \A w \in Wf : w # wi => pipe'[w] = pipe[w]
      BY <1>3, <3>1 DEF WriteId, TypeOK
    <3>3. SUFFICES ASSUME NEW w \in Wf PROVE LockAt(w)'
      BY DEF LockOK
    <3> QED
      BY <1>3, <3>1, <3>2 DEF WriteId, LockOK, LockAt, Handling, CtrlHolds
  <2>4. SlotOK'
    <3>1. pipe[wi] = << >> /\ wi \in Wf /\ sj \in Slots
      BY <1>3 DEF WriteId, CtrlOK, LockOK, LockAt, CtrlHolds
    <3>2. pipe'[wi] = <<sj>> /\ \A w \in Wf : w # wi => pipe'[w] = pipe[w]
      BY <1>3, <3>1 DEF WriteId, TypeOK
    <3>3. SUFFICES ASSUME NEW w \in Wf PROVE SlotAt(w)'
      BY DEF SlotOK
    <3> QED
      BY <1>3, <3>1, <3>2 DEF WriteId, CtrlOK, SlotOK, SlotAt
  <2>5. TablesAgree'
    BY <1>3 DEF WriteId, TypeOK, TablesAgree, SlotOK, SlotAt, Gone
  <2>6. ScanOK'
    BY <1>3 DEF WriteId, TypeOK, ScanOK
  <2> QED
    BY <2>1, <2>2, <2>3, <2>4, <2>5, <2>6
<1>4. ASSUME CloseFd PROVE PoolInv'
  BY <1>4
  DEF CloseFd, TypeOK, CtrlOK, LockOK, SlotOK, TablesAgree, ScanOK,
      LockAt, Handling, SlotAt, CtrlHolds, Gone, Fds, Pid, CtrlPcs, WfPcs
<1>5. ASSUME ChildCb PROVE PoolInv'
  <2>1. TypeOK'
    <3>1. wpc' \in [Wf -> WfPcs]
      BY <1>5 DEF ChildCb, TypeOK, WfPcs
    <3>2. pid' \in [Wf -> 0 .. ProcNum]
      BY <1>5 DEF ChildCb, TypeOK
    <3> QED
      BY <1>5, <3>1, <3>2 DEF ChildCb, TypeOK
  <2>2. CtrlOK' /\ LockOK'
    BY <1>5 DEF ChildCb, TypeOK, CtrlOK, LockOK, LockAt, Handling, CtrlHolds
  <2>3. SlotOK' /\ TablesAgree'
    BY <1>5 DEF ChildCb, TypeOK, SlotOK, SlotAt, TablesAgree, Gone
  <2>4. ScanOK'
    BY <1>5 DEF ChildCb, TypeOK, ScanOK
  <2> QED
    BY <2>1, <2>2, <2>3, <2>4
<1> QED
  BY <1>1, <1>2, <1>3, <1>4, <1>5 DEF Assign

(* The start of a worker and its end.                                      *)
LEMMA Start_Inv ==
  ASSUME PoolInv, NEW v \in Wf,
         WfStart(v) \/ WfReady(v) \/ LoopBreak(v) \/ (Die(v) /\ ~Gone(v))
  PROVE  PoolInv'
<1> USE PoolAssumption DEF PoolInv, clientVars, ctrlVars, chanVars, wfVars, Wf, Slots
<1>1. ASSUME NEW w \in Wf, WfStart(w) PROVE PoolInv'
  <2>1. TypeOK'
    <3>1. Pid(w) \in 0 .. ProcNum
      BY DEF Pid
    <3> QED
      BY <1>1, <3>1 DEF WfStart, TypeOK, WfPcs
  <2>2. CtrlOK' /\ LockOK'
    BY <1>1 DEF WfStart, TypeOK, CtrlOK, LockOK, LockAt, Handling, CtrlHolds
  <2>3. SlotOK' /\ TablesAgree'
    BY <1>1 DEF WfStart, TypeOK, SlotOK, SlotAt, TablesAgree, Gone
  <2>4. ScanOK'
    <3>1. Pid(w) # 0
      BY DEF Pid
    <3> QED
      BY <1>1, <3>1 DEF WfStart, TypeOK, ScanOK
  <2> QED
    BY <2>1, <2>2, <2>3, <2>4
<1>2. ASSUME NEW w \in Wf, WfReady(w) PROVE PoolInv'
  <2>1. TypeOK'
    BY <1>2 DEF WfReady, TypeOK, WfPcs
  <2>2. CtrlOK' /\ LockOK'
    BY <1>2 DEF WfReady, TypeOK, CtrlOK, LockOK, LockAt, Handling, CtrlHolds
  <2>3. SlotOK' /\ TablesAgree'
    BY <1>2 DEF WfReady, TypeOK, SlotOK, SlotAt, TablesAgree, Gone
  <2>4. ScanOK'
    BY <1>2 DEF WfReady, TypeOK, ScanOK
  <2> QED
    BY <2>1, <2>2, <2>3, <2>4
<1>3. ASSUME NEW w \in Wf, Die(w), ~Gone(w) PROVE PoolInv'
  <2>1. TypeOK'
    <3>1. bev' \in [Wf -> [Slots -> Fds]]
      <4>1. [s \in Slots |-> NoFd] \in [Slots -> Fds]
        BY DEF Fds
      <4> QED
        BY <1>3, <4>1 DEF Die, TypeOK
    <3>2. wpc' \in [Wf -> WfPcs]
      BY <1>3 DEF Die, TypeOK, WfPcs
    <3> QED
      BY <1>3, <3>1, <3>2 DEF Die, TypeOK
  <2>2. CtrlOK'
    BY <1>3 DEF Die, TypeOK, CtrlOK, LockOK, LockAt, Handling, CtrlHolds
  <2>3. LockOK'
    BY <1>3 DEF Die, TypeOK, CtrlOK, LockOK, LockAt, Handling, CtrlHolds
  <2>4. SlotOK'
    BY <1>3 DEF Die, TypeOK, CtrlOK, LockOK, LockAt, Handling, SlotOK, SlotAt, CtrlHolds
  <2>5. TablesAgree'
    BY <1>3 DEF Die, TypeOK, TablesAgree, SlotOK, SlotAt, Gone
  <2>6. ScanOK'
    BY <1>3 DEF Die, TypeOK, ScanOK
  <2> QED
    BY <2>1, <2>2, <2>3, <2>4, <2>5, <2>6
<1>4. ASSUME NEW w \in Wf, LoopBreak(w) PROVE PoolInv'
  <2>1. TypeOK'
    BY <1>4 DEF LoopBreak, TypeOK, CtrlOK, CtrlPcs, WfPcs
  <2>2. CtrlOK'
    BY <1>4 DEF LoopBreak, TypeOK, CtrlOK, LockOK, LockAt, Handling, CtrlHolds
  <2>3. LockOK'
    <3>1. SUFFICES ASSUME NEW u \in Wf PROVE LockAt(u)'
      BY DEF LockOK
    <3> QED
      BY <1>4, <3>1 DEF LoopBreak, TypeOK, LockOK, LockAt, Handling, CtrlHolds
  <2>4. SlotOK'
    BY <1>4 DEF LoopBreak, TypeOK, CtrlOK, LockOK, LockAt, Handling, SlotOK, SlotAt, CtrlHolds
  <2>5. TablesAgree'
    <3>1. \A u \in Wf : ~Gone(u)' => ~Gone(u)
      BY <1>4 DEF LoopBreak, TypeOK, Gone
    <3> QED
      BY <1>4, <3>1 DEF LoopBreak, TablesAgree
  <2>6. ScanOK'
    BY <1>4 DEF LoopBreak, TypeOK, ScanOK
  <2> QED
    BY <2>1, <2>2, <2>3, <2>4, <2>5, <2>6
<1> QED
  BY <1>1, <1>2, <1>3, <1>4

(* jmm_cmm_read_wf_cb.                                                     *)
LEMMA Take_Inv ==
  ASSUME PoolInv,
         \E w \in Wf : CmmRead(w) \/ RecvFd(w) \/ RecvFdFails(w) \/ CmmUnlock(w)
  PROVE  PoolInv'
<1> USE PoolAssumption DEF PoolInv, clientVars, ctrlVars, chanVars, wfVars, Wf, Slots
<1>0. ASSUME NEW w \in Wf, pipe[w] # << >>
      PROVE  /\ Head(pipe[w]) \in Slots
             /\ Tail(pipe[w]) \in Seq(Slots)
             /\ Tail(pipe[w]) = << >>
  <2>1. pipe[w] \in Seq(Slots) /\ Len(pipe[w]) = 1
    BY <1>0 DEF TypeOK, LockOK, LockAt
  <2> QED
    BY <1>0, <2>1, HeadTailProperties, TailOfOne
<1>1. ASSUME NEW w \in Wf, CmmRead(w) PROVE PoolInv'
  <2>1. TypeOK'
    <3>1. Head(pipe[w]) \in Slots /\ Tail(pipe[w]) \in Seq(Slots)
      BY <1>0, <1>1 DEF CmmRead
    <3> QED
      BY <1>1, <3>1 DEF CmmRead, TypeOK, WfPcs
  <2>2. CtrlOK'
    BY <1>1 DEF CmmRead, TypeOK, CtrlOK, LockOK, LockAt, Handling, CtrlHolds
  <2>3. LockOK'
    <3>1. Tail(pipe[w]) = << >>
      BY <1>0, <1>1 DEF CmmRead
    <3>2. SUFFICES ASSUME NEW v \in Wf PROVE LockAt(v)'
      BY DEF LockOK
    <3> QED
      BY <1>1, <3>1 DEF CmmRead, TypeOK, LockOK, LockAt, Handling, CtrlHolds
  <2>4. SlotOK'
    <3>1. Tail(pipe[w]) = << >> /\ Head(pipe[w]) \in Slots
      BY <1>0, <1>1 DEF CmmRead
    <3>2. SUFFICES ASSUME NEW v \in Wf PROVE SlotAt(v)'
      BY DEF SlotOK
    <3> QED
      BY <1>1, <3>1 DEF CmmRead, TypeOK, SlotOK, SlotAt
  <2>5. TablesAgree'
    BY <1>1 DEF CmmRead, TypeOK, TablesAgree, SlotOK, SlotAt, Gone
  <2>6. ScanOK'
    BY <1>1 DEF CmmRead, TypeOK, ScanOK
  <2> QED
    BY <2>1, <2>2, <2>3, <2>4, <2>5, <2>6
<1>2. ASSUME NEW w \in Wf, NEW fd \in Conns \cup {BadFd},
                  wpc[w] = "recv", fdq[w] # << >>, Install(w, fd) PROVE PoolInv'
  <2>1. TypeOK'
    <3>1. fdq' \in [Wf -> Seq(Conns)]
      BY <1>2 DEF Install, TypeOK
    <3>2. cur[w] \in Slots /\ fd \in Fds
      BY <1>2 DEF SlotOK, SlotAt, Fds
    <3>3. bev' \in [Wf -> [Slots -> Fds]]
      <4>1. bev[w] \in [Slots -> Fds]
        BY DEF TypeOK
      <4>2. [bev[w] EXCEPT ![cur[w]] = IF @ = NoFd THEN fd ELSE @] \in [Slots -> Fds]
        BY <3>2, <4>1
      <4> QED
        BY <1>2, <4>2 DEF Install, TypeOK
    <3>4. slot' \in [Wf -> [Slots -> Fds]]
      BY <1>2, <3>2 DEF Install, TypeOK
    <3> QED
      BY <1>2, <3>1, <3>3, <3>4 DEF Install, TypeOK, WfPcs
  <2>2. CtrlOK'
    BY <1>2 DEF Install, TypeOK, CtrlOK, LockOK, LockAt, Handling, CtrlHolds
  <2>3. LockOK'
    BY <1>2 DEF Install, TypeOK, CtrlOK, LockOK, LockAt, Handling, CtrlHolds
  <2>4. SlotOK'
    BY <1>2 DEF Install, TypeOK, CtrlOK, LockOK, LockAt, Handling, SlotOK, SlotAt, CtrlHolds
  <2>5. TablesAgree'
    BY <1>2 DEF Install, TypeOK, TablesAgree, SlotOK, SlotAt, Gone
  <2>6. ScanOK'
    BY <1>2 DEF Install, TypeOK, ScanOK
  <2> QED
    BY <2>1, <2>2, <2>3, <2>4, <2>5, <2>6
<1>3. ASSUME NEW w \in Wf, CmmUnlock(w) PROVE PoolInv'
  <2>1. TypeOK'
    BY <1>3 DEF CmmUnlock, TypeOK, WfPcs
  <2>2. CtrlOK' /\ ScanOK'
    BY <1>3 DEF CmmUnlock, CtrlOK, ScanOK
  <2>3. LockOK'
    <3>1. SUFFICES ASSUME NEW v \in Wf PROVE LockAt(v)'
      BY DEF LockOK
    <3>2. LockAt(v) /\ LockAt(w) /\ Handling(w)
      BY <1>3 DEF CmmUnlock, LockOK, Handling
    <3>3. wpc \in [Wf -> WfPcs] /\ mutex \in [Wf -> {"free", "ctrl", "wf"}]
      BY DEF TypeOK
    <3>4. CASE v = w
      BY <1>3, <3>2, <3>3, <3>4 DEF CmmUnlock, LockAt, Handling, CtrlHolds
    <3>5. CASE v # w
      BY <1>3, <3>2, <3>3, <3>5 DEF CmmUnlock, LockAt, Handling, CtrlHolds
    <3> QED
      BY <3>4, <3>5
  <2>4. SlotOK'
    BY <1>3 DEF CmmUnlock, TypeOK, SlotOK, SlotAt
  <2>5. TablesAgree'
    <3>1. \A v \in Wf : Gone(v)' <=> Gone(v)
      BY <1>3 DEF CmmUnlock, TypeOK, Gone
    <3> QED
      BY <1>3, <3>1 DEF CmmUnlock, TablesAgree
  <2> QED
    BY <2>1, <2>2, <2>3, <2>4, <2>5
<1>4. ASSUME NEW w \in Wf, fdq[w] # << >> PROVE Head(fdq[w]) \in Conns
  BY <1>4 DEF TypeOK
<1> QED
  BY <1>1, <1>2, <1>3, <1>4 DEF RecvFd, RecvFdFails

(* jmm_sock_event_wf_cb.                                                   *)
LEMMA Close_Inv ==
  ASSUME PoolInv,
         \E w \in Wf : \/ Lock(w) \/ LockWait(w) \/ FutexRetry(w) \/ SockClose(w)
                      \/ \E s \in Slots : SockEvent(w, s)
  PROVE  PoolInv'
<1> USE PoolAssumption DEF PoolInv, clientVars, ctrlVars, chanVars, wfVars, Wf, Slots
<1>1. ASSUME NEW w \in Wf, NEW s \in Slots, SockEvent(w, s) PROVE PoolInv'
  <2>1. TypeOK'
    BY <1>1 DEF SockEvent, TypeOK, CtrlOK, CtrlPcs, WfPcs
  <2>2. CtrlOK'
    BY <1>1 DEF SockEvent, TypeOK, CtrlOK, LockOK, LockAt, Handling, CtrlHolds
  <2>3. LockOK'
    <3>1. SUFFICES ASSUME NEW v \in Wf PROVE LockAt(v)'
      BY DEF LockOK
    <3> QED
      BY <1>1, <3>1 DEF SockEvent, TypeOK, LockOK, LockAt, Handling, CtrlHolds
  <2>4. SlotOK'
    <3>1. slot[w][s] # NoFd
      BY <1>1 DEF SockEvent, TablesAgree, Gone
    <3>2. SUFFICES ASSUME NEW v \in Wf PROVE SlotAt(v)'
      BY DEF SlotOK
    <3> QED
      BY <1>1, <3>1 DEF SockEvent, TypeOK, SlotOK, SlotAt
  <2>5. TablesAgree'
    <3>1. \A v \in Wf : ~Gone(v)' => ~Gone(v)
      BY <1>1 DEF SockEvent, TypeOK, Gone
    <3> QED
      BY <1>1, <3>1 DEF SockEvent, TablesAgree
  <2>6. ScanOK'
    BY <1>1 DEF SockEvent, TypeOK, ScanOK
  <2> QED
    BY <2>1, <2>2, <2>3, <2>4, <2>5, <2>6
<1>2. ASSUME NEW w \in Wf, Acquire(w), wpc[w] \in {"lock", "asleep"} PROVE PoolInv'
  <2>1. TypeOK'
    BY <1>2 DEF Acquire, TypeOK, CtrlOK, CtrlPcs, WfPcs
  <2>2. CtrlOK'
    BY <1>2 DEF Acquire, TypeOK, CtrlOK, LockOK, LockAt, Handling, CtrlHolds
  <2>3. LockOK'
    <3>1. SUFFICES ASSUME NEW v \in Wf PROVE LockAt(v)'
      BY DEF LockOK
    <3> QED
      BY <1>2, <3>1 DEF Acquire, TypeOK, LockOK, LockAt, Handling, CtrlHolds
  <2>4. SlotOK'
    BY <1>2 DEF Acquire, TypeOK, CtrlOK, LockOK, LockAt, Handling, SlotOK, SlotAt, CtrlHolds
  <2>5. TablesAgree'
    <3>1. \A v \in Wf : ~Gone(v)' => ~Gone(v)
      BY <1>2 DEF Acquire, TypeOK, Gone
    <3> QED
      BY <1>2, <3>1 DEF Acquire, TablesAgree
  <2>6. ScanOK'
    BY <1>2 DEF Acquire, TypeOK, ScanOK
  <2> QED
    BY <2>1, <2>2, <2>3, <2>4, <2>5, <2>6
<1>3. ASSUME NEW w \in Wf, LockWait(w) PROVE PoolInv'
  <2>1. TypeOK'
    BY <1>3 DEF LockWait, TypeOK, CtrlOK, CtrlPcs, WfPcs
  <2>2. CtrlOK'
    BY <1>3 DEF LockWait, TypeOK, CtrlOK, LockOK, LockAt, Handling, CtrlHolds
  <2>3. LockOK'
    <3>1. SUFFICES ASSUME NEW v \in Wf PROVE LockAt(v)'
      BY DEF LockOK
    <3> QED
      BY <1>3, <3>1 DEF LockWait, TypeOK, LockOK, LockAt, Handling, CtrlHolds
  <2>4. SlotOK'
    BY <1>3 DEF LockWait, TypeOK, CtrlOK, LockOK, LockAt, Handling, SlotOK, SlotAt, CtrlHolds
  <2>5. TablesAgree'
    <3>1. \A v \in Wf : ~Gone(v)' => ~Gone(v)
      BY <1>3 DEF LockWait, TypeOK, Gone
    <3> QED
      BY <1>3, <3>1 DEF LockWait, TablesAgree
  <2>6. ScanOK'
    BY <1>3 DEF LockWait, TypeOK, ScanOK
  <2> QED
    BY <2>1, <2>2, <2>3, <2>4, <2>5, <2>6
<1>4. ASSUME NEW w \in Wf, SockClose(w) PROVE PoolInv'
  <2>0. cur[w] \in Slots
    BY <1>4 DEF SockClose, SlotOK, SlotAt
  <2>1. TypeOK'
    <3>1. bev' \in [Wf -> [Slots -> Fds]]
      BY <1>4, <2>0 DEF SockClose, TypeOK, Fds
    <3>2. slot' \in [Wf -> [Slots -> Fds]]
      BY <1>4, <2>0 DEF SockClose, TypeOK, Fds
    <3>3. /\ wpc' \in [Wf -> WfPcs]
          /\ mutex' \in [Wf -> {"free", "ctrl", "wf"}]
      BY <1>4 DEF SockClose, TypeOK, WfPcs
    <3> QED
      BY <1>4, <3>1, <3>2, <3>3 DEF SockClose, TypeOK
  <2>2. CtrlOK'
    BY <1>4 DEF SockClose, TypeOK, CtrlOK, LockOK, LockAt, Handling, CtrlHolds
  <2>3. LockOK'
    <3>1. SUFFICES ASSUME NEW v \in Wf PROVE LockAt(v)'
      BY DEF LockOK
    <3> QED
      BY <1>4, <3>1 DEF SockClose, TypeOK, LockOK, LockAt, Handling, CtrlHolds
  <2>4. SlotOK'
    <3>1. pipe[w] = << >>
      BY <1>4 DEF SockClose, LockOK, LockAt, Handling
    <3>2. SUFFICES ASSUME NEW v \in Wf PROVE SlotAt(v)'
      BY DEF SlotOK
    <3>3. /\ wpc \in [Wf -> WfPcs]
          /\ slot \in [Wf -> [Slots -> Fds]]
      BY DEF TypeOK
    <3>4. CASE v = w
      BY <1>4, <3>1, <3>3, <3>4 DEF SockClose, SlotAt
    <3>5. CASE v # w
      BY <1>4, <3>3, <3>5 DEF SockClose, SlotOK, SlotAt
    <3> QED
      BY <3>4, <3>5
  <2>5. TablesAgree'
    BY <1>4 DEF SockClose, TypeOK, TablesAgree, SlotOK, SlotAt, Gone
  <2>6. ScanOK'
    BY <1>4 DEF SockClose, TypeOK, ScanOK
  <2> QED
    BY <2>1, <2>2, <2>3, <2>4, <2>5, <2>6
<1> QED
  BY <1>1, <1>2, <1>3, <1>4 DEF Lock, FutexRetry

LEMMA Next_Inv == PoolInv /\ [Next]_vars => PoolInv'
<1> SUFFICES ASSUME PoolInv, [Next]_vars PROVE PoolInv'
  OBVIOUS
<1>1. CASE Next
  <2>1. ASSUME NEW w \in Wf, WfExit(w) \/ WfInitFails(w) \/ WfKilled(w)
        PROVE  PoolInv'
    BY <2>1, Start_Inv DEF WfExit, WfInitFails, WfKilled, Gone
  <2>2. ASSUME NEW w \in Wf,
               CtrlCWf(w) \/ \E s \in Slots : ServiceFatal(w, s)
        PROVE  PoolInv'
    BY <2>2, Start_Inv DEF CtrlCWf, ServiceFatal
  <2>3. ASSUME NEW w \in Wf, WfStart(w) \/ WfReady(w) PROVE PoolInv'
    BY <2>3, Start_Inv
  <2> QED
    BY <1>1, <2>1, <2>2, <2>3, Client_Inv, Search_Inv, Assign_Inv, Take_Inv,
       Close_Inv
    DEF Next, Worker
<1>2. CASE UNCHANGED vars
  BY <1>2
  DEF vars, clientVars, ctrlVars, chanVars, wfVars, PoolInv, TypeOK, CtrlOK,
      LockOK, LockAt, Handling, SlotOK, SlotAt, TablesAgree, ScanOK,
      CtrlHolds, Gone
<1> QED
  BY <1>1, <1>2

-----------------------------------------------------------------------------
(* PoolInv holds in every reachable state: the mutex discipline of the     *)
(* hand-over, the slots it speaks of, the two tables of a worker and the   *)
(* search of jmm_find_free_wf, for any pool.                               *)
THEOREM PoolSafe == Spec => []PoolInv
<1>1. Init => PoolInv
  BY Init_Inv
<1>2. PoolInv /\ [Next]_vars => PoolInv'
  BY Next_Inv
<1> QED
  BY <1>1, <1>2, PTL DEF Spec

(* The variables of jmm_proc.c and jmm_event.c keep their types; slot      *)
(* indices and worker indices stay inside the tables of the shared memory. *)
THEOREM TypeCorrect == Spec => []TypeOK
<1>1. PoolInv => TypeOK
  BY DEF PoolInv
<1> QED
  BY <1>1, PoolSafe, PTL

LEMMA Inv_Exclusion == PoolInv => MutualExclusion
<1> SUFFICES ASSUME PoolInv, NEW w \in Wf
             PROVE  /\ \A g, h \in Holders(w) : g = h
                    /\ Holders(w) # {} => mutex[w] # "free"
  BY DEF MutualExclusion
<1>1. LockAt(w)
  BY DEF PoolInv, LockOK
<1>2. Handling(w) <=> wpc[w] \in {"recv", "unlock", "held"}
  BY DEF Handling
<1> QED
  BY <1>1, <1>2 DEF LockAt, Holders

(* The control process and a worker never use the mutex of the worker at   *)
(* the same time although one locks and the other unlocks it               *)
(* (jmm_proc.c:44-62, jmm_event.c:305-320, 383-388).                       *)
THEOREM HandOverExclusive == Spec => []MutualExclusion
BY Inv_Exclusion, PoolSafe, PTL

LEMMA Inv_NeverGoHere == PoolInv => NeverGoHere
<1> SUFFICES ASSUME PoolInv, NEW w \in Wf
             PROVE  /\ pipe[w] # << >> =>
                         /\ Len(pipe[w]) = 1
                         /\ slot[w][Head(pipe[w])] = NoFd
                         /\ ~Gone(w) => bev[w][Head(pipe[w])] = NoFd
                    /\ wpc[w] = "recv" =>
                         /\ slot[w][cur[w]] = NoFd
                         /\ bev[w][cur[w]] = NoFd
  BY DEF NeverGoHere
<1>1. LockAt(w) /\ SlotAt(w) /\ (~Gone(w) => bev[w] = slot[w])
  BY DEF PoolInv, LockOK, SlotOK, TablesAgree
<1> QED
  BY <1>1 DEF LockAt, SlotAt, Gone

(* "should never go here" (jmm_event.c:322) is right.                      *)
THEOREM BranchNeverTaken == Spec => []NeverGoHere
BY Inv_NeverGoHere, PoolSafe, PTL

(* A live worker's bufferevents and its slots in the shared memory agree.  *)
THEOREM TablesAlwaysAgree == Spec => []TablesAgree
<1>1. PoolInv => TablesAgree
  BY DEF PoolInv
<1> QED
  BY <1>1, PoolSafe, PTL

(* The search never gives up on the last worker of several because it is   *)
(* busy (jmm_proc.c:44-51).                                                *)
THEOREM LastWorkerTried == Spec => []LastWorkerInsisted
<1>1. PoolInv => LastWorkerInsisted
  BY DEF PoolInv, ScanOK, LastWorkerInsisted
<1> QED
  BY <1>1, PoolSafe, PTL

(* No step of any process puts a descriptor over another one in a slot     *)
(* (jmm_event.c:310-316).                                                  *)
THEOREM SlotsNotOverwritten == Spec => SlotNotOverwritten
<1> DEFINE Kept ==
      \A w \in Wf, s \in Slots :
        slot[w][s] # NoFd => slot'[w][s] \in {slot[w][s], NoFd}
<1>1. PoolInv /\ [Next]_vars => [Kept]_vars
  <2> SUFFICES ASSUME PoolInv, Next PROVE Kept
    OBVIOUS
  <2>1. ASSUME UNCHANGED slot PROVE Kept
    BY <2>1
  <2>2. ASSUME NEW v \in Wf, NEW fd, wpc[v] = "recv", Install(v, fd) PROVE Kept
    BY <2>2 DEF PoolInv, TypeOK, SlotOK, SlotAt, Install
  <2>3. ASSUME NEW v \in Wf, SockClose(v) PROVE Kept
    BY <2>3 DEF PoolInv, TypeOK, SockClose
  <2> QED
    BY <2>1, <2>2, <2>3
    DEF Next, Worker, Search, Assign, Connect, Disconnect, Accept, ScanDead,
        ScanBusy, ScanLock, SlotsFull, SlotFound, ScanFail, SendFd,
        SendFdFails, WriteId, CloseFd, ChildCb, WfStart, WfReady, Die,
        WfInitFails, WfKilled, CtrlCWf, ServiceFatal, LoopBreak, WfExit,
        CmmRead, RecvFd, RecvFdFails, CmmUnlock, Lock, Acquire, LockWait,
        FutexRetry, SockEvent, chanVars
<1> QED
  BY <1>1, PoolSafe, PTL DEF Spec, SlotNotOverwritten

LEMMA Inv_OneSlot ==
  ASSUME SlotNum = 1, PoolInv
  PROVE  NoSelfDeadlock
<1> SUFFICES ASSUME NEW w \in Wf, wpc[w] = "asleep"
             PROVE  pipe[w] = << >> /\ ~(CtrlHolds(w) /\ cpc = "write")
  BY DEF NoSelfDeadlock, SelfDeadlock
<1>1. \A s \in Slots : s = 0
  BY DEF Slots
<1>2. SlotAt(w) /\ LockAt(w) /\ TypeOK /\ CtrlOK
  BY DEF PoolInv, SlotOK, LockOK
<1>3. slot[w][0] # NoFd
  BY <1>1, <1>2 DEF SlotAt
<1>4. pipe[w] # << >> => Head(pipe[w]) \in Slots
  BY <1>2, HeadTailProperties DEF TypeOK
<1>5. pipe[w] = << >>
  BY <1>1, <1>2, <1>3, <1>4 DEF SlotAt
<1>6. ~(CtrlHolds(w) /\ cpc = "write")
  BY <1>1, <1>2, <1>3 DEF CtrlOK, CtrlHolds
<1> QED
  BY <1>5, <1>6

(* With one slot for a worker (PROC_SVR_NUM=1, etc/jmm.conf:8) no worker   *)
(* waits for an assignment that only itself could take.                    *)
THEOREM OneSlotNoSelfDeadlock ==
  ASSUME SlotNum = 1
  PROVE  Spec => []NoSelfDeadlock
<1>1. PoolInv => NoSelfDeadlock
  BY Inv_OneSlot
<1> QED
  BY <1>1, PoolSafe, PTL

-----------------------------------------------------------------------------
(***************************************************************************)
(* JmmPool implements ConnDispatch.  HandInv, PoolInv with the places that *)
(* descriptors can be in, is inductive; it fixes the stage and the place   *)
(* of every connection, and each action then changes them as an action of  *)
(* ConnDispatch does or not at all.                                        *)
(***************************************************************************)

LEMMA Queue_Init == Init => QueueOK
BY DEF Init, QueueOK, QueueAt, CtrlHolds, Gone, Wf, Slots

(* The socketpair of a worker holds a descriptor only under its mutex.      *)
LEMMA Queue_Next ==
  ASSUME PoolInv, QueueOK, Next
  PROVE  QueueOK'
<1> USE PoolAssumption DEF PoolInv
<1> SUFFICES ASSUME NEW v \in Wf PROVE QueueAt(v)'
  BY DEF QueueOK
<1>0. QueueAt(v) /\ LockAt(v) /\ TypeOK /\ CtrlOK
  BY DEF QueueOK, LockOK
<1> HIDE DEF PoolInv
<1>1. ASSUME NEW c \in Conns, Connect(c) \/ Disconnect(c) \/ Accept(c)
      PROVE  QueueAt(v)'
  BY <1>0, <1>1
  DEF Connect, Disconnect, Accept, QueueAt, CtrlHolds, Gone, ctrlVars,
      chanVars, wfVars
<1>2. ASSUME Search PROVE QueueAt(v)'
  <2>1. ASSUME ScanDead \/ ScanBusy \/ ScanFail PROVE QueueAt(v)'
    BY <1>0, <2>1
    DEF ScanDead, ScanBusy, ScanFail, QueueAt, CtrlHolds, Gone, chanVars,
        wfVars
  <2>2. ASSUME ScanLock PROVE QueueAt(v)'
    BY <1>0, <2>2
    DEF ScanLock, QueueAt, CtrlHolds, Gone, chanVars, wfVars, TypeOK
  <2>3. ASSUME SlotsFull PROVE QueueAt(v)'
    BY <1>0, <2>3
    DEF SlotsFull, QueueAt, CtrlHolds, Gone, chanVars, wfVars, TypeOK
  <2>4. ASSUME SlotFound PROVE QueueAt(v)'
    BY <1>0, <2>4 DEF SlotFound, QueueAt, CtrlHolds, Gone, chanVars, wfVars
  <2> QED
    BY <1>2, <2>1, <2>2, <2>3, <2>4 DEF Search
<1>3. ASSUME Assign PROVE QueueAt(v)'
  <2>1. ASSUME SendFd PROVE QueueAt(v)'
    BY <1>0, <2>1
    DEF SendFd, QueueAt, LockAt, CtrlOK, TypeOK, CtrlHolds, Handling, Gone,
        wfVars
  <2>2. ASSUME SendFdFails PROVE QueueAt(v)'
    BY <1>0, <2>2 DEF SendFdFails, QueueAt, CtrlHolds, Gone, chanVars, wfVars
  <2>3. ASSUME WriteId PROVE QueueAt(v)'
    BY <1>0, <2>3 DEF WriteId, QueueAt, TypeOK, CtrlHolds, Gone, wfVars
  <2>4. ASSUME CloseFd PROVE QueueAt(v)'
    BY <1>0, <2>4 DEF CloseFd, QueueAt, CtrlHolds, Gone, chanVars, wfVars
  <2> QED
    BY <1>3, <2>1, <2>2, <2>3, <2>4 DEF Assign
<1>4. ASSUME ChildCb PROVE QueueAt(v)'
  BY <1>0, <1>4 DEF ChildCb, QueueAt, CtrlHolds, Gone, ctrlVars, chanVars
<1>5. ASSUME NEW w \in Wf,
             \/ WfStart(w) \/ WfReady(w) \/ LoopBreak(w) \/ LockWait(w)
             \/ \E s \in Slots : SockEvent(w, s)
      PROVE  QueueAt(v)'
  BY <1>0, <1>5
  DEF WfStart, WfReady, LoopBreak, LockWait, SockEvent, QueueAt, CtrlHolds,
      Gone, ctrlVars, chanVars, wfVars, TypeOK
<1>6. ASSUME NEW w \in Wf, Die(w)
      PROVE  QueueAt(v)'
  BY <1>0, <1>6 DEF Die, QueueAt, CtrlHolds, Gone, ctrlVars, chanVars, TypeOK
<1>7. ASSUME NEW w \in Wf, CmmRead(w)
      PROVE  QueueAt(v)'
  BY <1>0, <1>7
  DEF CmmRead, PoolInv, SlotOK, SlotAt, QueueAt, CtrlHolds, Gone, ctrlVars,
      chanVars, TypeOK
<1>8. ASSUME NEW w \in Wf, NEW fd,
             wpc[w] = "recv", fdq[w] # << >>, Install(w, fd)
      PROVE  QueueAt(v)'
  <2>1. QueueAt(w) /\ fdq[w] \in Seq(Conns)
    BY DEF QueueOK, PoolInv, TypeOK
  <2>2. Tail(fdq[w]) = << >>
    BY <1>8, <2>1, TailOfOne DEF QueueAt
  <2> QED
    BY <1>0, <1>8, <2>2 DEF Install, QueueAt, CtrlHolds, Gone, ctrlVars, TypeOK
<1>9. ASSUME NEW w \in Wf, CmmUnlock(w) \/ SockClose(w)
      PROVE  QueueAt(v)'
  BY <1>0, <1>9
  DEF CmmUnlock, SockClose, LockAt, Handling, QueueAt, CtrlHolds, Gone,
      ctrlVars, chanVars, TypeOK
<1>10. ASSUME NEW w \in Wf, wpc[w] \in {"lock", "asleep"}, Acquire(w)
      PROVE  QueueAt(v)'
  BY <1>0, <1>10
  DEF Acquire, LockAt, Handling, QueueAt, CtrlHolds, Gone, ctrlVars, chanVars,
      TypeOK
<1> QED
  BY <1>1, <1>2, <1>3, <1>4, <1>5, <1>6, <1>7, <1>8, <1>9, <1>10
  DEF Next, Worker, WfInitFails, WfKilled, WfExit, CtrlCWf, ServiceFatal,
      RecvFd, RecvFdFails, Lock, FutexRetry

LEMMA Conn_Init == Init => ConnOK
BY PoolAssumption DEF Init, ConnOK, ConnAt, Queued, Served, Wf, Slots

(* A connection stays in one place at a time.                               *)
LEMMA Conn_Next ==
  ASSUME HandInv, Next
  PROVE  ConnOK'
<1> USE PoolAssumption
<1> SUFFICES ASSUME NEW e \in Conns PROVE ConnAt(e)'
  BY DEF ConnOK
<1>0. /\ ConnAt(e) /\ TypeOK /\ CtrlOK
      /\ \A w \in Wf : QueueAt(w) /\ LockAt(w) /\ SlotAt(w)
  BY DEF HandInv, PoolInv, ConnOK, QueueOK, LockOK, SlotOK
<1>q. \A w \in Wf : fdq[w] # << >> =>
        fdq[w] \in Seq(Conns) /\ Head(fdq[w]) \in Conns /\ Tail(fdq[w]) = << >>
  <2> TAKE w \in Wf
  <2> HAVE fdq[w] # << >>
  <2>1. fdq[w] \in Seq(Conns) /\ Len(fdq[w]) = 1
    BY <1>0 DEF TypeOK, QueueAt
  <2> QED
    BY <2>1, TailOfOne, HeadTailProperties
<1>1. ASSUME NEW c \in Conns, Connect(c) \/ Disconnect(c) \/ Accept(c)
      PROVE  ConnAt(e)'
  BY <1>0, <1>1
  DEF Connect, Disconnect, Accept, ConnAt, Queued, Served, ctrlVars, chanVars,
      wfVars, TypeOK
<1>2. ASSUME Search PROVE ConnAt(e)'
  BY <1>0, <1>2
  DEF Search, ScanDead, ScanBusy, ScanFail, ScanLock, SlotsFull, SlotFound,
      ConnAt, Queued, Served, clientVars, chanVars, wfVars
<1>3. ASSUME Assign PROVE ConnAt(e)'
  <2>1. ASSUME SendFd PROVE ConnAt(e)'
    <3>1. wi \in Wf /\ fdq[wi] = << >> /\ cconn \in Conns
      BY <1>0, <2>1 DEF SendFd, CtrlOK, CtrlHolds, QueueAt
    <3>2. fdq' = [fdq EXCEPT ![wi] = <<cconn>>]
      BY <2>1, <3>1 DEF SendFd
    <3>3. \A w \in Wf :
            Queued(e, w)' <=> IF w = wi THEN e = cconn ELSE Queued(e, w)
      BY <1>0, <3>1, <3>2 DEF Queued, TypeOK
    <3>4. \A w \in Wf, s \in Slots : Served(e, w, s)' <=> Served(e, w, s)
      BY <2>1 DEF SendFd, Served, wfVars
    <3> QED
      BY <1>0, <2>1, <3>1, <3>3, <3>4 DEF SendFd, ConnAt, clientVars, Queued
  <2>2. ASSUME SendFdFails \/ WriteId PROVE ConnAt(e)'
    BY <1>0, <2>2
    DEF SendFdFails, WriteId, ConnAt, Queued, Served, clientVars, chanVars,
        wfVars
  <2>4. ASSUME CloseFd PROVE ConnAt(e)'
    BY <1>0, <2>4
    DEF CloseFd, ConnAt, Queued, Served, clientVars, chanVars, wfVars
  <2> QED
    BY <1>3, <2>1, <2>2, <2>4 DEF Assign
<1>4. ASSUME ChildCb PROVE ConnAt(e)'
  BY <1>0, <1>4
  DEF ChildCb, ConnAt, Queued, Served, clientVars, ctrlVars, chanVars
<1>5. ASSUME NEW w \in Wf,
             \/ WfStart(w) \/ WfReady(w) \/ LoopBreak(w) \/ LockWait(w)
             \/ CmmRead(w) \/ CmmUnlock(w) \/ Acquire(w)
             \/ \E s \in Slots : SockEvent(w, s)
      PROVE  ConnAt(e)'
  BY <1>0, <1>5
  DEF WfStart, WfReady, LoopBreak, LockWait, CmmRead, CmmUnlock, Acquire,
      SockEvent, ConnAt, Queued, Served, ctrlVars, chanVars, wfVars, clientVars
<1>6. ASSUME NEW w \in Wf, Die(w) PROVE ConnAt(e)'
  <2>1. \A v \in Wf, s \in Slots : Served(e, v, s)' => Served(e, v, s)
    BY <1>0, <1>6 DEF Die, Served, TypeOK
  <2>2. \A v \in Wf : Queued(e, v)' <=> Queued(e, v)
    BY <1>6 DEF Die, Queued, chanVars
  <2> QED
    BY <1>0, <1>6, <2>1, <2>2 DEF Die, ConnAt, clientVars, ctrlVars
<1>8. ASSUME NEW w \in Wf, NEW fd \in {Head(fdq[w]), BadFd},
             wpc[w] = "recv", fdq[w] # << >>, Install(w, fd)
      PROVE  ConnAt(e)'
  <2>1. cur[w] \in Slots /\ bev[w][cur[w]] = NoFd
    BY <1>0, <1>8 DEF HandInv, PoolInv, TablesAgree, SlotAt, Gone
  <2>2. \A v \in Wf : Queued(e, v)' <=> v # w /\ Queued(e, v)
    BY <1>0, <1>8, <1>q DEF Install, Queued, TypeOK
  <2>3. \A v \in Wf, s \in Slots :
          Served(e, v, s)' <=>
            IF v = w /\ s = cur[w] THEN e = fd ELSE Served(e, v, s)
    BY <1>0, <1>8, <2>1 DEF Install, Served, TypeOK
  <2>4. e = fd => Queued(e, w)
    BY <1>8 DEF Queued
  <2> QED
    BY <1>0, <1>8, <2>1, <2>2, <2>3, <2>4
    DEF Install, ConnAt, clientVars, ctrlVars
<1>9. ASSUME NEW w \in Wf, SockClose(w) PROVE ConnAt(e)'
  <2>1. \A v \in Wf, s \in Slots : Served(e, v, s)' => Served(e, v, s)
    BY <1>0, <1>9 DEF SockClose, Served, TypeOK
  <2>2. \A v \in Wf : Queued(e, v)' <=> Queued(e, v)
    BY <1>9 DEF SockClose, Queued, chanVars
  <2> QED
    BY <1>0, <1>9, <2>1, <2>2 DEF SockClose, ConnAt, clientVars, ctrlVars
<1> QED
  BY <1>1, <1>2, <1>3, <1>4, <1>5, <1>6, <1>8, <1>9
  DEF Next, Worker, WfInitFails, WfKilled, WfExit, CtrlCWf, ServiceFatal,
      RecvFd, RecvFdFails, Lock, FutexRetry

(* HandInv is inductive.                                                   *)
LEMMA Hand_Next == HandInv /\ [Next]_vars => HandInv'
<1>1. ASSUME HandInv, UNCHANGED vars PROVE HandInv'
  <2>1. PoolInv'
    BY <1>1, Next_Inv DEF HandInv
  <2> QED
    BY <1>1, <2>1
    DEF HandInv, QueueOK, QueueAt, ConnOK, ConnAt, Queued, Served, Gone,
        CtrlHolds, vars, clientVars, ctrlVars, chanVars, wfVars
<1> QED
  BY <1>1, Next_Inv, Queue_Next, Conn_Next DEF HandInv

-----------------------------------------------------------------------------
Held(c) == cconn = c /\ cpc \in {"scan", "slots", "refuse"}

(* What the stage and the place of connection c are.                       *)
StageAt(c) ==
  /\ client[c] = "new" => Stage(c) = "new" /\ Place(c) = NoPlace
  /\ c \in backlog => Stage(c) = "waiting" /\ Place(c) = NoPlace
  /\ Held(c) => Stage(c) = "held" /\ Place(c) = NoPlace
  /\ \A w \in Wf : Sent(c, w) =>
       Stage(c) = "bound" /\ Place(c) = <<w, Target(w)>>
  /\ \A w \in Wf, s \in Slots : Served(c, w, s) =>
       Stage(c) = "served" /\ Place(c) = <<w, s>>
  /\ \/ client[c] = "new" \/ c \in backlog \/ Held(c)
     \/ \E w \in Wf : Sent(c, w) \/ \E s \in Slots : Served(c, w, s)
     \/ Stage(c) = "closed" /\ Place(c) = NoPlace

StageOK == \A c \in Conns : StageAt(c)

LEMMA Sent_Is ==
  ASSUME HandInv, NEW c \in Conns, NEW w \in Wf
  PROVE  Sent(c, w) <=> (cpc = "send" /\ cconn = c /\ wi = w) \/ Queued(c, w)
<1>1. fdq[w] \in Seq(Conns) /\ (fdq[w] # << >> => Len(fdq[w]) = 1)
  BY DEF HandInv, PoolInv, TypeOK, QueueOK, QueueAt
<1>2. fdq[w] = << >> => Len(fdq[w]) = 0
  BY <1>1, EmptySeq
<1>3. fdq[w] # << >> => Head(fdq[w]) = fdq[w][1]
  BY <1>1, HeadTailProperties
<1> QED
  BY <1>1, <1>2, <1>3 DEF Sent, Queued

(* Of the ways to be sent, two are left: the listener is about to send the *)
(* descriptor, or it is the one in the socketpair.                         *)
SentOK ==
  \A c \in Conns, w \in Wf :
    Sent(c, w) <=> (cpc = "send" /\ cconn = c /\ wi = w) \/ Queued(c, w)

LEMMA Sent_All == HandInv => SentOK
BY Sent_Is DEF SentOK

LEMMA Sent_Next == HandInv' => SentOK'
BY Sent_All, PTL

(* The case analysis behind Stage and Place has one case at a time.         *)
LEMMA Stage_Is == HandInv => StageOK
<1> SUFFICES ASSUME HandInv, NEW c \in Conns PROVE StageAt(c)
  BY DEF StageOK
<1>0. ConnAt(c) /\ TypeOK /\ CtrlOK /\ \A w \in Wf : QueueAt(w)
  BY DEF HandInv, PoolInv, ConnOK, QueueOK
<1>1. \A w \in Wf :
        Sent(c, w) <=> (cpc = "send" /\ cconn = c /\ wi = w) \/ Queued(c, w)
  BY Sent_All DEF SentOK
<1>2. ASSUME client[c] = "new" \/ c \in backlog \/ Held(c)
      PROVE  StageAt(c)
  <2>1. \A w \in Wf : ~Sent(c, w) /\ \A s \in Slots : ~Served(c, w, s)
    BY <1>0, <1>1, <1>2 DEF ConnAt, Held
  <2>2. Stage(c) = IF client[c] = "new" THEN "new"
                   ELSE IF c \in backlog THEN "waiting" ELSE "held"
    BY <1>2 DEF Stage, Held
  <2>3. Place(c) = NoPlace
    BY <2>2 DEF Place
  <2> QED
    BY <1>0, <1>2, <2>1, <2>2, <2>3 DEF StageAt, Held, ConnAt
<1>3. ASSUME NEW w \in Wf, Sent(c, w),
             client[c] # "new", c \notin backlog, ~Held(c)
      PROVE  StageAt(c)
  <2>1. \A v \in Wf : /\ Sent(c, v) <=> v = w
                     /\ \A s \in Slots : ~Served(c, v, s)
    BY <1>0, <1>1, <1>3 DEF ConnAt
  <2>2. Stage(c) = "bound"
    BY <1>3 DEF Stage, Held
  <2>3. (CHOOSE v \in Wf : Sent(c, v)) = w
    BY <2>1
  <2>4. Place(c) = <<w, Target(w)>>
    BY <2>2, <2>3 DEF Place
  <2> QED
    BY <1>3, <2>1, <2>2, <2>4 DEF StageAt
<1>4. ASSUME NEW w \in Wf, NEW s \in Slots, Served(c, w, s),
             client[c] # "new", c \notin backlog, ~Held(c)
      PROVE  StageAt(c)
  <2>1. \A v \in Wf : ~Sent(c, v)
    BY <1>0, <1>1, <1>4 DEF ConnAt
  <2>2. Stage(c) = "served"
    BY <1>4, <2>1 DEF Stage, Held, Served
  <2>3. \A p \in Wf \X Slots : bev[p[1]][p[2]] = c <=> p = <<w, s>>
    BY <1>0, <1>4 DEF ConnAt, Served
  <2>4. (CHOOSE p \in Wf \X Slots : bev[p[1]][p[2]] = c) = <<w, s>>
    BY <1>4, <2>3
  <2>5. Place(c) = <<w, s>>
    BY <2>2, <2>4 DEF Place
  <2>6. \A v \in Wf, r \in Slots : Served(c, v, r) => v = w /\ r = s
    BY <1>0, <1>4 DEF ConnAt
  <2> QED
    BY <1>4, <2>1, <2>2, <2>5, <2>6 DEF StageAt
<1>5. ASSUME client[c] # "new", c \notin backlog, ~Held(c),
             \A w \in Wf : ~Sent(c, w) /\ \A s \in Slots : ~Served(c, w, s)
      PROVE  StageAt(c)
  <2>1. Stage(c) = "closed"
    BY <1>5 DEF Stage, Held, Served
  <2>2. Place(c) = NoPlace
    BY <2>1 DEF Place
  <2> QED
    BY <1>5, <2>1, <2>2 DEF StageAt
<1> QED
  BY <1>2, <1>3, <1>4, <1>5

LEMMA Stage_Next == HandInv' => StageOK'
BY Stage_Is, PTL

(* Nothing that the stage and the place of e depend on changes.            *)
Kept(e) ==
  /\ (client[e] = "new")' <=> client[e] = "new"
  /\ (e \in backlog)' <=> e \in backlog
  /\ Held(e)' <=> Held(e)
  /\ \A w \in Wf : /\ Sent(e, w)' <=> Sent(e, w)
                   /\ Sent(e, w) => Target(w)' = Target(w)
                   /\ \A s \in Slots : Served(e, w, s)' <=> Served(e, w, s)

LEMMA Kept_Same ==
  ASSUME StageOK, StageOK', NEW e \in Conns, Kept(e)
  PROVE  Stage(e)' = Stage(e) /\ Place(e)' = Place(e)
<1>1. StageAt(e) /\ StageAt(e)'
  BY DEF StageOK
<1>2. NoPlace' = NoPlace
  BY DEF NoPlace
<1> QED
  BY <1>1, <1>2 DEF StageAt, Kept

-----------------------------------------------------------------------------
(* A step that leaves every connection alone is a stutter of ConnDispatch. *)
LEMMA Stutter ==
  ASSUME StageOK, StageOK', \A e \in Conns : Kept(e)
  PROVE  UNCHANGED Dispatch!dvars
<1>1. \A e \in Conns : Stage(e)' = Stage(e) /\ Place(e)' = Place(e)
  BY Kept_Same
<1> QED
  BY <1>1 DEF Dispatch!dvars

(* A step that lets go the connections of S releases them.                 *)
LEMMA Let_Go ==
  ASSUME StageOK, StageOK', NEW S \in SUBSET Conns, 
         \A c \in S : Stage(c) \in {"bound", "served"}
                      /\ Stage(c)' = "closed" /\ Place(c)' = NoPlace,
         \A e \in Conns \ S : Kept(e)
  PROVE  [Dispatch!DispatchNext]_Dispatch!dvars
<1>1. \A e \in Conns \ S : Stage(e)' = Stage(e) /\ Place(e)' = Place(e)
  BY Kept_Same
<1>2. CASE S = {}
  BY <1>2, Stutter
<1>3. CASE S # {}
  <2>1. Dispatch!Release(S)
    BY <1>1, <1>3 DEF Dispatch!Release
  <2>2. PICK c \in S : Stage(c)' # Stage(c)
    BY <1>3
  <2>3. [e \in Conns |-> Stage(e)]' # [e \in Conns |-> Stage(e)]
    BY <2>2
  <2> QED
    BY <2>1, <2>3 DEF Dispatch!DispatchNext
<1> QED
  BY <1>2, <1>3

(* A step that moves connection c only.                                    *)
LEMMA Move ==
  ASSUME StageOK, StageOK', NEW c \in Conns,
         \A e \in Conns \ {c} : Kept(e),
         \/ Stage(c) = "new" /\ Stage(c)' = "waiting" /\ Place(c)' = Place(c)
         \/ /\ Stage(c) = "waiting" /\ Stage(c)' = "held"
            /\ Place(c)' = Place(c)
            /\ \A d \in Conns : Stage(d) # "held"
         \/ Stage(c) = "held" /\ Stage(c)' = "closed" /\ Place(c)' = Place(c)
         \/ Stage(c) = "bound" /\ Stage(c)' = "served" /\ Place(c)' = Place(c)
         \/ /\ Stage(c) = "held" /\ Stage(c)' = "bound"
            /\ Place(c)' \in Wf \X Slots
            /\ \A d \in Conns : Place(d) # Place(c)'
  PROVE  Dispatch!DispatchNext
<1>1. \A e \in Conns \ {c} : Stage(e)' = Stage(e) /\ Place(e)' = Place(e)
  BY Kept_Same
<1>2. [e \in Conns |-> Stage(e)]' # [e \in Conns |-> Stage(e)]
  <2>1. Stage(c)' # Stage(c)
    OBVIOUS
  <2> QED
    BY <2>1
<1>3. [e \in Conns |-> Stage(e)]' =
        [[e \in Conns |-> Stage(e)] EXCEPT ![c] = Stage(c)']
  BY <1>1
<1>4. [e \in Conns |-> Place(e)]' =
        [[e \in Conns |-> Place(e)] EXCEPT ![c] = Place(c)']
  BY <1>1
<1>5. ASSUME Place(c)' = Place(c) PROVE UNCHANGED [e \in Conns |-> Place(e)]
  BY <1>1, <1>5
<1>6. CASE Stage(c) = "new" /\ Stage(c)' = "waiting" /\ Place(c)' = Place(c)
  BY <1>2, <1>3, <1>5, <1>6 DEF Dispatch!DispatchNext, Dispatch!Arrive
<1>7. CASE /\ Stage(c) = "waiting" /\ Stage(c)' = "held"
           /\ Place(c)' = Place(c)
           /\ \A d \in Conns : Stage(d) # "held"
  BY <1>2, <1>3, <1>5, <1>7 DEF Dispatch!DispatchNext, Dispatch!Take
<1>8. CASE Stage(c) = "held" /\ Stage(c)' = "closed" /\ Place(c)' = Place(c)
  BY <1>2, <1>3, <1>5, <1>8 DEF Dispatch!DispatchNext, Dispatch!Refuse
<1>9. CASE Stage(c) = "bound" /\ Stage(c)' = "served" /\ Place(c)' = Place(c)
  BY <1>2, <1>3, <1>5, <1>9 DEF Dispatch!DispatchNext, Dispatch!Serve
<1>10. CASE /\ Stage(c) = "held" /\ Stage(c)' = "bound"
            /\ Place(c)' \in Wf \X Slots
            /\ \A d \in Conns : Place(d) # Place(c)'
  <2>1. Dispatch!Bind(c, Place(c)')
    BY <1>3, <1>4, <1>10 DEF Dispatch!Bind
  <2> QED
    BY <1>2, <1>10, <2>1 DEF Dispatch!DispatchNext
<1> QED
  BY <1>6, <1>7, <1>8, <1>9, <1>10

-----------------------------------------------------------------------------
(* Arrive and Take.                                                        *)
LEMMA Client_Step ==
  ASSUME HandInv, StageOK, HandInv', StageOK',
         NEW c \in Conns, Connect(c) \/ Disconnect(c) \/ Accept(c)
  PROVE  [Dispatch!DispatchNext]_Dispatch!dvars
<1>0. TypeOK /\ CtrlOK /\ ConnOK /\ StageAt(c) /\ StageAt(c)'
  BY DEF HandInv, PoolInv, StageOK
<1>1. \A e \in Conns, w \in Wf :
        /\ Sent(e, w) <=> (cpc = "send" /\ cconn = e /\ wi = w) \/ Queued(e, w)
        /\ Sent(e, w)' <=> \/ cpc' = "send" /\ cconn' = e /\ wi' = w
                           \/ Queued(e, w)'
  BY Sent_All, Sent_Next DEF SentOK
<1>2. CASE Connect(c)
  <2>1. \A e \in Conns \ {c} : Kept(e)
    BY <1>0, <1>1, <1>2
    DEF Connect, Kept, Held, Target, Queued, Served, TypeOK, ctrlVars,
        chanVars, wfVars
  <2>2. client[c] = "new" /\ c \in backlog'
    BY <1>2 DEF Connect
  <2>3. Stage(c) = "new" /\ Stage(c)' = "waiting" /\ Place(c)' = Place(c)
    BY <1>0, <2>2 DEF StageAt, NoPlace
  <2> QED
    BY <2>1, <2>3, Move
<1>3. CASE Disconnect(c)
  <2>1. \A e \in Conns : Kept(e)
    BY <1>0, <1>1, <1>3
    DEF Disconnect, Kept, Held, Target, Queued, Served, TypeOK, ctrlVars,
        chanVars, wfVars
  <2> QED
    BY <2>1, Stutter
<1>4. CASE Accept(c)
  <2>1. \A e \in Conns \ {c} : Kept(e)
    BY <1>0, <1>1, <1>4
    DEF Accept, Kept, Held, Target, Queued, Served, chanVars, wfVars
  <2>2. c \in backlog /\ Held(c)'
    BY <1>4 DEF Accept, Held
  <2>3. Stage(c) = "waiting" /\ Stage(c)' = "held" /\ Place(c)' = Place(c)
    BY <1>0, <2>2 DEF StageAt, NoPlace
  <2>4. \A d \in Conns : Stage(d) # "held"
    BY <1>4 DEF Accept, StageOK, StageAt, Held, Stage
  <2> QED
    BY <2>1, <2>3, <2>4, Move
<1> QED
  BY <1>2, <1>3, <1>4

(* Bind, when jmm_find_free_wf has found a slot; the search is no step.    *)
LEMMA Search_Step ==
  ASSUME HandInv, StageOK, HandInv', StageOK', Search
  PROVE  [Dispatch!DispatchNext]_Dispatch!dvars
<1>0. TypeOK /\ CtrlOK /\ ConnOK /\ \A w \in Wf : QueueAt(w) /\ LockAt(w)
  BY DEF HandInv, PoolInv, QueueOK, LockOK
<1>1. \A e \in Conns, w \in Wf :
        /\ Sent(e, w) <=> (cpc = "send" /\ cconn = e /\ wi = w) \/ Queued(e, w)
        /\ Sent(e, w)' <=> \/ cpc' = "send" /\ cconn' = e /\ wi' = w
                           \/ Queued(e, w)'
  BY Sent_All, Sent_Next DEF SentOK
<1>2. CASE ScanDead \/ ScanBusy \/ ScanLock \/ SlotsFull \/ ScanFail
  <2>1. \A e \in Conns : Kept(e)
    BY <1>1, <1>2
    DEF ScanDead, ScanBusy, ScanLock, SlotsFull, ScanFail, Kept, Held, Target,
        Queued, Served, clientVars, chanVars, wfVars
  <2> QED
    BY <2>1, Stutter
<1>3. CASE SlotFound
  <2>0. cconn \in Conns /\ wi \in Wf /\ Held(cconn) /\ fdq[wi] = << >>
    BY <1>0, <1>3 DEF SlotFound, CtrlOK, CtrlHolds, QueueAt, Held
  <2>c. PICK c \in Conns : c = cconn
    BY <2>0
  <2>1. \A e \in Conns \ {c} : Kept(e)
    BY <1>1, <1>3, <2>0, <2>c
    DEF SlotFound, Kept, Held, Target, Queued, Served, clientVars, chanVars,
        wfVars
  <2>2. sj' \in Slots /\ slot[wi][sj'] = NoFd
    BY <1>3 DEF SlotFound
  <2>w. wi' = wi
    BY <1>3 DEF SlotFound
  <2>3. Sent(c, wi)' /\ Target(wi)' = sj'
    BY <1>1, <1>3, <2>0, <2>c DEF SlotFound, Target
  <2>4. /\ Stage(c) = "held"
        /\ Stage(c)' = "bound"
        /\ Place(c)' = <<wi, sj'>>
    BY <2>0, <2>c, <2>3, <2>w DEF StageOK, StageAt
  <2>5. ASSUME NEW d \in Conns PROVE Place(d) # <<wi, sj'>>
    <3>1. StageAt(d)
      BY DEF StageOK
    <3>2. CASE \E w \in Wf : Sent(d, w)
      BY <1>1, <1>3, <2>0, <3>1, <3>2 DEF StageAt, SlotFound, Queued
    <3>3. CASE \E w \in Wf, s \in Slots : Served(d, w, s)
      <4>1. PICK w \in Wf, s \in Slots : Served(d, w, s)
        BY <3>3
      <4>2. Place(d) = <<w, s>>
        BY <3>1, <4>1 DEF StageAt
      <4>3. CASE w = wi /\ s = sj'
        <5>1. bev[wi][sj'] = d /\ d # NoFd
          BY <4>1, <4>3, PoolAssumption DEF Served
        <5>2. Gone(wi) => bev[wi][sj'] = NoFd
          BY <1>0, <2>0, <2>2 DEF QueueAt
        <5>3. ~Gone(wi) => bev[wi] = slot[wi]
          BY <2>0 DEF HandInv, PoolInv, TablesAgree
        <5> QED
          BY <2>2, <5>1, <5>2, <5>3
      <4> QED
        BY <4>2, <4>3
    <3>4. CASE Place(d) = NoPlace
      BY <3>4, <2>2 DEF NoPlace, Slots
    <3> QED
      BY <3>1, <3>2, <3>3, <3>4 DEF StageAt
  <2> QED
    BY <2>0, <2>1, <2>2, <2>4, <2>5, Move
<1> QED
  BY <1>2, <1>3 DEF Search

(* Refuse, and Release when sendmsg fails; the rest of jmm_assign_wf and   *)
(* jmm_child_cb are no steps.                                              *)
LEMMA Assign_Step ==
  ASSUME HandInv, StageOK, HandInv', StageOK', Assign \/ ChildCb
  PROVE  [Dispatch!DispatchNext]_Dispatch!dvars
<1>0. TypeOK /\ CtrlOK /\ ConnOK /\ \A w \in Wf : QueueAt(w) /\ LockAt(w)
  BY DEF HandInv, PoolInv, QueueOK, LockOK
<1>1. \A e \in Conns, w \in Wf :
        /\ Sent(e, w) <=> (cpc = "send" /\ cconn = e /\ wi = w) \/ Queued(e, w)
        /\ Sent(e, w)' <=> \/ cpc' = "send" /\ cconn' = e /\ wi' = w
                           \/ Queued(e, w)'
  BY Sent_All, Sent_Next DEF SentOK
<1>2. CASE SendFd
  <2>1. wi \in Wf /\ fdq[wi] = << >> /\ cconn \in Conns
    BY <1>0, <1>2 DEF SendFd, CtrlOK, CtrlHolds, QueueAt
  <2>2. fdq' = [fdq EXCEPT ![wi] = <<cconn>>]
    BY <1>2, <2>1 DEF SendFd
  <2>3. \A e \in Conns, w \in Wf : Sent(e, w)' <=> Sent(e, w)
    BY <1>0, <1>1, <1>2, <2>1, <2>2 DEF SendFd, Queued, TypeOK
  <2>4. \A e \in Conns : Kept(e)
    BY <1>2, <2>3 DEF SendFd, Kept, Held, Target, Served, clientVars, wfVars
  <2> QED
    BY <2>4, Stutter
<1>3. CASE SendFdFails
  <2>1. wi \in Wf /\ fdq[wi] = << >> /\ cconn \in Conns /\ Sent(cconn, wi)
    BY <1>0, <1>1, <1>3 DEF SendFdFails, CtrlOK, CtrlHolds, QueueAt
  <2>c. PICK c \in Conns : c = cconn
    BY <2>1
  <2>2. \A e \in Conns \ {c} : Kept(e)
    BY <1>1, <2>c, <1>3
    DEF SendFdFails, Kept, Held, Target, Queued, Served, clientVars, chanVars,
        wfVars
  <2>3. ConnAt(c) /\ StageAt(c) /\ StageAt(c)'
    BY <1>0 DEF ConnOK, StageOK
  <2>4. Stage(c) = "bound"
    BY <2>1, <2>c, <2>3 DEF StageAt
  <2>5. Stage(c)' = "closed" /\ Place(c)' = NoPlace
    <3>1. client'[c] # "new" /\ c \notin backlog' /\ ~Held(c)'
      BY <1>3, <2>c, <2>3, <2>1 DEF SendFdFails, ConnAt, Held, clientVars
    <3>2. \A w \in Wf : ~Sent(c, w)' /\ \A s \in Slots : ~Served(c, w, s)'
      BY <1>1, <1>3, <2>c, <2>1, <2>3
      DEF SendFdFails, ConnAt, Queued, Served, chanVars, wfVars
    <3> QED
      BY <2>3, <3>1, <3>2 DEF StageAt, NoPlace
  <2>6. \A d \in {c} : Stage(d) \in {"bound", "served"}
                      /\ Stage(d)' = "closed" /\ Place(d)' = NoPlace
    BY <2>4, <2>5
  <2>7. {c} \in SUBSET Conns
    OBVIOUS
  <2> QED
    BY <2>2, <2>6, <2>7, Let_Go
<1>4. CASE WriteId
  <2>1. wi \in Wf /\ pipe[wi] = << >>
    BY <1>0, <1>4 DEF WriteId, CtrlOK, CtrlHolds, LockAt
  <2>2. pipe' = [pipe EXCEPT ![wi] = <<sj>>]
    BY <1>4, <2>1 DEF WriteId
  <2>3. \A w \in Wf : Target(w)' = Target(w)
    BY <1>0, <1>4, <2>1, <2>2 DEF WriteId, Target, TypeOK, wfVars
  <2>4. \A e \in Conns : Kept(e)
    BY <1>1, <1>4, <2>3
    DEF WriteId, Kept, Held, Queued, Served, clientVars, wfVars
  <2> QED
    BY <2>4, Stutter
<1>5. CASE CloseFd /\ cpc = "close"
  <2>1. \A e \in Conns : Kept(e)
    BY <1>1, <1>5
    DEF CloseFd, Kept, Held, Target, Queued, Served, clientVars, chanVars,
        wfVars
  <2> QED
    BY <2>1, Stutter
<1>6. CASE CloseFd /\ cpc = "refuse"
  <2>1. cconn \in Conns /\ Held(cconn)
    BY <1>0, <1>6 DEF CtrlOK, Held
  <2>c. PICK c \in Conns : c = cconn
    BY <2>1
  <2>2. \A e \in Conns \ {c} : Kept(e)
    BY <1>1, <2>c, <1>6
    DEF CloseFd, Kept, Held, Target, Queued, Served, clientVars, chanVars,
        wfVars
  <2>3. ConnAt(c) /\ StageAt(c) /\ StageAt(c)'
    BY <1>0 DEF ConnOK, StageOK
  <2>4. Stage(c) = "held" /\ Place(c) = NoPlace
    BY <2>1, <2>c, <2>3 DEF StageAt
  <2>5. Stage(c)' = "closed" /\ Place(c)' = NoPlace
    <3>1. client'[c] # "new" /\ c \notin backlog' /\ ~Held(c)'
      BY <1>6, <2>c, <2>3 DEF CloseFd, ConnAt, Held, clientVars
    <3>2. \A w \in Wf : ~Sent(c, w)' /\ \A s \in Slots : ~Served(c, w, s)'
      BY <1>1, <1>6, <2>c, <2>1, <2>3
      DEF CloseFd, ConnAt, Queued, Served, chanVars, wfVars
    <3> QED
      BY <2>3, <3>1, <3>2 DEF StageAt, NoPlace
  <2> QED
    BY <2>1, <2>2, <2>4, <2>5, Move
<1>7. CASE ChildCb
  <2>1. \A e \in Conns : Kept(e)
    BY <1>1, <1>7
    DEF ChildCb, Kept, Held, Target, Queued, Served, clientVars, ctrlVars,
        chanVars
  <2> QED
    BY <2>1, Stutter
<1> QED
  BY <1>2, <1>3, <1>4, <1>5, <1>6, <1>7 DEF Assign, CloseFd

(* What a worker does without touching its bufferevents is no step: the    *)
(* target of a descriptor is first sj, then the number in the pipe, then   *)
(* cur, and stays the same.                                                *)
LEMMA Worker_Step ==
  ASSUME HandInv, StageOK, HandInv', StageOK', NEW w \in Wf,
         \/ WfStart(w) \/ WfReady(w) \/ LoopBreak(w) \/ LockWait(w) 
         \/ CmmUnlock(w) \/ (wpc[w] \in {"lock", "asleep"} /\ Acquire(w))
         \/ CmmRead(w) \/ \E s \in Slots : SockEvent(w, s)
  PROVE  UNCHANGED Dispatch!dvars
<1>0. TypeOK /\ QueueAt(w) /\ LockAt(w) /\ SlotAt(w)
  BY DEF HandInv, PoolInv, QueueOK, LockOK, SlotOK
<1>1. \A e \in Conns, v \in Wf : Sent(e, v) => 
        (cpc = "send" /\ cconn = e /\ wi = v) \/ fdq[v] # << >>
  BY Sent_All DEF SentOK, Queued
<1>2. ASSUME NEW v \in Wf, fdq[v] # << >> \/ (cpc = "send" /\ wi = v)
      PROVE  Target(v)' = Target(v)
  <2>1. CASE v # w \/ UNCHANGED <<cur, pipe>>
    BY <1>0, <2>1
    DEF Target, WfStart, WfReady, LoopBreak, LockWait, CmmUnlock, Acquire,
        CmmRead, SockEvent, ctrlVars, chanVars, wfVars, TypeOK
  <2>2. CASE v = w /\ \E s \in Slots : SockEvent(w, s)
    BY <1>0, <1>2, <2>2
    DEF Target, SockEvent, QueueAt, CtrlHolds, Gone, ctrlVars, chanVars
  <2>3. CASE v = w /\ CmmRead(w)
    <3>1. Tail(pipe[w]) = << >>
      BY <1>0, <2>3, TailOfOne DEF CmmRead, LockAt, TypeOK
    <3> QED
      BY <1>0, <2>3, <3>1
      DEF CmmRead, Target, LockAt, CtrlHolds, TypeOK, ctrlVars
  <2>4. CASE ~CmmRead(w) /\ ~\E s \in Slots : SockEvent(w, s)
    <3>1. UNCHANGED <<cur, pipe>>
      BY <2>4
      DEF WfStart, WfReady, LoopBreak, LockWait, CmmUnlock, Acquire, chanVars
    <3> QED
      BY <2>1, <3>1
  <2> QED
    BY <2>1, <2>2, <2>3, <2>4
<1>3. \A e \in Conns : Kept(e)
  <2> TAKE e \in Conns
  <2>1. \A v \in Wf : Sent(e, v)' <=> Sent(e, v)
    BY DEF WfStart, WfReady, LoopBreak, LockWait, CmmUnlock, Acquire, CmmRead,
       SockEvent, Sent, ctrlVars, chanVars
  <2>2. UNCHANGED <<client, backlog, cconn, cpc, bev>>
    BY DEF WfStart, WfReady, LoopBreak, LockWait, CmmUnlock, Acquire, CmmRead,
       SockEvent, clientVars, ctrlVars, wfVars
  <2> QED
    BY <1>1, <1>2, <2>1, <2>2 DEF Kept, Held, Served
<1> QED
  BY <1>3, Stutter

(* Release, of one connection that is closed or of all when a worker dies. *)
LEMMA Free_Step ==
  ASSUME HandInv, StageOK, HandInv', StageOK', NEW w \in Wf,
         Die(w) \/ SockClose(w)
  PROVE  [Dispatch!DispatchNext]_Dispatch!dvars
<1> DEFINE S == {c \in Conns : \E s \in Slots :
                   Served(c, w, s) /\ ~Served(c, w, s)'}
<1>0. TypeOK /\ ConnOK /\ QueueAt(w) /\ LockAt(w)
  BY DEF HandInv, PoolInv, QueueOK, LockOK
<1>1. /\ UNCHANGED <<client, backlog, cconn, cpc, wi, sj, fdq, pipe, cur>>
      /\ \A v \in Wf : v # w => bev'[v] = bev[v]
      /\ \A s \in Slots : bev'[w][s] \in {bev[w][s], NoFd}
  BY <1>0 DEF Die, SockClose, clientVars, ctrlVars, chanVars, TypeOK
<1>2. \A e \in Conns, v \in Wf :
        (Sent(e, v)' <=> Sent(e, v)) /\ Target(v)' = Target(v)
  BY <1>1 DEF Sent, Target
<1>3. \A e \in Conns \ S : Kept(e)
  BY <1>1, <1>2, PoolAssumption DEF Kept, Held, Served
<1>4. ASSUME NEW c \in S
      PROVE  /\ Stage(c) \in {"bound", "served"}
             /\ Stage(c)' = "closed" /\ Place(c)' = NoPlace
  <2>1. PICK s \in Slots : Served(c, w, s) /\ ~Served(c, w, s)'
    OBVIOUS
  <2>2. c \in Conns /\ ConnAt(c) /\ StageAt(c) /\ StageAt(c)'
    BY <1>0 DEF ConnOK, StageOK
  <2>3. Stage(c) = "served"
    BY <2>1, <2>2 DEF StageAt
  <2>4. /\ client[c] # "new" /\ c \notin backlog /\ ~Held(c)
        /\ \A v \in Wf :
             ~Sent(c, v) /\ \A r \in Slots : Served(c, v, r) => v = w /\ r = s
    BY <2>1, <2>2, Sent_All DEF ConnAt, Held, SentOK
  <2>5. /\ client'[c] # "new" /\ c \notin backlog' /\ ~Held(c)'
        /\ \A v \in Wf : ~Sent(c, v)' /\ \A r \in Slots : ~Served(c, v, r)'
    BY <1>1, <1>2, <2>1, <2>2, <2>4, PoolAssumption DEF Held, Served
  <2> QED
    BY <2>2, <2>3, <2>5 DEF StageAt, NoPlace
<1>5. S \in SUBSET Conns
  OBVIOUS
<1> HIDE DEF S
<1> QED
  BY <1>3, <1>4, <1>5, Let_Go

(* Serve, or Release when the descriptor got lost on the way.              *)
LEMMA Install_Step ==
  ASSUME HandInv, StageOK, HandInv', StageOK', NEW w \in Wf,
         NEW fd \in {Head(fdq[w]), BadFd},
         wpc[w] = "recv", fdq[w] # << >>, Install(w, fd)
  PROVE  [Dispatch!DispatchNext]_Dispatch!dvars
<1>0. TypeOK /\ ConnOK /\ QueueAt(w) /\ LockAt(w) /\ SlotAt(w)
  BY DEF HandInv, PoolInv, QueueOK, LockOK, SlotOK
<1>1. fdq[w] \in Seq(Conns) /\ Head(fdq[w]) \in Conns /\ Tail(fdq[w]) = << >>
  <2>1. fdq[w] \in Seq(Conns) /\ Len(fdq[w]) = 1
    BY <1>0 DEF TypeOK, QueueAt
  <2> QED
    BY <2>1, TailOfOne, HeadTailProperties
<1>2. PICK c \in Conns : c = Head(fdq[w])
  BY <1>1
<1>3. cur[w] \in Slots /\ bev[w][cur[w]] = NoFd
  BY <1>0 DEF HandInv, PoolInv, TablesAgree, SlotAt, Gone
<1>4. pipe[w] = << >> /\ ~CtrlHolds(w)
  BY <1>0 DEF LockAt, Handling
<1>5. Target(w) = cur[w]
  BY <1>4 DEF Target, CtrlHolds
<1>6. UNCHANGED <<client, backlog, cconn, cpc, wi, sj, pipe, cur>>
  BY DEF Install, clientVars, ctrlVars
<1>7. \A v \in Wf : Target(v)' = Target(v)
  BY <1>6 DEF Target
<1>8. /\ fdq' = [fdq EXCEPT ![w] = << >>]
      /\ \A e \in Conns, v \in Wf : Queued(e, v)' <=> v # w /\ Queued(e, v)
  BY <1>0, <1>1 DEF Install, Queued, TypeOK
<1>9. \A e \in Conns, v \in Wf : Sent(e, v)' <=> v # w /\ Sent(e, v)
  BY <1>4, <1>6, <1>8, Sent_All, Sent_Next DEF SentOK, CtrlHolds
<1>10. \A e \in Conns, v \in Wf, s \in Slots :
          Served(e, v, s)' <=>
            IF v = w /\ s = cur[w] THEN e = fd ELSE Served(e, v, s)
  BY <1>0, <1>3 DEF Install, Served, TypeOK
<1>11. Sent(c, w) /\ \A e \in Conns : Sent(e, w) => e = c
  BY <1>2, <1>4, Sent_All DEF SentOK, Queued, CtrlHolds
<1>12. \A e \in Conns \ {c} : Kept(e)
  BY <1>2, <1>3, <1>6, <1>7, <1>9, <1>10, <1>11, PoolAssumption
  DEF Kept, Held, Served
<1>13. StageAt(c) /\ StageAt(c)' /\ ConnAt(c)
  BY <1>0 DEF StageOK, ConnOK
<1>14. Stage(c) = "bound" /\ Place(c) = <<w, cur[w]>>
  BY <1>5, <1>11, <1>13 DEF StageAt
<1>15. CASE fd = c
  <2>s. PICK s \in Slots : s = cur[w]
    BY <1>3
  <2>1. Served(c, w, s)'
    BY <2>s, <1>10, <1>15
  <2>2. Stage(c)' = "served" /\ Place(c)' = <<w, cur[w]>>
    BY <1>13, <2>s, <2>1 DEF StageAt
  <2> QED
    BY <1>12, <1>14, <2>2, Move
<1>16. CASE fd = BadFd
  <2>1. client[c] # "new" /\ c \notin backlog /\ ~Held(c)
    BY <1>2, <1>13 DEF ConnAt, Queued, Held
  <2>2. \A v \in Wf : ~Sent(c, v)' /\ \A s \in Slots : ~Served(c, v, s)'
    BY <1>2, <1>9, <1>10, <1>13, <1>16, Sent_All, PoolAssumption
    DEF ConnAt, SentOK, Queued
  <2>3. Stage(c)' = "closed" /\ Place(c)' = NoPlace
    BY <1>6, <1>13, <2>1, <2>2 DEF StageAt, Held, NoPlace
  <2>4. \A d \in {c} : Stage(d) \in {"bound", "served"}
                      /\ Stage(d)' = "closed" /\ Place(d)' = NoPlace
    BY <1>14, <2>3
  <2>5. {c} \in SUBSET Conns
    OBVIOUS
  <2> QED
    BY <1>12, <2>4, <2>5, Let_Go
<1> QED
  BY <1>2, <1>15, <1>16

LEMMA Dispatch_Step ==
  ASSUME HandInv, HandInv', StageOK, StageOK', Next
  PROVE  [Dispatch!DispatchNext]_Dispatch!dvars
BY Client_Step, Search_Step, Assign_Step, Worker_Step, Free_Step, Install_Step
DEF Next, Worker, WfInitFails, WfKilled, WfExit, CtrlCWf, ServiceFatal, RecvFd,
    RecvFdFails, Lock, FutexRetry

-----------------------------------------------------------------------------
(* The pool keeps the promise of ConnDispatch: a connection is refused or  *)
(* gets one slot of one worker, nobody else's, and is served in that slot, *)
(* whatever overtakes what between the socketpair and the pipe             *)
(* (jmm_proc.c:31-100, jmm_event.c:295-323).                               *)
THEOREM DispatchImplemented == Spec => ImplementsDispatch
<1>1. Init => HandInv
  BY Init_Inv, Queue_Init, Conn_Init DEF HandInv
<1>2. Init => Dispatch!DispatchInit
  BY DEF Init, Dispatch!DispatchInit, Stage, Place
<1>3. HandInv /\ [Next]_vars => HandInv'
  BY Hand_Next
<1>4. HandInv /\ HandInv' /\ StageOK /\ StageOK' /\ [Next]_vars
        => [Dispatch!DispatchNext]_Dispatch!dvars
  <2>1. ASSUME HandInv, HandInv', StageOK, StageOK', Next
        PROVE  [Dispatch!DispatchNext]_Dispatch!dvars
    BY <2>1, Dispatch_Step
  <2>2. ASSUME UNCHANGED vars, StageOK, StageOK' PROVE UNCHANGED Dispatch!dvars
    <3>1. \A e \in Conns : Kept(e)
      BY <2>2
      DEF vars, clientVars, ctrlVars, chanVars, wfVars, Kept, Held, Sent,
          Served, Target
    <3> QED
      BY <2>2, <3>1, Stutter
  <2> QED
    BY <2>1, <2>2
<1> QED
  BY <1>1, <1>2, <1>3, <1>4, Stage_Is, PTL
  DEF Spec, ImplementsDispatch, Dispatch!DispatchSpec

-----------------------------------------------------------------------------
(* What ConnDispatch promises, for any connections and places.             *)
LEMMA Dispatch_Init == Dispatch!DispatchInit => Dispatch!DispatchInv
BY DEF Dispatch!DispatchInit, Dispatch!DispatchInv, Dispatch!DispatchTypeOK,
  Dispatch!OnePerPlace, Dispatch!PlacedAsStaged, Dispatch!Stages

LEMMA Dispatch_Next ==
  ASSUME Dispatch!DispatchInv, [Dispatch!DispatchNext]_Dispatch!dvars
  PROVE  Dispatch!DispatchInv'
<1> USE DEF Dispatch!DispatchInv, Dispatch!DispatchTypeOK,
  Dispatch!OnePerPlace, Dispatch!PlacedAsStaged, Dispatch!Stages
<1>0. NoPlace \notin Wf \X Slots
  BY PoolAssumption DEF NoPlace, Slots
<1>1. ASSUME NEW c \in Conns, Dispatch!Arrive(c) PROVE Dispatch!DispatchInv'
  <2>1. /\ Stage(c) = "new"
        /\ \A e \in Conns :
             /\ Stage(e)' = IF e = c THEN "waiting" ELSE Stage(e)
             /\ Place(e)' = Place(e)
    BY <1>1 DEF Dispatch!Arrive
  <2> QED
    BY <2>1
<1>2. ASSUME NEW c \in Conns, Dispatch!Take(c) PROVE Dispatch!DispatchInv'
  BY <1>2 DEF Dispatch!Take
<1>3. ASSUME NEW c \in Conns, NEW p \in Wf \X Slots, Dispatch!Bind(c, p)
      PROVE  Dispatch!DispatchInv'
  <2>1. /\ Stage(c) = "held"
        /\ \A d \in Conns : Place(d) # p
        /\ \A e \in Conns :
             /\ Stage(e)' = IF e = c THEN "bound" ELSE Stage(e)
             /\ Place(e)' = IF e = c THEN p ELSE Place(e)
    BY <1>3 DEF Dispatch!Bind
  <2> QED
    BY <1>0, <2>1
<1>4. ASSUME NEW c \in Conns, Dispatch!Refuse(c) PROVE Dispatch!DispatchInv'
  BY <1>4 DEF Dispatch!Refuse
<1>5. ASSUME NEW c \in Conns, Dispatch!Serve(c) PROVE Dispatch!DispatchInv'
  BY <1>5 DEF Dispatch!Serve
<1>6. ASSUME NEW S \in SUBSET Conns, Dispatch!Release(S)
      PROVE  Dispatch!DispatchInv'
  BY <1>6 DEF Dispatch!Release
<1>7. CASE UNCHANGED Dispatch!dvars
  BY <1>7 DEF Dispatch!dvars
<1> QED
  BY <1>1, <1>2, <1>3, <1>4, <1>5, <1>6, <1>7 DEF Dispatch!DispatchNext

(* No two connections are ever in one slot of one worker of the pool, from *)
(* the moment jmm_find_free_wf chose it to the moment it is given back.    *)
THEOREM OneConnectionPerSlot == Spec => []Dispatch!DispatchInv
BY Dispatch_Init, Dispatch_Next, DispatchImplemented, PTL
DEF ImplementsDispatch, Dispatch!DispatchSpec
=============================================================================
