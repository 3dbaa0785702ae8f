--------------------------- MODULE JmmLifeProofs ---------------------------
(***************************************************************************)
(* The safety of JmmLife for any number of starts and workers and any set  *)
(* of failures: LifeInv is inductive.                                      *)
(***************************************************************************)
EXTENDS JmmLife, TLAPS

LEMMA LifeInit == Init => LifeInv
<1> SUFFICES ASSUME Init PROVE LifeInv
  OBVIOUS
<1> USE LifeAssumption DEF Init, Wf
<1>1. TypeOK
  BY DEF TypeOK, CtrlPcs, WfPcs
<1>2. PoolOwnsMemory /\ PidIsOwnChild /\ OwnMemory
  BY DEF PoolOwnsMemory, PidIsOwnChild, OwnMemory, Holding
<1>3. WfStages /\ StepOK /\ ReapOK
  BY DEF WfStages, StepOK, ReapOK, Holding, Gone
<1> QED
  BY <1>1, <1>2, <1>3 DEF LifeInv

(* The control process of a run.                                           *)
LEMMA ControlStep ==
  ASSUME LifeInv, NEW r \in Runs,
         \/ InitShm(r) \/ Control(r) \/ Terminate(r)
         \/ ForkFails(r) \/ InitEventFails(r) \/ Killed(r)
  PROVE  LifeInv'
<1> USE LifeAssumption DEF LifeInv, ctrlVars, Wf
<1>1. ASSUME InitShm(r) PROVE LifeInv'
  <2>1. TypeOK'
    BY <1>1 DEF InitShm, TypeOK, CtrlPcs, WfPcs, Holding, Ended
  <2>2. PoolOwnsMemory'
    BY <1>1 DEF InitShm, TypeOK, PoolOwnsMemory, Holding
  <2>3. PidIsOwnChild'
    BY <1>1 DEF InitShm, TypeOK, PidIsOwnChild, WfStages, StepOK, Holding
  <2>4. OwnMemory'
    BY <1>1 DEF InitShm, TypeOK, PoolOwnsMemory, OwnMemory, WfStages, Holding
  <2>5. WfStages'
    BY <1>1 DEF InitShm, TypeOK, WfStages, Holding
  <2>6. StepOK'
    BY <1>1 DEF InitShm, TypeOK, StepOK, Holding
  <2>7. ReapOK'
    BY <1>1 DEF InitShm, TypeOK, ReapOK, StepOK, WfStages, Gone
  <2> QED
    BY <2>1, <2>2, <2>3, <2>4, <2>5, <2>6, <2>7
<1>2. ASSUME Fork(r) PROVE LifeInv'
  <2>1. TypeOK'
    BY <1>2 DEF Fork, TypeOK, CtrlPcs, WfPcs, Holding, Ended
  <2>2. PoolOwnsMemory'
    BY <1>2 DEF Fork, TypeOK, PoolOwnsMemory, Holding
  <2>3. PidIsOwnChild'
    BY <1>2 DEF Fork, TypeOK, PidIsOwnChild, WfStages, StepOK, Holding
  <2>4. OwnMemory'
    BY <1>2 DEF Fork, TypeOK, PoolOwnsMemory, OwnMemory, WfStages, Holding
  <2>5. WfStages'
    BY <1>2 DEF Fork, TypeOK, WfStages, Holding
  <2>6. StepOK'
    BY <1>2 DEF Fork, TypeOK, StepOK, Holding
  <2>7. ReapOK'
    BY <1>2 DEF Fork, TypeOK, ReapOK, StepOK, WfStages, Gone
  <2> QED
    BY <2>1, <2>2, <2>3, <2>4, <2>5, <2>6, <2>7
<1>3. ASSUME ForkFails(r) PROVE LifeInv'
  <2>1. TypeOK'
    BY <1>3 DEF ForkFails, TypeOK, CtrlPcs, WfPcs, Holding, Ended
  <2>2. PoolOwnsMemory'
    BY <1>3 DEF ForkFails, TypeOK, PoolOwnsMemory, Holding
  <2>3. PidIsOwnChild'
    BY <1>3 DEF ForkFails, TypeOK, PidIsOwnChild, WfStages, StepOK, Holding
  <2>4. OwnMemory'
    BY <1>3 DEF ForkFails, TypeOK, PoolOwnsMemory, OwnMemory, WfStages, Holding
  <2>5. WfStages'
    BY <1>3 DEF ForkFails, TypeOK, WfStages, Holding
  <2>6. StepOK'
    BY <1>3 DEF ForkFails, TypeOK, StepOK, Holding
  <2>7. ReapOK'
    BY <1>3 DEF ForkFails, TypeOK, ReapOK, StepOK, WfStages, Gone
  <2> QED
    BY <2>1, <2>2, <2>3, <2>4, <2>5, <2>6, <2>7
<1>4. ASSUME Forked(r) PROVE LifeInv'
  <2>1. TypeOK'
    BY <1>4 DEF Forked, TypeOK, CtrlPcs, WfPcs, Holding, Ended
  <2>2. PoolOwnsMemory'
    BY <1>4 DEF Forked, TypeOK, PoolOwnsMemory, Holding
  <2>3. PidIsOwnChild'
    BY <1>4 DEF Forked, TypeOK, PidIsOwnChild, WfStages, StepOK, Holding
  <2>4. OwnMemory'
    BY <1>4 DEF Forked, TypeOK, PoolOwnsMemory, OwnMemory, WfStages, Holding
  <2>5. WfStages'
    BY <1>4 DEF Forked, TypeOK, WfStages, Holding
  <2>6. StepOK'
    BY <1>4 DEF Forked, TypeOK, StepOK, Holding
  <2>7. ReapOK'
    BY <1>4 DEF Forked, TypeOK, ReapOK, StepOK, WfStages, Gone
  <2> QED
    BY <2>1, <2>2, <2>3, <2>4, <2>5, <2>6, <2>7
<1>5. ASSUME InitEvent(r) PROVE LifeInv'
  <2>1. TypeOK'
    BY <1>5 DEF InitEvent, TypeOK, CtrlPcs, WfPcs, Holding, Ended
  <2>2. PoolOwnsMemory'
    BY <1>5 DEF InitEvent, TypeOK, PoolOwnsMemory, Holding
  <2>3. PidIsOwnChild'
    BY <1>5 DEF InitEvent, TypeOK, PidIsOwnChild, WfStages, StepOK, Holding
  <2>4. OwnMemory'
    BY <1>5 DEF InitEvent, TypeOK, PoolOwnsMemory, OwnMemory, WfStages, Holding
  <2>5. WfStages'
    BY <1>5 DEF InitEvent, TypeOK, WfStages, Holding
  <2>6. StepOK'
    BY <1>5 DEF InitEvent, TypeOK, StepOK, Holding
  <2>7. ReapOK'
    BY <1>5 DEF InitEvent, TypeOK, ReapOK, StepOK, WfStages, Gone
  <2> QED
    BY <2>1, <2>2, <2>3, <2>4, <2>5, <2>6, <2>7
<1>6. ASSUME InitEventFails(r) PROVE LifeInv'
  <2>1. TypeOK'
    BY <1>6 DEF InitEventFails, TypeOK, CtrlPcs, WfPcs, Holding, Ended
  <2>2. PoolOwnsMemory'
    BY <1>6 DEF InitEventFails, TypeOK, PoolOwnsMemory, Holding
  <2>3. PidIsOwnChild'
    BY <1>6 DEF InitEventFails, TypeOK, PidIsOwnChild, WfStages, StepOK, Holding
  <2>4. OwnMemory'
    BY <1>6 DEF InitEventFails, TypeOK, PoolOwnsMemory, OwnMemory, WfStages, Holding
  <2>5. WfStages'
    BY <1>6 DEF InitEventFails, TypeOK, WfStages, Holding
  <2>6. StepOK'
    BY <1>6 DEF InitEventFails, TypeOK, StepOK, Holding
  <2>7. ReapOK'
    <3>1. step'[r] = "check" /\ k'[r] = 0
      BY <1>6 DEF InitEventFails, StepOK, Holding
    <3> QED
      BY <1>6, <3>1 DEF InitEventFails, TypeOK, ReapOK, Gone
  <2> QED
    BY <2>1, <2>2, <2>3, <2>4, <2>5, <2>6, <2>7
<1>7. ASSUME ChildCb(r) PROVE LifeInv'
  <2>1. TypeOK'
    BY <1>7 DEF ChildCb, TypeOK, CtrlPcs, WfPcs, Holding, Ended
  <2>2. PoolOwnsMemory'
    BY <1>7 DEF ChildCb, TypeOK, PoolOwnsMemory, Holding
  <2>3. PidIsOwnChild'
    <3>1. SUFFICES ASSUME NEW q \in Runs, NEW j \in Wf,
                          cpc'[q] \in Holding, pid'[q][j]
                   PROVE  \/ wpc'[q][j] \notin {"none", "reaped"}
                          \/ step'[q] = "clear" /\ k'[q] = j
      BY DEF PidIsOwnChild
    <3>2. CASE q = r
      <4>1. wpc[r][j] # "dead" /\ pid[r][j]
        BY <1>7, <3>1, <3>2 DEF ChildCb, TypeOK
      <4> QED
        BY <1>7, <3>1, <3>2, <4>1 DEF ChildCb, TypeOK, PidIsOwnChild
    <3>3. CASE q # r
      BY <1>7, <3>1, <3>3 DEF ChildCb, TypeOK, PidIsOwnChild
    <3> QED
      BY <3>2, <3>3
  <2>4. OwnMemory'
    BY <1>7 DEF ChildCb, TypeOK, PoolOwnsMemory, OwnMemory, WfStages, Holding
  <2>5. WfStages'
    BY <1>7 DEF ChildCb, TypeOK, WfStages, Holding
  <2>6. StepOK'
    BY <1>7 DEF ChildCb, TypeOK, StepOK, Holding
  <2>7. ReapOK'
    BY <1>7 DEF ChildCb, TypeOK, ReapOK, StepOK, WfStages, Gone
  <2> QED
    BY <2>1, <2>2, <2>3, <2>4, <2>5, <2>6, <2>7
<1>8. ASSUME Terminate(r) PROVE LifeInv'
  <2>1. TypeOK'
    BY <1>8 DEF Terminate, TypeOK, CtrlPcs, WfPcs, Holding, Ended
  <2>2. PoolOwnsMemory'
    BY <1>8 DEF Terminate, TypeOK, PoolOwnsMemory, Holding
  <2>3. PidIsOwnChild'
    BY <1>8 DEF Terminate, TypeOK, PidIsOwnChild, WfStages, StepOK, Holding
  <2>4. OwnMemory'
    BY <1>8 DEF Terminate, TypeOK, PoolOwnsMemory, OwnMemory, WfStages, Holding
  <2>5. WfStages'
    BY <1>8 DEF Terminate, TypeOK, WfStages, Holding
  <2>6. StepOK'
    BY <1>8 DEF Terminate, TypeOK, StepOK, Holding
  <2>7. ReapOK'
    BY <1>8 DEF Terminate, TypeOK, ReapOK, StepOK, WfStages, Gone
  <2> QED
    BY <2>1, <2>2, <2>3, <2>4, <2>5, <2>6, <2>7
<1>9. ASSUME EndWf(r) PROVE LifeInv'
  <2>1. TypeOK'
    BY <1>9 DEF EndWf, TypeOK, CtrlPcs, WfPcs, Holding, Ended
  <2>2. PoolOwnsMemory'
    BY <1>9 DEF EndWf, TypeOK, PoolOwnsMemory, Holding
  <2>3. PidIsOwnChild'
    BY <1>9 DEF EndWf, TypeOK, PidIsOwnChild, WfStages, StepOK, Holding
  <2>4. OwnMemory'
    BY <1>9 DEF EndWf, TypeOK, PoolOwnsMemory, OwnMemory, WfStages, Holding
  <2>5. WfStages'
    BY <1>9 DEF EndWf, TypeOK, WfStages, Holding
  <2>6. StepOK'
    BY <1>9 DEF EndWf, TypeOK, StepOK, Holding
  <2>7. ReapOK'
    BY <1>9 DEF EndWf, TypeOK, ReapOK, StepOK, WfStages, Gone
  <2> QED
    BY <2>1, <2>2, <2>3, <2>4, <2>5, <2>6, <2>7
<1>10. ASSUME PassWf(r) PROVE LifeInv'
  <2>1. TypeOK'
    BY <1>10 DEF PassWf, TypeOK, CtrlPcs, WfPcs, Holding, Ended
  <2>2. PoolOwnsMemory'
    BY <1>10 DEF PassWf, TypeOK, PoolOwnsMemory, Holding
  <2>3. PidIsOwnChild'
    BY <1>10 DEF PassWf, TypeOK, PidIsOwnChild, WfStages, StepOK, Holding
  <2>4. OwnMemory'
    BY <1>10 DEF PassWf, TypeOK, PoolOwnsMemory, OwnMemory, WfStages, Holding
  <2>5. WfStages'
    BY <1>10 DEF PassWf, TypeOK, WfStages, Holding
  <2>6. StepOK'
    BY <1>10 DEF PassWf, TypeOK, StepOK, Holding
  <2>7. ReapOK'
    BY <1>10 DEF PassWf, TypeOK, ReapOK, StepOK, WfStages, Gone
  <2> QED
    BY <2>1, <2>2, <2>3, <2>4, <2>5, <2>6, <2>7
<1>11. ASSUME WaitWf(r) PROVE LifeInv'
  <2>1. TypeOK'
    BY <1>11 DEF WaitWf, TypeOK, CtrlPcs, WfPcs, Holding, Ended
  <2>2. PoolOwnsMemory'
    BY <1>11 DEF WaitWf, TypeOK, PoolOwnsMemory, Holding
  <2>3. PidIsOwnChild'
    BY <1>11 DEF WaitWf, TypeOK, PidIsOwnChild, WfStages, StepOK, Holding
  <2>4. OwnMemory'
    BY <1>11 DEF WaitWf, TypeOK, PoolOwnsMemory, OwnMemory, WfStages, Holding
  <2>5. WfStages'
    BY <1>11 DEF WaitWf, TypeOK, WfStages, Holding
  <2>6. StepOK'
    BY <1>11 DEF WaitWf, TypeOK, StepOK, Holding
  <2>7. ReapOK'
    BY <1>11 DEF WaitWf, TypeOK, ReapOK, StepOK, WfStages, Gone
  <2> QED
    BY <2>1, <2>2, <2>3, <2>4, <2>5, <2>6, <2>7
<1>12. ASSUME ClearWf(r) PROVE LifeInv'
  <2>1. TypeOK'
    BY <1>12 DEF ClearWf, TypeOK, StepOK
  <2>2. PoolOwnsMemory'
    BY <1>12 DEF ClearWf, TypeOK, PoolOwnsMemory, Holding
  <2>3. PidIsOwnChild'
    BY <1>12 DEF ClearWf, TypeOK, PidIsOwnChild, WfStages, StepOK, Holding
  <2>4. OwnMemory'
    BY <1>12 DEF ClearWf, TypeOK, PoolOwnsMemory, OwnMemory, WfStages, Holding
  <2>5. WfStages'
    BY <1>12 DEF ClearWf, TypeOK, WfStages, Holding
  <2>6. StepOK'
    BY <1>12 DEF ClearWf, TypeOK, StepOK, Holding
  <2>7. ReapOK'
    BY <1>12 DEF ClearWf, TypeOK, ReapOK, StepOK, WfStages, Gone
  <2> QED
    BY <2>1, <2>2, <2>3, <2>4, <2>5, <2>6, <2>7
<1>13. ASSUME LeaveLoop(r) PROVE LifeInv'
  <2>1. TypeOK'
    BY <1>13 DEF LeaveLoop, TypeOK, CtrlPcs, WfPcs, Holding, Ended
  <2>2. PoolOwnsMemory'
    BY <1>13 DEF LeaveLoop, TypeOK, PoolOwnsMemory, Holding
  <2>3. PidIsOwnChild'
    BY <1>13 DEF LeaveLoop, TypeOK, PidIsOwnChild, WfStages, StepOK, Holding
  <2>4. OwnMemory'
    BY <1>13 DEF LeaveLoop, TypeOK, PoolOwnsMemory, OwnMemory, WfStages, Holding
  <2>5. WfStages'
    BY <1>13 DEF LeaveLoop, TypeOK, WfStages, Holding
  <2>6. StepOK'
    BY <1>13 DEF LeaveLoop, TypeOK, StepOK, Holding
  <2>7. ReapOK'
    <3>1. step[r] = "check" /\ step' = step /\ k'[r] = 0
      BY <1>13 DEF LeaveLoop, TypeOK, StepOK
    <3> QED
      BY <1>13, <3>1 DEF LeaveLoop, TypeOK, ReapOK, Gone
  <2> QED
    BY <2>1, <2>2, <2>3, <2>4, <2>5, <2>6, <2>7
<1>14. ASSUME Reaped(r) PROVE LifeInv'
  <2>1. TypeOK'
    BY <1>14 DEF Reaped, TypeOK, CtrlPcs, WfPcs, Holding, Ended
  <2>2. PoolOwnsMemory'
    BY <1>14 DEF Reaped, TypeOK, PoolOwnsMemory, Holding
  <2>3. PidIsOwnChild'
    BY <1>14 DEF Reaped, TypeOK, PidIsOwnChild, WfStages, StepOK, Holding
  <2>4. OwnMemory'
    BY <1>14 DEF Reaped, TypeOK, PoolOwnsMemory, OwnMemory, WfStages, Holding
  <2>5. WfStages'
    BY <1>14 DEF Reaped, TypeOK, WfStages, Holding
  <2>6. StepOK'
    BY <1>14 DEF Reaped, TypeOK, StepOK, Holding
  <2>7. ReapOK'
    BY <1>14 DEF Reaped, TypeOK, ReapOK, StepOK, WfStages, Gone
  <2> QED
    BY <2>1, <2>2, <2>3, <2>4, <2>5, <2>6, <2>7
<1>15. ASSUME Remove(r) PROVE LifeInv'
  <2>1. TypeOK'
    BY <1>15 DEF Remove, TypeOK, CtrlPcs, WfPcs, Holding, Ended
  <2>2. PoolOwnsMemory'
    BY <1>15 DEF Remove, TypeOK, PoolOwnsMemory, Holding
  <2>3. PidIsOwnChild'
    BY <1>15 DEF Remove, TypeOK, PidIsOwnChild, WfStages, StepOK, Holding
  <2>4. OwnMemory'
    BY <1>15 DEF Remove, TypeOK, PoolOwnsMemory, OwnMemory, WfStages, Holding
  <2>5. WfStages'
    BY <1>15 DEF Remove, TypeOK, WfStages, Holding
  <2>6. StepOK'
    BY <1>15 DEF Remove, TypeOK, StepOK, Holding
  <2>7. ReapOK'
    BY <1>15 DEF Remove, TypeOK, ReapOK, StepOK, WfStages, Gone
  <2> QED
    BY <2>1, <2>2, <2>3, <2>4, <2>5, <2>6, <2>7
<1>16. ASSUME Killed(r) PROVE LifeInv'
  <2>1. TypeOK'
    BY <1>16 DEF Killed, TypeOK, CtrlPcs, WfPcs, Holding, Ended
  <2>2. PoolOwnsMemory'
    BY <1>16 DEF Killed, TypeOK, PoolOwnsMemory, Holding
  <2>3. PidIsOwnChild'
    BY <1>16 DEF Killed, TypeOK, PidIsOwnChild, WfStages, StepOK, Holding
  <2>4. OwnMemory'
    BY <1>16 DEF Killed, TypeOK, PoolOwnsMemory, OwnMemory, WfStages, Holding
  <2>5. WfStages'
    BY <1>16 DEF Killed, TypeOK, WfStages, Holding
  <2>6. StepOK'
    BY <1>16 DEF Killed, TypeOK, StepOK, Holding
  <2>7. ReapOK'
    BY <1>16 DEF Killed, TypeOK, ReapOK, StepOK, WfStages, Gone
  <2> QED
    BY <2>1, <2>2, <2>3, <2>4, <2>5, <2>6, <2>7
<1> QED
  BY <1>1, <1>2, <1>3, <1>4, <1>5, <1>6, <1>7, <1>8,
     <1>9, <1>10, <1>11, <1>12, <1>13, <1>14, <1>15, <1>16
  DEF Control

(* A worker of a run.                                                      *)
LEMMA WorkerStep ==
  ASSUME LifeInv, NEW r \in Runs, NEW i \in Wf,
         Worker(r, i) \/ WfDies(r, i) \/ WfSticks(r, i)
  PROVE  LifeInv'
<1> USE LifeAssumption DEF LifeInv, ctrlVars, Wf
<1>1. ASSUME SetPid(r, i) PROVE LifeInv'
  <2>1. TypeOK'
    BY <1>1 DEF SetPid, TypeOK, CtrlPcs, WfPcs, Holding, Ended
  <2>2. PoolOwnsMemory'
    BY <1>1 DEF SetPid, TypeOK, PoolOwnsMemory, Holding
  <2>3. PidIsOwnChild'
    BY <1>1 DEF SetPid, TypeOK, PidIsOwnChild, WfStages, StepOK, Holding
  <2>4. OwnMemory'
    BY <1>1 DEF SetPid, TypeOK, PoolOwnsMemory, OwnMemory, WfStages, Holding
  <2>5. WfStages'
    BY <1>1 DEF SetPid, TypeOK, WfStages, Holding
  <2>6. StepOK'
    BY <1>1 DEF SetPid, TypeOK, StepOK, Holding
  <2>7. ReapOK'
    BY <1>1 DEF SetPid, TypeOK, ReapOK, StepOK, WfStages, Gone
  <2> QED
    BY <2>1, <2>2, <2>3, <2>4, <2>5, <2>6, <2>7
<1>2. ASSUME Die(r, i), ~Gone(r, i) PROVE LifeInv'
  <2>1. TypeOK'
    BY <1>2 DEF Die, TypeOK, CtrlPcs, WfPcs, Holding, Ended
  <2>2. PoolOwnsMemory'
    BY <1>2 DEF Die, TypeOK, PoolOwnsMemory, Holding
  <2>3. PidIsOwnChild'
    BY <1>2 DEF Die, TypeOK, PidIsOwnChild, WfStages, StepOK, Holding
  <2>4. OwnMemory'
    BY <1>2 DEF Die, TypeOK, PoolOwnsMemory, OwnMemory, WfStages, Holding
  <2>5. WfStages'
    BY <1>2 DEF Die, TypeOK, WfStages, Gone
  <2>6. StepOK'
    BY <1>2 DEF Die, TypeOK, StepOK, Holding
  <2>7. ReapOK'
    BY <1>2 DEF Die, TypeOK, ReapOK, StepOK, WfStages, Gone
  <2> QED
    BY <2>1, <2>2, <2>3, <2>4, <2>5, <2>6, <2>7
<1>3. ASSUME Attach(r, i) PROVE LifeInv'
  <2>1. TypeOK'
    BY <1>3 DEF Attach, TypeOK, CtrlPcs, WfPcs, Holding, Ended
  <2>2. PoolOwnsMemory'
    BY <1>3 DEF Attach, TypeOK, PoolOwnsMemory, Holding
  <2>3. PidIsOwnChild'
    BY <1>3 DEF Attach, TypeOK, PidIsOwnChild, WfStages, StepOK, Holding
  <2>4. OwnMemory'
    BY <1>3 DEF Attach, TypeOK, PoolOwnsMemory, OwnMemory, WfStages, Holding
  <2>5. WfStages'
    BY <1>3 DEF Attach, TypeOK, WfStages, Holding
  <2>6. StepOK'
    BY <1>3 DEF Attach, TypeOK, StepOK, Holding
  <2>7. ReapOK'
    BY <1>3 DEF Attach, TypeOK, ReapOK, StepOK, WfStages, Gone
  <2> QED
    BY <2>1, <2>2, <2>3, <2>4, <2>5, <2>6, <2>7
<1>4. ASSUME WfReady(r, i) PROVE LifeInv'
  <2>1. TypeOK'
    BY <1>4 DEF WfReady, TypeOK, CtrlPcs, WfPcs, Holding, Ended
  <2>2. PoolOwnsMemory'
    BY <1>4 DEF WfReady, TypeOK, PoolOwnsMemory, Holding
  <2>3. PidIsOwnChild'
    BY <1>4 DEF WfReady, TypeOK, PidIsOwnChild, WfStages, StepOK, Holding
  <2>4. OwnMemory'
    BY <1>4 DEF WfReady, TypeOK, PoolOwnsMemory, OwnMemory, WfStages, Holding
  <2>5. WfStages'
    BY <1>4 DEF WfReady, TypeOK, WfStages, Holding
  <2>6. StepOK'
    BY <1>4 DEF WfReady, TypeOK, StepOK, Holding
  <2>7. ReapOK'
    BY <1>4 DEF WfReady, TypeOK, ReapOK, StepOK, WfStages, Gone
  <2> QED
    BY <2>1, <2>2, <2>3, <2>4, <2>5, <2>6, <2>7
<1>5. ASSUME IntBreaks(r, i) PROVE LifeInv'
  <2>1. TypeOK'
    BY <1>5 DEF IntBreaks, TypeOK, CtrlPcs, WfPcs, Holding, Ended
  <2>2. PoolOwnsMemory'
    BY <1>5 DEF IntBreaks, TypeOK, PoolOwnsMemory, Holding
  <2>3. PidIsOwnChild'
    BY <1>5 DEF IntBreaks, TypeOK, PidIsOwnChild, WfStages, StepOK, Holding
  <2>4. OwnMemory'
    BY <1>5 DEF IntBreaks, TypeOK, PoolOwnsMemory, OwnMemory, WfStages, Holding
  <2>5. WfStages'
    BY <1>5 DEF IntBreaks, TypeOK, WfStages, Holding
  <2>6. StepOK'
    BY <1>5 DEF IntBreaks, TypeOK, StepOK, Holding
  <2>7. ReapOK'
    BY <1>5 DEF IntBreaks, TypeOK, ReapOK, StepOK, WfStages, Gone
  <2> QED
    BY <2>1, <2>2, <2>3, <2>4, <2>5, <2>6, <2>7
<1>6. ASSUME WfSticks(r, i) PROVE LifeInv'
  <2>1. TypeOK'
    BY <1>6 DEF WfSticks, TypeOK, CtrlPcs, WfPcs, Holding, Ended
  <2>2. PoolOwnsMemory'
    BY <1>6 DEF WfSticks, TypeOK, PoolOwnsMemory, Holding
  <2>3. PidIsOwnChild'
    BY <1>6 DEF WfSticks, TypeOK, PidIsOwnChild, WfStages, StepOK, Holding
  <2>4. OwnMemory'
    BY <1>6 DEF WfSticks, TypeOK, PoolOwnsMemory, OwnMemory, WfStages, Holding
  <2>5. WfStages'
    BY <1>6 DEF WfSticks, TypeOK, WfStages, Holding
  <2>6. StepOK'
    BY <1>6 DEF WfSticks, TypeOK, StepOK, Holding
  <2>7. ReapOK'
    BY <1>6 DEF WfSticks, TypeOK, ReapOK, StepOK, WfStages, Gone
  <2> QED
    BY <2>1, <2>2, <2>3, <2>4, <2>5, <2>6, <2>7
<1> QED
  BY <1>1, <1>2, <1>3, <1>4, <1>5, <1>6
  DEF Worker, AttachFails, IntKills, WfExit, WfDies, Gone

LEMMA LifeStep == LifeInv /\ [Next]_vars => LifeInv'
<1> SUFFICES ASSUME LifeInv, [Next]_vars PROVE LifeInv'
  OBVIOUS
<1>1. CASE Next
  BY <1>1, ControlStep, WorkerStep DEF Next
<1>2. CASE UNCHANGED vars
  BY <1>2
  DEF vars, ctrlVars, LifeInv, TypeOK, PoolOwnsMemory, PidIsOwnChild,
      OwnMemory, WfStages, StepOK, ReapOK, Gone
<1> QED
  BY <1>1, <1>2

-----------------------------------------------------------------------------
(* LifeInv holds in every reachable state, for any starts and any pool.    *)
THEOREM LifeSafe == Spec => []LifeInv
<1>1. Init => LifeInv
  BY LifeInit
<1>2. LifeInv /\ [Next]_vars => LifeInv'
  BY LifeStep
<1> QED
  BY <1>1, <1>2, PTL DEF Spec

(* Type correctness: no loop of the control process leaves its table, and  *)
(* every worker is in a known place (jmm_proc.c:98, 138; jmm_event.c:222). *)
THEOREM LifeTypeCorrect == Spec => []TypeOK
<1>1. LifeInv => TypeOK
  BY DEF LifeInv
<1> QED
  BY <1>1, LifeSafe, PTL

(* One pool at a time, and only a killed control process leaves its shared *)
(* memory behind (jmm_shm.c:69, jmm.c:109-144).                            *)
THEOREM MemoryOwned == Spec => []PoolOwnsMemory
<1>1. LifeInv => PoolOwnsMemory
  BY DEF LifeInv
<1> QED
  BY <1>1, LifeSafe, PTL

(* jmm_ctrl_c_cb and jmm_uninit_proc signal and wait for children only     *)
(* (jmm_event.c:225-229, jmm_proc.c:140-149).                              *)
THEOREM PidsAreChildren == Spec => []PidIsOwnChild
<1>1. LifeInv => PidIsOwnChild
  BY DEF LifeInv
<1> QED
  BY <1>1, LifeSafe, PTL

(* A worker attaches the memory of its own control process as long as that *)
(* one is there (jmm_shm.c:112-125).                                       *)
THEOREM MemoryOfOwnPool == Spec => []OwnMemory
<1>1. LifeInv => OwnMemory
  BY DEF LifeInv
<1> QED
  BY <1>1, LifeSafe, PTL

(* Only workers that had not written their pid in time outlive a pool that *)
(* was stopped (jmm_event.c:222-230, jmm_proc.c:138-150).                  *)
THEOREM StoppedPoolIsEmpty == Spec => []StoppedPoolEmpty
<1>1. LifeInv => StoppedPoolEmpty
  BY DEF LifeInv, ReapOK, StoppedPoolEmpty
<1> QED
  BY <1>1, LifeSafe, PTL
=============================================================================
