----------------------------- MODULE ShmLayout ------------------------------
(***************************************************************************)
(* Where the records of the shared memory are: a header, and for each      *)
(* worker a record that ends in an array of its slots.  Sizes and places   *)
(* are in bytes from the start of the segment (src/src/jmm_shm.c).  Size   *)
(* computations do not overflow.                                           *)
(*                                                                         *)
(* JmmPool has a variable for each field of each record: that is right     *)
(* because the records do not overlap and lie in the segment.              *)
(***************************************************************************)
EXTENDS Integers, TLAPS

CONSTANTS
  ProcNum,   (* conf->proc_num                                           *)
  SlotNum,   (* conf->proc_svr_num                                       *)
  ShmHead,   (* offset(jmm_shm, shm_wf)                                  *)
  WfHead,    (* offset(jmm_shm_wf, shm_sock)                             *)
  SockSize   (* sizeof(struct jmm_shm_sock)                              *)

Wf == 0 .. (ProcNum - 1)
Slots == 0 .. (SlotNum - 1)

WfSize == WfHead + SlotNum * SockSize
ShmSize == ShmHead + ProcNum * WfSize

GetWf(w) == ShmHead + w * WfSize
GetSock(w, s) == GetWf(w) + WfHead + s * SockSize

(* The bytes of the fields of worker w before its slots, and of a slot.    *)
WfBytes(w) == GetWf(w) .. (GetWf(w) + WfHead - 1)
SockBytes(w, s) == GetSock(w, s) .. (GetSock(w, s) + SockSize - 1)

(* The bytes of everything that belongs to worker w.                       *)
RecordBytes(w) == GetWf(w) .. (GetWf(w) + WfSize - 1)

(* The sizes are what sizeof and offset make of the structures.            *)
Sizes ==
  /\ ProcNum \in Nat
  /\ SlotNum \in Nat
  /\ ShmHead \in Nat
  /\ WfHead \in Nat
  /\ SockSize \in Nat

(* The n-th of the records of a size ends before the m-th begins.          *)
LEMMA RecordsApart ==
  ASSUME NEW size \in Nat, NEW n \in Nat, NEW m \in Nat, n < m
  PROVE  n * size + size <= m * size /\ n * size \in Nat /\ m * size \in Nat
<1>1. n + 1 <= m
  OBVIOUS
<1>2. m * size = (n + 1) * size + (m - n - 1) * size
  OBVIOUS
<1>3. (m - n - 1) * size >= 0
  BY <1>1
<1> QED
  BY <1>2, <1>3

LEMMA SizesAreNat ==
  ASSUME Sizes
  PROVE  /\ WfSize \in Nat
         /\ \A w \in Nat : GetWf(w) \in Nat
         /\ \A w, s \in Nat : GetSock(w, s) \in Nat
<1> USE DEF Sizes
<1>1. SlotNum * SockSize \in Nat
  OBVIOUS
<1>2. WfSize \in Nat
  BY <1>1 DEF WfSize
<1>3. \A w \in Nat : w * WfSize \in Nat
  BY <1>2
<1>4. \A w \in Nat : GetWf(w) \in Nat
  BY <1>3 DEF GetWf
<1>5. \A s \in Nat : s * SockSize \in Nat
  OBVIOUS
<1> QED
  BY <1>2, <1>4, <1>5 DEF GetSock

(* The fields and slots of a worker lie in its record: jmm_shm_wf_size     *)
(* leaves room for all of them.                                            *)
LEMMA InRecord ==
  ASSUME Sizes, NEW w \in Wf, NEW s \in Slots
  PROVE  /\ WfBytes(w) \subseteq RecordBytes(w)
         /\ SockBytes(w, s) \subseteq RecordBytes(w)
         /\ WfBytes(w) \cap SockBytes(w, s) = {}
<1>1. s * SockSize + SockSize <= SlotNum * SockSize /\ s * SockSize \in Nat
  BY RecordsApart DEF Sizes, Slots
<1>2. GetWf(w) \in Nat /\ WfSize \in Nat /\ SlotNum * SockSize \in Nat
  <2>1. w \in Nat
    BY DEF Wf, Sizes
  <2>2. SlotNum * SockSize \in Nat
    BY DEF Sizes
  <2> QED
    BY <2>1, <2>2, SizesAreNat
<1> QED
  BY <1>1, <1>2 DEF Sizes, WfBytes, SockBytes, RecordBytes, GetSock, WfSize

(* No byte belongs to two workers, none to two slots of a worker, and all  *)
(* are in the segment that jmm_init_shm asks for with jmm_shm_size: what   *)
(* one worker writes in its record no other process takes for its own.     *)
THEOREM RecordsDisjoint ==
  ASSUME Sizes
  PROVE  /\ \A w \in Wf : RecordBytes(w) \subseteq ShmHead .. (ShmSize - 1)
         /\ \A v, w \in Wf : v # w => RecordBytes(v) \cap RecordBytes(w) = {}
         /\ \A w \in Wf, s, t \in Slots :
              s # t => SockBytes(w, s) \cap SockBytes(w, t) = {}
<1>1. WfSize \in Nat /\ ShmHead \in Nat /\ SockSize \in Nat
  BY SizesAreNat DEF Sizes
<1>2. ASSUME NEW w \in Wf
      PROVE  RecordBytes(w) \subseteq ShmHead .. (ShmSize - 1)
  <2>1. w * WfSize + WfSize <= ProcNum * WfSize /\ w * WfSize \in Nat
    BY <1>1, RecordsApart DEF Wf, Sizes
  <2>2. ProcNum * WfSize \in Nat
    BY <1>1 DEF Sizes
  <2> QED
    BY <1>1, <2>1, <2>2 DEF RecordBytes, GetWf, ShmSize
<1>3. ASSUME NEW v \in Wf, NEW w \in Wf, v < w
      PROVE  RecordBytes(v) \cap RecordBytes(w) = {}
  <2>1. /\ v * WfSize + WfSize <= w * WfSize
        /\ v * WfSize \in Nat /\ w * WfSize \in Nat
    BY <1>1, <1>3, RecordsApart DEF Wf, Sizes
  <2> QED
    BY <1>1, <2>1 DEF RecordBytes, GetWf
<1>4. ASSUME NEW w \in Wf, NEW s \in Slots, NEW t \in Slots, s < t
      PROVE  SockBytes(w, s) \cap SockBytes(w, t) = {}
  <2>1. /\ s * SockSize + SockSize <= t * SockSize
        /\ s * SockSize \in Nat /\ t * SockSize \in Nat
    BY <1>1, <1>4, RecordsApart DEF Slots, Sizes
  <2>2. GetWf(w) \in Nat /\ WfHead \in Nat
    <3>1. w \in Nat /\ WfHead \in Nat
      BY DEF Wf, Sizes
    <3> QED
      BY <3>1, SizesAreNat
  <2> QED
    BY <1>1, <2>1, <2>2 DEF SockBytes, GetSock
<1>5. ASSUME NEW v \in Wf, NEW w \in Wf, v # w
      PROVE  RecordBytes(v) \cap RecordBytes(w) = {}
  <2>1. v < w \/ w < v
    BY <1>5 DEF Wf, Sizes
  <2> QED
    BY <1>3, <2>1
<1>6. ASSUME NEW w \in Wf, NEW s \in Slots, NEW t \in Slots, s # t
      PROVE  SockBytes(w, s) \cap SockBytes(w, t) = {}
  <2>1. s < t \/ t < s
    BY <1>6 DEF Slots, Sizes
  <2> QED
    BY <1>4, <2>1
<1> QED
  BY <1>2, <1>5, <1>6
=============================================================================
