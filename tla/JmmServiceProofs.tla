------------------------- MODULE JmmServiceProofs --------------------------
(***************************************************************************)
(* Proofs about JmmService for any connections, stream lengths and chunk   *)
(* size: the streams are served without gap, and to their end.             *)
(***************************************************************************)
EXTENDS JmmService, SequenceTheorems, TLAPS

(***************************************************************************)
(* Facts about prefixes and parts of sequences.                            *)
(***************************************************************************)
LEMMA PartsOfSeq ==
  ASSUME NEW s \in Seq(Nat), NEW n \in 1 .. Len(s)
  PROVE  /\ SubSeq(s, 1, n) \in Seq(Nat)
         /\ SubSeq(s, n + 1, Len(s)) \in Seq(Nat)
         /\ SubSeq(s, 1, n) \o SubSeq(s, n + 1, Len(s)) = s
<1>1. Len(s) \in Nat /\ \A i \in 1 .. Len(s) : s[i] \in Nat
  BY LenProperties, ElementOfSeq
<1>2. SubSeq(s, 1, n) \in Seq(Nat)
  BY <1>1, SubSeqProperties
<1>3. SubSeq(s, n + 1, Len(s)) \in Seq(Nat)
  BY <1>1, SubSeqProperties
<1>4. SubSeq(s, 1, n) \o SubSeq(s, n + 1, Len(s)) = SubSeq(s, 1, Len(s))
  <2>1. 1 \in 1 .. Len(s) + 1 /\ n \in 1 - 1 .. Len(s) /\ Len(s) \in n .. Len(s)
    BY <1>1
  <2> QED
    BY <2>1, ConcatAdjacentSubSeq
<1> QED
  BY <1>2, <1>3, <1>4, SubSeqFull

LEMMA ConcatAssoc ==
  \A s, t, u \in Seq(Nat) : (s \o t) \o u = s \o (t \o u)
  BY ConcatAssociative, SMTT(30)

LEMMA PrefixOfConcat ==
  ASSUME NEW s \in Seq(Nat), NEW u \in Seq(Nat)
  PROVE  IsPrefix(s, s \o u)
<1>1. Len(s) <= Len(s \o u)
  BY ConcatProperties, LenProperties
<1>2. CASE s = << >>
  BY <1>1, <1>2, SubSeqEmpty DEF IsPrefix
<1>3. CASE s # << >>
  <2>1. Len(s) \in 1 .. Len(s)
    BY <1>3, LenProperties, EmptySeq
  <2>2. 1 \in 1 .. Len(s)
    BY <2>1
  <2>3. SubSeq(s \o u, 1, Len(s)) = SubSeq(s, 1, Len(s))
    BY <2>1, <2>2, SubSeqOfConcat1
  <2> QED
    BY <1>1, <2>3 DEF IsPrefix
<1> QED
  BY <1>2, <1>3

LEMMA PrefixOfAppend ==
  ASSUME NEW s \in Seq(Nat), NEW t \in Seq(Nat), NEW e \in Nat, IsPrefix(s, t)
  PROVE  IsPrefix(s, Append(t, e))
<1>1. Len(s) <= Len(t) /\ SubSeq(s, 1, Len(s)) = SubSeq(t, 1, Len(s))
  BY DEF IsPrefix
<1>2. Append(t, e) = t \o <<e>> /\ Len(Append(t, e)) = Len(t) + 1
  BY AppendIsConcat, AppendProperties
<1>3. Len(s) \in Nat /\ Len(t) \in Nat
  BY LenProperties
<1>4. SubSeq(Append(t, e), 1, Len(s)) = SubSeq(t, 1, Len(s))
  <2>1. CASE Len(s) = 0
    BY <2>1, SubSeqEmpty
  <2>2. CASE Len(s) # 0
    <3>1. 1 \in 1 .. Len(t) /\ Len(s) \in 1 .. Len(t)
      BY <1>1, <1>3, <2>2
    <3>2. <<e>> \in Seq(Nat)
      OBVIOUS
    <3> QED
      BY <1>2, <3>1, <3>2, SubSeqOfConcat1
  <2> QED
    BY <2>1, <2>2
<1> QED
  BY <1>1, <1>2, <1>3, <1>4 DEF IsPrefix

(***************************************************************************)
(* Type correctness and the streams.                                       *)
(***************************************************************************)
LEMMA Init_Inv == Init => ServiceInv
<1> SUFFICES ASSUME Init PROVE ServiceInv
  OBVIOUS
<1>1. << >> \in Seq(Nat)
  OBVIOUS
<1>2. TypeOK
  BY <1>1 DEF Init, TypeOK, WfPcs
<1>3. NothingLeftBehind
  BY DEF Init, NothingLeftBehind
<1> QED
  BY <1>2, <1>3 DEF Init, ServiceInv

LEMMA Peer_Inv ==
  ASSUME ServiceInv, NEW c \in Conns, PeerSend(c) \/ PeerEnd(c) \/ PeerReset(c)
  PROVE  ServiceInv'
<1> USE DEF ServiceInv, bufVars, cbVars, lockVars, WfPcs
<1>1. CASE PeerSend(c)
  <2>1. TypeOK'
    BY <1>1 DEF PeerSend, TypeOK
  <2> QED
    BY <1>1, <2>1 DEF PeerSend, TypeOK, NothingLeftBehind
<1>2. CASE PeerEnd(c) \/ PeerReset(c)
  <2>1. TypeOK'
    BY <1>2 DEF PeerEnd, PeerReset, TypeOK
  <2>2. \A d \in Conns : /\ peer'[d] = "open" => peer[d] = "open"
                         /\ peer[d] = "reset" => peer'[d] = "reset"
    BY <1>2 DEF PeerEnd, PeerReset, TypeOK
  <2>3. NothingLeftBehind'
    BY <1>2 DEF PeerEnd, PeerReset, NothingLeftBehind
  <2>4. /\ sent' = sent /\ taken' = taken /\ input' = input /\ served' = served
        /\ end' = end /\ wpc' = wpc /\ cur' = cur /\ len' = len
    BY <1>2 DEF PeerEnd, PeerReset
  <2> QED
    BY <2>1, <2>2, <2>3, <2>4
<1> QED
  BY <1>1, <1>2

(* The events of the loop: bytes arrive only at a connection that is not   *)
(* freed, and it is freed as ended only when it has been read out.         *)
LEMMA Event_Inv ==
  ASSUME ServiceInv, NEW c \in Conns,
         ReadEvent(c) \/ WriteEvent(c) \/ EofEvent(c) \/ ErrorEvent(c)
  PROVE  ServiceInv'
<1> USE DEF ServiceInv, peerVars, bufVars, cbVars, lockVars, InLoop, WfPcs
<1>1. CASE ReadEvent(c)
  <2>1. PICK n \in 1 .. (sent[c] - taken[c]) :
          /\ taken' = [taken EXCEPT ![c] = @ + n]
          /\ input' = [input EXCEPT ![c] = @ + n]
    BY <1>1 DEF ReadEvent
  <2>2. n \in Nat /\ n <= sent[c] - taken[c]
    BY <2>1 DEF TypeOK
  <2>3. TypeOK'
    <3>1. taken[c] + n \in Nat /\ input[c] + n \in Nat
      BY <2>2 DEF TypeOK
    <3>2. taken' \in [Conns -> Nat] /\ input' \in [Conns -> Nat]
      BY <2>1, <3>1 DEF TypeOK
    <3> QED
      BY <1>1, <3>2 DEF ReadEvent, TypeOK
  <2>4. NothingLeftBehind'
    <3>1. SUFFICES ASSUME NEW d \in Conns
                   PROVE  /\ served'[d] + input'[d] = taken'[d]
                          /\ d # c => input'[d] = 0
      BY <1>1 DEF ReadEvent, NothingLeftBehind
    <3>2. served[d] + input[d] = taken[d] /\ input[d] = 0
      BY <1>1 DEF ReadEvent, NothingLeftBehind
    <3>3. /\ served'[d] = served[d]
          /\ input'[d] = IF d = c THEN input[d] + n ELSE input[d]
          /\ taken'[d] = IF d = c THEN taken[d] + n ELSE taken[d]
      BY <1>1, <2>1 DEF ReadEvent, TypeOK
    <3>4. served[d] \in Nat /\ taken[d] \in Nat
      BY DEF TypeOK
    <3> QED
      BY <2>2, <3>2, <3>3, <3>4
  <2>5. \A d \in Conns : taken'[d] <= sent'[d]
    BY <1>1, <2>1, <2>2 DEF ReadEvent, TypeOK
  <2> QED
    BY <1>1, <2>3, <2>4, <2>5 DEF ReadEvent
<1>2. CASE WriteEvent(c)
  <2>1. PICK n \in 1 .. Len(out[c]) :
          /\ out' = [out EXCEPT ![c] = SubSeq(@, n + 1, Len(@))]
          /\ got' = IF peer[c] = "reset" THEN got
                    ELSE [got EXCEPT ![c] = @ \o SubSeq(out[c], 1, n)]
    BY <1>2 DEF WriteEvent
  <2>2. out[c] \in Seq(Nat) /\ got[c] \in Seq(Nat)
    BY DEF TypeOK
  <2>3. /\ SubSeq(out[c], n + 1, Len(out[c])) \in Seq(Nat)
        /\ got[c] \o SubSeq(out[c], 1, n) \in Seq(Nat)
    BY <2>1, <2>2, PartsOfSeq, ConcatProperties
  <2>4. TypeOK'
    BY <1>2, <2>1, <2>3 DEF WriteEvent, TypeOK
  <2> QED
    BY <1>2, <2>4 DEF WriteEvent, NothingLeftBehind
<1>3. CASE EofEvent(c) \/ ErrorEvent(c)
  <2>1. PICK what \in {"eof", "error"} :
          /\ SockEvent(c, what)
          /\ what = "eof" => peer[c] = "ended" /\ taken[c] = sent[c]
          /\ what = "error" => peer[c] = "reset"
    BY <1>3 DEF EofEvent, ErrorEvent
  <2>2. TypeOK'
    BY <2>1 DEF SockEvent, TypeOK
  <2>3. NothingLeftBehind'
    BY <2>1 DEF SockEvent, NothingLeftBehind
  <2> QED
    BY <2>1, <2>2, <2>3 DEF SockEvent
<1> QED
  BY <1>1, <1>2, <1>3

(* The mutex of jmm_sock_event_wf_cb: the connection it frees has been     *)
(* read out and served while the worker waited.                            *)
LEMMA Lock_Inv ==
  ASSUME ServiceInv, LockWait \/ Free
  PROVE  ServiceInv'
<1> USE DEF ServiceInv, peerVars, bufVars, cbVars, lockVars, AtLock, WfPcs
<1>1. CASE LockWait
  <2>1. TypeOK'
    BY <1>1 DEF LockWait, TypeOK
  <2> QED
    BY <1>1, <2>1 DEF LockWait, NothingLeftBehind
<1>2. CASE Free
  <2>1. /\ cur \in Conns /\ wpc \in {"eof", "error"}
        /\ end' = [end EXCEPT ![cur] = wpc]
    BY <1>2 DEF Free
  <2>2. TypeOK'
    BY <1>2, <2>1 DEF Free, TypeOK
  <2>3. \A c \in Conns : input[c] = 0 /\ served[c] = taken[c]
    BY <2>1 DEF NothingLeftBehind, TypeOK
  <2>4. NothingLeftBehind'
    BY <1>2, <2>1, <2>3 DEF Free, NothingLeftBehind, TypeOK
  <2>5. \A d \in Conns : end'[d] = "eof" => peer'[d] # "open" /\ served'[d] = sent'[d]
    BY <1>2, <2>1, <2>3 DEF Free, TypeOK
  <2> QED
    BY <1>2, <2>2, <2>4, <2>5 DEF Free
<1> QED
  BY <1>1, <1>2

(* jmm_sock_read_wf_cb: what a chunk takes from the buffer is what it      *)
(* gives to the service, and len never exceeds what is in the buffer.      *)
LEMMA Callback_Inv ==
  ASSUME ServiceInv, Callback
  PROVE  ServiceInv'
<1> USE DEF ServiceInv, peerVars, bufVars, cbVars, lockVars, WfPcs
<1>0. CASE LockWait \/ Free
  BY <1>0, Lock_Inv
<1>1. CASE GetLength
  <2>1. TypeOK'
    BY <1>1 DEF GetLength, TypeOK
  <2> QED
    BY <1>1, <2>1 DEF GetLength, TypeOK, NothingLeftBehind
<1>2. CASE Serve
  <2>1. cur \in Conns /\ len \in Nat /\ input[cur] \in Nat /\ len <= input[cur]
    BY <1>2 DEF Serve, TypeOK
  <2>2. Chunk \in Nat /\ Chunk <= len
    BY <2>1, ServiceAssumption DEF Chunk
  <2>3. served[cur] + Chunk \in Nat
    BY <2>1, <2>2 DEF TypeOK
  <2>4. /\ out' \in [Conns -> Seq(Nat)]
        /\ replies' \in [Conns -> Seq(Nat)]
        /\ broken' \in BOOLEAN
    <3>1. /\ Append(out[cur], served[cur] + Chunk) \in Seq(Nat)
          /\ Append(replies[cur], served[cur] + Chunk) \in Seq(Nat)
      BY <2>1, <2>3 DEF TypeOK
    <3>2. out \in [Conns -> Seq(Nat)] /\ replies \in [Conns -> Seq(Nat)]
      BY DEF TypeOK
    <3>3. broken \in BOOLEAN
      BY DEF TypeOK
    <3>4. Outcome(served[cur] + Chunk)
      BY <1>2 DEF Serve
    <3> QED
      BY <2>1, <3>1, <3>2, <3>3, <3>4 DEF Outcome
  <2>5. TypeOK'
    <3>1. len - Chunk \in Nat /\ input[cur] - Chunk \in Nat
      BY <2>1, <2>2
    <3>2. /\ len' \in Nat
          /\ input' \in [Conns -> Nat]
          /\ served' \in [Conns -> Nat]
      BY <1>2, <2>1, <2>3, <3>1 DEF Serve, TypeOK
    <3> QED
      BY <1>2, <2>4, <3>2 DEF Serve, TypeOK
  <2>6. NothingLeftBehind'
    <3>1. SUFFICES ASSUME NEW d \in Conns
                   PROVE  /\ served'[d] + input'[d] = taken'[d]
                          /\ d # cur => input'[d] = 0
      BY <1>2 DEF Serve, NothingLeftBehind
    <3>2. /\ served[d] + input[d] = taken[d]
          /\ d # cur => input[d] = 0
      BY <1>2 DEF Serve, NothingLeftBehind
    <3>3. /\ served'[d] = IF d = cur THEN served[d] + Chunk ELSE served[d]
          /\ input'[d] = IF d = cur THEN input[d] - Chunk ELSE input[d]
          /\ taken'[d] = taken[d]
      BY <1>2 DEF Serve, TypeOK
    <3>4. served[d] \in Nat /\ input[d] \in Nat /\ taken[d] \in Nat
      BY DEF TypeOK
    <3> QED
      BY <2>2, <3>2, <3>3, <3>4
  <2>7. len' # 0 => len' <= input'[cur']
    BY <1>2, <2>1, <2>2 DEF Serve, TypeOK
  <2>8. \A d \in Conns : end'[d] = "eof" => peer'[d] # "open" /\ served'[d] = sent'[d]
    BY <1>2, <2>1 DEF Serve, TypeOK
  <2> QED
    BY <1>2, <2>5, <2>6, <2>7, <2>8 DEF Serve
<1>3. CASE ReadDone
  <2>1. TypeOK'
    BY <1>3 DEF ReadDone, TypeOK
  <2> QED
    BY <1>3, <2>1 DEF ReadDone, TypeOK, NothingLeftBehind
<1> QED
  BY <1>0, <1>1, <1>2, <1>3 DEF Callback

(* The control process, a signal to a sleeper and a further connection     *)
(* leave the streams alone.                                                *)
LEMMA Other_Inv ==
  ASSUME ServiceInv, ControlProcess \/ IntWakes \/ CmmRead \/ CmmReadBlocks
  PROVE  ServiceInv'
<1> USE DEF ServiceInv, peerVars, bufVars, cbVars, lockVars, InLoop, WfPcs
<1>1. CASE ControlProcess
  <2>1. TypeOK'
    BY <1>1 DEF ControlProcess, CtrlLocks, CtrlUnlocks, CtrlAssigns, TypeOK
  <2> QED
    BY <1>1, <2>1
    DEF ControlProcess, CtrlLocks, CtrlUnlocks, CtrlAssigns, NothingLeftBehind
<1>2. CASE IntWakes \/ CmmRead \/ CmmReadBlocks
  <2>1. TypeOK'
    BY <1>2 DEF IntWakes, CmmRead, CmmReadBlocks, TypeOK
  <2> QED
    BY <1>2, <2>1 DEF IntWakes, CmmRead, CmmReadBlocks, NothingLeftBehind
<1> QED
  BY <1>1, <1>2

(* The worker leaves its loop, is ended by a write, or goes on.            *)
LEMMA Leave_Inv ==
  ASSUME ServiceInv,
         CtrlCWf \/ UninitEventWf \/ \E c \in Conns : Sigpipe(c)
  PROVE  ServiceInv'
<1> USE DEF ServiceInv, peerVars, bufVars, cbVars, lockVars, InLoop, WfPcs
<1>1. CASE CtrlCWf
  <2>1. TypeOK'
    BY <1>1 DEF CtrlCWf, TypeOK
  <2> QED
    BY <1>1, <2>1 DEF CtrlCWf, NothingLeftBehind
<1>2. CASE UninitEventWf \/ \E c \in Conns : Sigpipe(c)
  <2>0. /\ wpc = "loop" /\ Ends
        /\ UNCHANGED <<peerVars, got, taken, cur, len, broken, lockVars, served,
                       replies>>
    BY <1>2 DEF UninitEventWf, Sigpipe
  <2>1. TypeOK'
    <3>1. end' \in [Conns -> {"no", "eof", "error", "exit"}]
      BY <2>0 DEF Ends, TypeOK
    <3>2. input' \in [Conns -> Nat] /\ out' \in [Conns -> Seq(Nat)]
      BY <2>0 DEF Ends
    <3> QED
      BY <2>0, <3>1, <3>2 DEF Ends, TypeOK
  <2>2. NothingLeftBehind'
    BY <2>0 DEF Ends, TypeOK, NothingLeftBehind
  <2>3. \A d \in Conns : end'[d] = "eof" => end[d] = "eof"
    BY <2>0 DEF Ends, TypeOK
  <2> QED
    BY <2>0, <2>1, <2>2, <2>3 DEF Ends
<1> QED
  BY <1>1, <1>2

LEMMA Next_Inv == ServiceInv /\ [Next]_vars => ServiceInv'
<1> SUFFICES ASSUME ServiceInv, [Next]_vars PROVE ServiceInv'
  OBVIOUS
<1>1. CASE Next
  BY <1>1, Peer_Inv, Event_Inv, Callback_Inv, Other_Inv, Leave_Inv DEF Next
<1>2. CASE UNCHANGED vars
  BY <1>2 DEF vars, peerVars, bufVars, cbVars, lockVars, ServiceInv, TypeOK,
     NothingLeftBehind
<1> QED
  BY <1>1, <1>2

(* The inductive invariant of a worker serving its connections.            *)
THEOREM ServiceSafe == Spec => []ServiceInv
  BY Init_Inv, Next_Inv, PTL DEF Spec

(* The buffers and counters of a worker keep their types: no length goes   *)
(* below zero when a chunk is drained or a write is short.                 *)
THEOREM ServiceTypeCorrect == Spec => []TypeOK
<1>1. ServiceInv => TypeOK
  BY DEF ServiceInv
<1> QED
  BY <1>1, ServiceSafe, PTL

(* The chunks of jmm_sock_read_wf_cb cover what it took from a connection  *)
(* once and in order, and nothing is left in a buffer between callbacks.   *)
THEOREM StreamsServed == Spec => []NothingLeftBehind
<1>1. ServiceInv => NothingLeftBehind
  BY DEF ServiceInv
<1> QED
  BY <1>1, ServiceSafe, PTL

(* A connection that is freed at its end of file has been served to its    *)
(* last byte.                                                              *)
THEOREM EndsServed == Spec => []EofAfterService
<1>1. ServiceInv => EofAfterService
  BY DEF ServiceInv, EofAfterService
<1> QED
  BY <1>1, ServiceSafe, PTL

(* After a failure of the service or a signal only the callback that runs  *)
(* goes on: jmm_sock_read_wf_cb serves the rest of its connection, and no  *)
(* other is read or written (jmm_event.c:292-297, 328-367).                *)
THEOREM FailureEnds == Spec => FailureIsLast
<1> DEFINE Unheard ==
      broken => /\ \A c \in Conns \ {cur} : served'[c] = served[c]
                /\ got' = got
<1>1. ServiceInv /\ [Next]_vars => [Unheard]_vars
  <2> SUFFICES ASSUME ServiceInv, Next, broken
               PROVE  /\ \A c \in Conns \ {cur} : served'[c] = served[c]
                      /\ got' = got
    OBVIOUS
  <2>1. CASE Serve
    BY <2>1 DEF ServiceInv, TypeOK, Serve
  <2>2. ASSUME NEW c \in Conns,
               \/ ReadEvent(c) \/ WriteEvent(c) \/ EofEvent(c) \/ ErrorEvent(c)
               \/ Sigpipe(c) \/ CmmRead \/ CmmReadBlocks
        PROVE  FALSE
    BY <2>2
    DEF ReadEvent, WriteEvent, EofEvent, ErrorEvent, SockEvent, Sigpipe,
        CmmRead, CmmReadBlocks, InLoop
  <2> QED
    BY <2>1, <2>2
    DEF Next, Callback, PeerSend, PeerEnd, PeerReset, GetLength, ReadDone,
        LockWait, Free, CtrlCWf, UninitEventWf, CmmRead, CmmReadBlocks, InLoop,
        ControlProcess, CtrlLocks, CtrlUnlocks, CtrlAssigns, IntWakes
<1> QED
  BY <1>1, ServiceSafe, PTL DEF Spec, FailureIsLast

(***************************************************************************)
(* The replies.                                                            *)
(***************************************************************************)
LEMMA Replies_Init == Init => RepliesInv
<1> SUFFICES ASSUME Init, NEW c \in Conns PROVE RepliesAt(c)
  BY DEF RepliesInv
<1>1. << >> \in Seq(Nat) /\ << >> \o << >> = << >>
  OBVIOUS
<1>2. IsPrefix(<< >>, << >>)
  BY <1>1, PrefixOfConcat
<1> QED
  BY <1>1, <1>2 DEF Init, RepliesAt

(* Only Serve makes replies: they go to the end of the output.             *)
LEMMA Replies_Serve ==
  ASSUME ServiceInv, RepliesInv, Serve, NEW c \in Conns
  PROVE  RepliesAt(c)'
<1>1. /\ cur \in Conns
      /\ out \in [Conns -> Seq(Nat)] /\ got \in [Conns -> Seq(Nat)]
      /\ replies \in [Conns -> Seq(Nat)]
  BY DEF ServiceInv, TypeOK, Serve
<1>2. served[cur] + Chunk \in Nat
  <2>1. len \in Nat /\ served[cur] \in Nat
    BY <1>1 DEF ServiceInv, TypeOK
  <2>2. Chunk \in Nat
    BY <2>1, ServiceAssumption DEF Chunk
  <2> QED
    BY <2>1, <2>2
<1>3. /\ peer' = peer /\ end' = end /\ wpc' = wpc /\ got' = got
      /\ Outcome(served[cur] + Chunk)
  BY DEF Serve, peerVars
<1>4. RepliesAt(c)
  BY DEF RepliesInv
<1>5. CASE out'[c] = out[c] /\ replies'[c] = replies[c]
  BY <1>3, <1>4, <1>5 DEF RepliesAt
<1>6. ASSUME NEW r \in Nat,
             out'[c] = Append(out[c], r), replies'[c] = Append(replies[c], r)
      PROVE  RepliesAt(c)'
  <2>1. IsPrefix(got[c], replies'[c])
    BY <1>1, <1>4, <1>6, PrefixOfAppend DEF RepliesAt
  <2>2. ASSUME got[c] \o out[c] = replies[c]
        PROVE  got[c] \o out'[c] = replies'[c]
    <3>1. out'[c] = out[c] \o <<r>> /\ replies'[c] = replies[c] \o <<r>>
      BY <1>1, <1>6, AppendIsConcat
    <3>2. (got[c] \o out[c]) \o <<r>> = got[c] \o (out[c] \o <<r>>)
      <4>1. got[c] \in Seq(Nat) /\ out[c] \in Seq(Nat) /\ <<r>> \in Seq(Nat)
        BY <1>1, <1>6
      <4> QED
        BY <4>1, ConcatAssoc
    <3> QED
      BY <2>2, <3>1, <3>2
  <2> QED
    BY <1>3, <1>4, <2>1, <2>2 DEF RepliesAt
<1>7. \/ out'[c] = out[c] /\ replies'[c] = replies[c]
      \/ /\ out'[c] = Append(out[c], served[cur] + Chunk)
         /\ replies'[c] = Append(replies[c], served[cur] + Chunk)
  BY <1>1, <1>3 DEF Outcome
<1> QED
  BY <1>2, <1>5, <1>6, <1>7

(* WriteEvent moves replies on, as long as there is a peer.                *)
LEMMA Replies_Write ==
  ASSUME ServiceInv, RepliesInv, NEW d \in Conns, WriteEvent(d), NEW c \in Conns
  PROVE  RepliesAt(c)'
<1>1. /\ out \in [Conns -> Seq(Nat)] /\ got \in [Conns -> Seq(Nat)]
      /\ replies \in [Conns -> Seq(Nat)]
  BY DEF ServiceInv, TypeOK
<1>2. /\ peer' = peer /\ end' = end /\ wpc' = wpc /\ replies' = replies
      /\ end[d] = "no"
  BY DEF WriteEvent, peerVars, cbVars
<1>3. RepliesAt(c)
  BY DEF RepliesInv
<1>4. PICK n \in 1 .. Len(out[d]) :
        /\ out' = [out EXCEPT ![d] = SubSeq(@, n + 1, Len(@))]
        /\ got' = IF peer[d] = "reset" THEN got
                  ELSE [got EXCEPT ![d] = @ \o SubSeq(out[d], 1, n)]
  BY DEF WriteEvent
<1>5. CASE c # d
  BY <1>1, <1>2, <1>3, <1>4, <1>5 DEF RepliesAt
<1>6. CASE c = d /\ peer[d] = "reset"
  BY <1>1, <1>2, <1>3, <1>4, <1>6 DEF RepliesAt
<1>7. CASE c = d /\ peer[d] # "reset"
  <2> DEFINE a == SubSeq(out[c], 1, n)
             b == SubSeq(out[c], n + 1, Len(out[c]))
  <2>1. a \in Seq(Nat) /\ b \in Seq(Nat) /\ a \o b = out[c]
    BY <1>1, <1>7, PartsOfSeq
  <2>2. got'[c] = got[c] \o a /\ out'[c] = b
    BY <1>1, <1>4, <1>7
  <2>3. got[c] \o out[c] = replies[c]
    BY <1>2, <1>3, <1>7 DEF RepliesAt
  <2> HIDE DEF a, b
  <2>4. got'[c] \in Seq(Nat)
    BY <1>1, <2>1, <2>2, ConcatProperties
  <2>5. got'[c] \o out'[c] = replies[c]
    <3>1. got[c] \in Seq(Nat)
      BY <1>1
    <3>2. (got[c] \o a) \o b = got[c] \o (a \o b)
      BY <2>1, <3>1, ConcatAssoc
    <3> QED
      BY <2>1, <2>2, <2>3, <3>2
  <2>6. IsPrefix(got'[c], replies[c])
    BY <2>1, <2>2, <2>4, <2>5, PrefixOfConcat
  <2> QED
    BY <1>2, <1>3, <2>5, <2>6 DEF RepliesAt
<1> QED
  BY <1>5, <1>6, <1>7

(* All other steps leave the replies alone or free a connection.           *)
LEMMA Replies_Next ==
  ASSUME ServiceInv, RepliesInv, [Next]_vars
  PROVE  RepliesInv'
<1> SUFFICES ASSUME NEW c \in Conns PROVE RepliesAt(c)'
  BY DEF RepliesInv
<1> USE DEF peerVars, bufVars, cbVars, InLoop
<1> DEFINE Aside == \/ GetLength \/ ReadDone \/ LockWait \/ CtrlCWf
                    \/ CmmRead \/ CmmReadBlocks \/ ControlProcess \/ IntWakes
                    \/ \E d \in Conns : EofEvent(d) \/ ErrorEvent(d)
<1>1. RepliesAt(c)
  BY DEF RepliesInv
<1>2. /\ peer \in [Conns -> {"open", "ended", "reset"}]
      /\ end \in [Conns -> {"no", "eof", "error", "exit"}]
  BY DEF ServiceInv, TypeOK
<1>3. ASSUME NEW d \in Conns, PeerSend(d) \/ PeerEnd(d) \/ PeerReset(d)
      PROVE  RepliesAt(c)'
  <2>1. /\ got' = got /\ out' = out /\ replies' = replies /\ end' = end
        /\ wpc' = wpc
    BY <1>3 DEF PeerSend, PeerEnd, PeerReset
  <2>2. /\ peer'[c] = peer[c] \/ peer'[c] = "reset"
                              \/ (peer[c] = "open" /\ peer'[c] = "ended")
    BY <1>2, <1>3 DEF PeerSend, PeerEnd, PeerReset
  <2> QED
    BY <1>1, <2>1, <2>2 DEF RepliesAt
<1>4. ASSUME NEW d \in Conns, ReadEvent(d) PROVE RepliesAt(c)'
  BY <1>1, <1>4 DEF ReadEvent, RepliesAt
<1>5. ASSUME NEW d \in Conns, WriteEvent(d) PROVE RepliesAt(c)'
  BY <1>5, Replies_Write
<1>6. ASSUME Free PROVE RepliesAt(c)'
  <2>1. /\ got' = got /\ replies' = replies /\ peer' = peer
        /\ wpc \in {"eof", "error"} /\ cur \in Conns
        /\ end' = [end EXCEPT ![cur] = wpc]
        /\ out' = [out EXCEPT ![cur] = << >>]
    BY <1>6 DEF Free, AtLock, ServiceInv
  <2>2. CASE c # cur
    <3>1. end'[c] = end[c] /\ out'[c] = out[c] /\ end[c] # "exit"
      BY <1>1, <1>2, <2>1, <2>2 DEF RepliesAt, ServiceInv, TypeOK
    <3> QED
      BY <1>1, <2>1, <3>1 DEF RepliesAt
  <2>3. CASE c = cur
    <3>1. \/ end'[c] = "eof" /\ peer[c] # "open"
          \/ end'[c] = "error" /\ peer[c] = "reset"
      BY <1>2, <2>1, <2>3 DEF ServiceInv
    <3> QED
      BY <1>1, <2>1, <3>1 DEF RepliesAt
  <2> QED
    BY <2>2, <2>3
<1>7. ASSUME Aside PROVE RepliesAt(c)'
  <2>1. /\ got' = got /\ out' = out /\ replies' = replies /\ end' = end
        /\ peer' = peer
    BY <1>7
    DEF GetLength, ReadDone, LockWait, CtrlCWf, CmmRead, CmmReadBlocks,
        ControlProcess, CtrlLocks, CtrlUnlocks, CtrlAssigns, IntWakes,
        EofEvent, ErrorEvent, SockEvent
  <2>2. wpc = "dead" => wpc' = "dead"
    BY <1>7
    DEF GetLength, ReadDone, LockWait, CtrlCWf, CmmRead, CmmReadBlocks,
        ControlProcess, CtrlLocks, CtrlUnlocks, CtrlAssigns, IntWakes,
        EofEvent, ErrorEvent, SockEvent
  <2> QED
    BY <1>1, <2>1, <2>2 DEF RepliesAt
<1>8. ASSUME Serve PROVE RepliesAt(c)'
  BY <1>8, Replies_Serve
<1>9. ASSUME UninitEventWf \/ \E d \in Conns : Sigpipe(d)
      PROVE  RepliesAt(c)'
  <2>1. /\ got' = got /\ replies' = replies /\ peer' = peer /\ wpc' = "dead"
        /\ end'[c] = IF end[c] = "no" THEN "exit" ELSE end[c]
    BY <1>9 DEF UninitEventWf, Sigpipe, Ends
  <2> QED
    BY <1>1, <2>1 DEF RepliesAt
<1>10. CASE UNCHANGED vars
  BY <1>1, <1>10 DEF vars, RepliesAt
<1> QED
  BY <1>3, <1>4, <1>5, <1>6, <1>7, <1>8, <1>9, <1>10 DEF Next, Callback

(* Replies reach the peer that asked, in order and once, and a peer that   *)
(* goes on sending loses none while the worker is there.                   *)
THEOREM RepliesKept == Spec => []RepliesInOrder
<1>1. ServiceInv /\ RepliesInv => RepliesInOrder
  <2> SUFFICES ASSUME ServiceInv, RepliesInv, NEW c \in Conns
               PROVE  /\ IsPrefix(got[c], replies[c])
                      /\ peer[c] = "open" /\ wpc # "dead" =>
                           got[c] \o out[c] = replies[c]
    BY DEF RepliesInOrder
  <2>1. RepliesAt(c) /\ end[c] \in {"no", "eof", "error", "exit"}
    BY DEF RepliesInv, ServiceInv, TypeOK
  <2> QED
    BY <2>1 DEF RepliesAt
<1>2. ServiceInv /\ RepliesInv /\ [Next]_vars => RepliesInv'
  BY Replies_Next
<1> QED
  BY <1>1, <1>2, Replies_Init, ServiceSafe, PTL DEF Spec

-----------------------------------------------------------------------------
(***************************************************************************)
(* JmmService implements ConnStream: every step of the worker or of a peer *)
(* is a step of the abstract streams, or changes nothing they speak of.    *)
(***************************************************************************)
(* Nothing waits in the output buffer of a connection that is freed.       *)
Drained == \A c \in Conns : end[c] # "no" => out[c] = << >>

LEMMA Drained_Next == ServiceInv /\ Drained /\ [Next]_vars => Drained'
<1> SUFFICES ASSUME ServiceInv, Drained, [Next]_vars, NEW c \in Conns,
                    end'[c] # "no"
             PROVE  out'[c] = << >>
  BY DEF Drained
<1> USE DEF ServiceInv, TypeOK, Drained
<1>1. ASSUME NEW d \in Conns,
             PeerSend(d) \/ PeerEnd(d) \/ PeerReset(d) \/ ReadEvent(d)
      PROVE  out'[c] = << >>
  BY <1>1 DEF PeerSend, PeerEnd, PeerReset, ReadEvent, bufVars
<1>2. ASSUME NEW d \in Conns, WriteEvent(d) PROVE out'[c] = << >>
  <2>1. c # d /\ end[c] # "no"
    BY <1>2 DEF WriteEvent
  <2> QED
    BY <1>2, <2>1 DEF WriteEvent
<1>3. ASSUME Free PROVE out'[c] = << >>
  BY <1>3 DEF Free, AtLock
<1>4. ASSUME Serve PROVE out'[c] = << >>
  <2>1. c # cur /\ end[c] # "no"
    BY <1>4 DEF Serve
  <2> QED
    BY <1>4, <2>1 DEF Serve, Outcome
<1>5. ASSUME \/ GetLength \/ ReadDone \/ LockWait \/ CtrlCWf
             \/ CmmRead \/ CmmReadBlocks \/ ControlProcess \/ IntWakes
             \/ \E d \in Conns : EofEvent(d) \/ ErrorEvent(d)
      PROVE  out'[c] = << >>
  BY <1>5
  DEF GetLength, ReadDone, LockWait, CtrlCWf, CmmRead, CmmReadBlocks,
      ControlProcess, CtrlLocks, CtrlUnlocks, CtrlAssigns, IntWakes,
      EofEvent, ErrorEvent, SockEvent, bufVars
<1>6. ASSUME UninitEventWf \/ \E d \in Conns : Sigpipe(d)
      PROVE  out'[c] = << >>
  BY <1>6 DEF UninitEventWf, Sigpipe, Ends
<1>7. CASE UNCHANGED vars
  BY <1>7 DEF vars, bufVars
<1> QED
  BY <1>1, <1>2, <1>3, <1>4, <1>5, <1>6, <1>7 DEF Next, Callback

LEMMA Stream_Init == Init => Stream!StreamInit
<1> SUFFICES ASSUME Init PROVE Stream!StreamInit
  OBVIOUS
<1>1. \A c \in Conns : Status(c) = "live"
  BY DEF Init, Status
<1> QED
  BY <1>1 DEF Init, Stream!StreamInit

(* A step that leaves what the abstract streams speak of alone.            *)
LEMMA Stream_Stutter ==
  ASSUME peer' = peer, end' = end, sent' = sent, served' = served,
         out' = out, got' = got
  PROVE  UNCHANGED Stream!svars
<1>1. \A c \in Conns : Status(c)' = Status(c)
  BY DEF Status
<1> QED
  BY <1>1 DEF Stream!svars

LEMMA Stream_Peer ==
  ASSUME ServiceInv, NEW c \in Conns,
         PeerSend(c) \/ PeerEnd(c) \/ PeerReset(c)
  PROVE  Stream!StreamNext \/ UNCHANGED Stream!svars
<1> USE DEF ServiceInv, TypeOK
<1>1. CASE PeerSend(c)
  <2>1. \A d \in Conns : Status(d)' = Status(d)
    BY <1>1 DEF PeerSend, bufVars, Status
  <2>2. Status(c) # "deaf"
    BY <1>1 DEF PeerSend, Status
  <2>3. Stream!Send(c)
    BY <1>1, <2>1, <2>2 DEF PeerSend, bufVars, Stream!Send
  <2> QED
    BY <2>3 DEF Stream!StreamNext
<1>2. CASE PeerEnd(c)
  <2>1. \A d \in Conns : Status(d)' = Status(d)
    BY <1>2 DEF PeerEnd, bufVars, Status
  <2> QED
    BY <1>2, <2>1 DEF PeerEnd, bufVars, Stream!svars
<1>3. CASE PeerReset(c)
  <2>1. \A d \in Conns : d # c => Status(d)' = Status(d)
    BY <1>3 DEF PeerReset, bufVars, Status
  <2>2. CASE end[c] = "no"
    <3>1. Status(c) = "live" /\ Status(c)' = "deaf"
      BY <1>3, <2>2 DEF PeerReset, bufVars, Status
    <3>2. Stream!Reset(c)
      BY <1>3, <2>1, <3>1 DEF PeerReset, bufVars, Stream!Reset
    <3> QED
      BY <3>2 DEF Stream!StreamNext
  <2>3. CASE end[c] # "no"
    <3>1. Status(c)' = Status(c)
      BY <1>3, <2>3 DEF PeerReset, bufVars, Status
    <3> QED
      BY <1>3, <2>1, <3>1 DEF PeerReset, bufVars, Stream!svars
  <2> QED
    BY <2>2, <2>3
<1> QED
  BY <1>1, <1>2, <1>3

(* A chunk is within the bytes that have been sent.                        *)
LEMMA Stream_Serve ==
  ASSUME ServiceInv, Serve
  PROVE  Stream!StreamNext
<1> DEFINE upto == served[cur] + Chunk
<1>1. /\ cur \in Conns
      /\ end[cur] = "no"
      /\ served[cur] \in Nat
      /\ sent[cur] \in Nat
      /\ taken[cur] \in Nat
      /\ input[cur] \in Nat
      /\ served[cur] + input[cur] = taken[cur]
      /\ taken[cur] <= sent[cur]
      /\ len \in Nat /\ len # 0 /\ len <= input[cur]
  BY DEF Serve, ServiceInv, TypeOK, NothingLeftBehind
<1>2. Chunk \in 1 .. len
  BY <1>1, ServiceAssumption DEF Chunk
<1>3. upto \in 1 .. sent[cur] /\ served[cur] < upto
  BY <1>1, <1>2
<1>4. \A c \in Conns : Status(c)' = Status(c)
  BY DEF Serve, peerVars, Status
<1>5. Status(cur) # "over"
  BY <1>1 DEF Status
<1>6. served' = [served EXCEPT ![cur] = upto]
  BY <1>1 DEF Serve
<1>7. out' \in {out, [out EXCEPT ![cur] = Append(@, upto)]}
  BY DEF Serve, Outcome
<1>8. sent' = sent /\ got' = got
  BY DEF Serve, peerVars
<1>9. Stream!Answer(cur, upto)
  BY <1>1, <1>3, <1>4, <1>5, <1>6, <1>7, <1>8 DEF Stream!Answer
<1> QED
  BY <1>1, <1>3, <1>9 DEF Stream!StreamNext

LEMMA Stream_Event ==
  ASSUME ServiceInv, NEW c \in Conns, WriteEvent(c) \/ (Free /\ cur = c)
  PROVE  Stream!StreamNext
<1> USE DEF ServiceInv, TypeOK
<1>1. CASE WriteEvent(c)
  <2>1. PICK n \in 1 .. Len(out[c]) :
          /\ out' = [out EXCEPT ![c] = SubSeq(@, n + 1, Len(@))]
          /\ got' = IF peer[c] = "reset" THEN got
                    ELSE [got EXCEPT ![c] = @ \o SubSeq(out[c], 1, n)]
    BY <1>1 DEF WriteEvent
  <2>2. \A d \in Conns : Status(d)' = Status(d)
    BY <1>1 DEF WriteEvent, peerVars, Status
  <2>3. Status(c) # "over" /\ (Status(c) = "deaf" <=> peer[c] = "reset")
    BY <1>1 DEF WriteEvent, Status
  <2>4. sent' = sent /\ served' = served
    BY <1>1 DEF WriteEvent, peerVars
  <2>5. Stream!Deliver(c, n)
    BY <2>1, <2>2, <2>3, <2>4 DEF Stream!Deliver
  <2> QED
    BY <2>5 DEF Stream!StreamNext
<1>2. CASE Free /\ cur = c
  <2>1. wpc \in {"eof", "error"} /\ end[c] = "no" /\ end' = [end EXCEPT ![c] = wpc]
    BY <1>2 DEF Free, AtLock
  <2>2. Status(c) # "over" /\ Status(c)' = "over"
    BY <2>1 DEF Status
  <2>3. \A d \in Conns : d # c => Status(d)' = Status(d)
    BY <1>2, <2>1 DEF Free, peerVars, Status
  <2>4. out' = [d \in Conns |-> IF d \in {c} THEN << >> ELSE out[d]]
    BY <1>2 DEF Free
  <2>5. sent' = sent /\ served' = served /\ got' = got
    BY <1>2 DEF Free, peerVars
  <2>6. Stream!Close({c})
    BY <2>2, <2>3, <2>4, <2>5 DEF Stream!Close
  <2> QED
    BY <2>6 DEF Stream!StreamNext
<1> QED
  BY <1>1, <1>2

(* The worker ends: the connections that are not over yet are over now.    *)
LEMMA Stream_Leave ==
  ASSUME ServiceInv, Drained, Ends,
         UNCHANGED <<peerVars, got, taken, cur, len, broken, lockVars, served,
                     replies>>
  PROVE  Stream!StreamNext
<1> DEFINE S == {c \in Conns : end[c] = "no"}
<1>1. \A c \in S : Status(c) # "over"
  BY DEF Status
<1>2. \A c \in Conns : Status(c)' = IF c \in S THEN "over" ELSE Status(c)
  BY DEF Ends, peerVars, Status
<1>3. \A c \in Conns : (IF c \in S THEN << >> ELSE out[c]) = << >>
  BY DEF Drained
<1>4. out' = [c \in Conns |-> IF c \in S THEN << >> ELSE out[c]]
  BY <1>3 DEF Ends
<1>5. sent' = sent /\ served' = served /\ got' = got
  BY DEF peerVars
<1>6. Stream!Close(S)
  BY <1>1, <1>2, <1>4, <1>5 DEF Stream!Close
<1> QED
  BY <1>6 DEF Stream!StreamNext

LEMMA Stream_Next ==
  ServiceInv /\ Drained /\ [Next]_vars =>
    Stream!StreamNext \/ UNCHANGED Stream!svars
<1> SUFFICES ASSUME ServiceInv, Drained, [Next]_vars
             PROVE  Stream!StreamNext \/ UNCHANGED Stream!svars
  OBVIOUS
<1>1. ASSUME NEW c \in Conns, PeerSend(c) \/ PeerEnd(c) \/ PeerReset(c)
      PROVE  Stream!StreamNext \/ UNCHANGED Stream!svars
  BY <1>1, Stream_Peer
<1>2. ASSUME NEW c \in Conns, ReadEvent(c) PROVE UNCHANGED Stream!svars
  BY <1>2, Stream_Stutter DEF ReadEvent, peerVars
<1>3. ASSUME \/ Free \/ \E c \in Conns : WriteEvent(c)
      PROVE  Stream!StreamNext
  BY <1>3, Stream_Event DEF Free, AtLock, ServiceInv
<1>4. CASE Serve
  BY <1>4, Stream_Serve
<1>5. ASSUME \/ GetLength \/ ReadDone \/ LockWait \/ CtrlCWf
             \/ CmmRead \/ CmmReadBlocks \/ ControlProcess \/ IntWakes
             \/ \E d \in Conns : EofEvent(d) \/ ErrorEvent(d)
      PROVE  UNCHANGED Stream!svars
  <2>1. /\ peer' = peer /\ end' = end /\ sent' = sent /\ served' = served
        /\ out' = out /\ got' = got
    BY <1>5
    DEF GetLength, ReadDone, LockWait, CtrlCWf, CmmRead, CmmReadBlocks,
        ControlProcess, CtrlLocks, CtrlUnlocks, CtrlAssigns, IntWakes,
        EofEvent, ErrorEvent, SockEvent, peerVars, bufVars
  <2> QED
    BY <2>1, Stream_Stutter
<1>6. ASSUME UninitEventWf \/ \E c \in Conns : Sigpipe(c)
      PROVE  Stream!StreamNext
  BY <1>6, Stream_Leave DEF UninitEventWf, Sigpipe
<1>7. CASE UNCHANGED vars
  BY <1>7, Stream_Stutter DEF vars, peerVars, bufVars
<1> QED
  BY <1>1, <1>2, <1>3, <1>4, <1>5, <1>6, <1>7 DEF Next, Callback

(* The worker's reading, chunking, buffering and freeing of connections    *)
(* (jmm_event.c:328-389) implements the streams of ConnStream.             *)
THEOREM StreamsImplemented == Spec => ImplementsStream
<1>1. Init => Drained
  BY DEF Init, Drained
<1>2. ServiceInv /\ Drained /\ [Next]_vars => Drained'
  BY Drained_Next
<1>3. Init => Stream!StreamInit
  BY Stream_Init
<1>4. ServiceInv /\ Drained /\ [Next]_vars =>
        [Stream!StreamNext]_(Stream!svars)
  BY Stream_Next
<1> QED
  BY <1>1, <1>2, <1>3, <1>4, ServiceSafe, PTL
  DEF Spec, ImplementsStream, Stream!StreamSpec
=============================================================================
