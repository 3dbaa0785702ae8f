----------------------------- MODULE JmmService -----------------------------
(***************************************************************************)
(* A worker serving its connections: the bytes that arrive go to the       *)
(* program hook in chunks, the replies wait in an output buffer until the  *)
(* socket takes them, and a connection that ends is freed with what is     *)
(* left in its buffers (src/src/jmm_event.c).                              *)
(*                                                                         *)
(* The bytes of a connection are numbered from 1 in the order the peer     *)
(* sends them; what counts is how far each stage has got.  A reply is      *)
(* named by the last byte of the chunk it answers.                         *)
(*                                                                         *)
(* The worker has slots for more than Conns.  Of the further connections   *)
(* that the control process assigns (the subject of JmmPool) only what     *)
(* holds up the event loop is here: the mutex, which the control process   *)
(* locks and leaves to the worker, and the wait for a descriptor.          *)
(***************************************************************************)
EXTENDS Integers, SequencesExt

CONSTANTS
  Conns,    (* the connections the worker has                            *)
  NoConn,   (* no callback is running                                    *)
  MaxSent,  (* bound: the bytes each peer sends                          *)
  MaxRecv   (* JMM_MAX_SOCK_RECV_SIZE                                    *)

ASSUME ServiceAssumption ==
  /\ NoConn \notin Conns
  /\ MaxSent \in [Conns -> Nat]
  /\ MaxRecv \in Nat \ {0}

VARIABLES
  \* peer and kernel
  peer,     (* "open"; "ended": it sent its FIN; "reset"                 *)
  sent,     (* bytes the peer has sent                                   *)
  got,      (* replies the peer has received                             *)
  \* bufferevents
  taken,    (* bytes read from the socket                                *)
  input,    (* length of the input buffer                                *)
  out,      (* replies in the output buffer                              *)
  end,      (* how the bufferevent was freed, "no" while it is there     *)
  \* worker
  wpc,      (* where the worker is, see WfPcs                            *)
  cur,      (* the connection of the callback                            *)
  len,      (* len of jmm_sock_read_wf_cb                                *)
  broken,   (* event_base_loopbreak was called                           *)
  \* shared with the control process
  mutex,    (* "free"; "ctrl": it looks for a slot; "sent": it has found *)
            (* one, and the worker is to unlock                          *)
  asleep,   (* in the futex wait of pthread_mutex_lock                   *)
  \* history
  served,   (* bytes given to prog_service                               *)
  replies   (* the replies prog_service made                             *)

peerVars == <<peer, sent>>
bufVars  == <<taken, input, out, end>>
cbVars   == <<wpc, cur, len, broken>>
lockVars == <<mutex, asleep>>
vars == <<peerVars, got, bufVars, cbVars, lockVars, served, replies>>

(***************************************************************************)
(* "read": in jmm_sock_read_wf_cb; "eof", "error": in jmm_sock_event_wf_cb,*)
(* before it has the mutex; "recv": in the recvmsg of jmm_cmm_read_wf_cb,  *)
(* for a descriptor that was not sent; "dead": the process has ended.      *)
(***************************************************************************)
WfPcs == {"loop", "read", "eof", "error", "recv", "dead"}

Init ==
  /\ peer = [c \in Conns |-> "open"]
  /\ sent = [c \in Conns |-> 0]
  /\ got = [c \in Conns |-> << >>]
  /\ taken = [c \in Conns |-> 0]
  /\ input = [c \in Conns |-> 0]
  /\ out = [c \in Conns |-> << >>]
  /\ end = [c \in Conns |-> "no"]
  /\ wpc = "loop"
  /\ cur = NoConn
  /\ len = 0
  /\ broken = FALSE
  /\ mutex = "free"
  /\ asleep = FALSE
  /\ served = [c \in Conns |-> 0]
  /\ replies = [c \in Conns |-> << >>]

-----------------------------------------------------------------------------
(* The peers.                                                              *)

PeerSend(c) ==
  /\ peer[c] = "open"
  /\ sent[c] < MaxSent[c]
  /\ sent' = [sent EXCEPT ![c] = @ + 1]
  /\ UNCHANGED <<peer, got, bufVars, cbVars, lockVars, served, replies>>

(* The peer has nothing more to send; it may still read.                   *)
PeerEnd(c) ==
  /\ peer[c] = "open"
  /\ peer' = [peer EXCEPT ![c] = "ended"]
  /\ UNCHANGED <<sent, got, bufVars, cbVars, lockVars, served, replies>>

PeerReset(c) ==
  /\ peer[c] # "reset"
  /\ peer' = [peer EXCEPT ![c] = "reset"]
  /\ UNCHANGED <<sent, got, bufVars, cbVars, lockVars, served, replies>>

-----------------------------------------------------------------------------
(* The worker: one callback of its event loop at a time.                   *)

(* Mutant of InLoop: event_base_loopexit, after the events that are ready. *)
InLoopUntilExit == wpc = "loop"

InLoop == wpc = "loop" /\ ~broken

(* libevent reads what it likes of what has arrived and calls              *)
(* jmm_sock_read_wf_cb.                                                    *)
ReadEvent(c) ==
  /\ InLoop
  /\ end[c] = "no"
  /\ \E n \in 1 .. (sent[c] - taken[c]) :
       /\ taken' = [taken EXCEPT ![c] = @ + n]
       /\ input' = [input EXCEPT ![c] = @ + n]
  /\ wpc' = "read"
  /\ cur' = c
  /\ len' = 0
  /\ UNCHANGED <<peerVars, got, out, end, broken, lockVars, served, replies>>

(* The outer loop: len = evbuffer_get_length.                              *)
GetLength ==
  /\ wpc = "read"
  /\ len = 0
  /\ input[cur] # 0
  /\ len' = input[cur]
  /\ UNCHANGED <<peerVars, got, bufVars, wpc, cur, broken, lockVars, served,
                 replies>>

(* What prog_service makes of a chunk: a failure, which breaks the event   *)
(* loop once the callback has returned; a reply; or no reply.              *)
Outcome(upto) ==
  \/ broken' = TRUE /\ UNCHANGED <<out, replies>>
  \/ /\ out' = [out EXCEPT ![cur] = Append(@, upto)]
     /\ replies' = [replies EXCEPT ![cur] = Append(@, upto)]
     /\ UNCHANGED broken
  \/ UNCHANGED <<out, replies, broken>>

(* Mutant of Chunk: the last, shorter chunk is forgotten.                  *)
ChunkFull == MaxRecv

Chunk == IF len > MaxRecv THEN MaxRecv ELSE len

(* The inner loop: a chunk of at most MaxRecv bytes goes to prog_service.  *)
(* It goes on with the next chunk after a failure, too.                    *)
Serve ==
  /\ wpc = "read"
  /\ len # 0
  /\ len' = len - Chunk
  /\ input' = [input EXCEPT ![cur] = @ - Chunk]
  /\ served' = [served EXCEPT ![cur] = @ + Chunk]
  /\ Outcome(served[cur] + Chunk)
  /\ UNCHANGED <<peerVars, got, taken, end, wpc, cur, lockVars>>

(* Mutant of ReadDone: one round, whatever is left in the buffer.          *)
ReadDoneEarly ==
  /\ wpc = "read"
  /\ len < MaxRecv
  /\ wpc' = "loop"
  /\ cur' = NoConn
  /\ UNCHANGED <<peerVars, got, bufVars, len, broken, lockVars, served,
                 replies>>

ReadDone ==
  /\ wpc = "read"
  /\ len = 0
  /\ input[cur] = 0
  /\ wpc' = "loop"
  /\ cur' = NoConn
  /\ UNCHANGED <<peerVars, got, bufVars, len, broken, lockVars, served,
                 replies>>

(* The socket is writable: it takes replies from the output buffer.  What  *)
(* is written to a peer that has reset the connection is gone.             *)
WriteEvent(c) ==
  /\ InLoop
  /\ end[c] = "no"
  /\ \E n \in 1 .. Len(out[c]) :
       /\ out' = [out EXCEPT ![c] = SubSeq(@, n + 1, Len(@))]
       /\ got' = IF peer[c] = "reset" THEN got
                 ELSE [got EXCEPT ![c] = @ \o SubSeq(out[c], 1, n)]
  /\ UNCHANGED <<peerVars, taken, input, end, cbVars, lockVars, served,
                 replies>>

(* libevent calls jmm_sock_event_wf_cb.                                    *)
SockEvent(c, what) ==
  /\ InLoop
  /\ end[c] = "no"
  /\ wpc' = what
  /\ cur' = c
  /\ UNCHANGED <<peerVars, got, bufVars, len, broken, lockVars, served,
                 replies>>

(* Mutant of EofEvent: a peer that ends is freed before it was read out.   *)
EofEventEager(c) == peer[c] = "ended" /\ SockEvent(c, "eof")

(* Mutant of EofEvent: the index of another connection.                    *)
EofEventOther(c) ==
  /\ peer[c] = "ended"
  /\ taken[c] = sent[c]
  /\ \E d \in Conns \ {c} : SockEvent(d, "eof")

(* End of file: a read finds nothing more and the peer has ended.          *)
EofEvent(c) ==
  /\ peer[c] = "ended"
  /\ taken[c] = sent[c]
  /\ SockEvent(c, "eof")

(* A read or a write fails, perhaps with data still unread.                *)
ErrorEvent(c) == peer[c] = "reset" /\ SockEvent(c, "error")

AtLock == wpc \in {"eof", "error"} /\ ~asleep

(* pthread_mutex_lock finds the mutex locked.                              *)
LockWait ==
  /\ AtLock
  /\ mutex # "free"
  /\ asleep' = TRUE
  /\ UNCHANGED <<peerVars, got, bufVars, cbVars, mutex, served, replies>>

(* With the mutex the worker frees the bufferevent, whatever is in its     *)
(* buffers, and unlocks.                                                   *)
Free ==
  /\ AtLock
  /\ mutex = "free"
  /\ end' = [end EXCEPT ![cur] = wpc]
  /\ input' = [input EXCEPT ![cur] = 0]
  /\ out' = [out EXCEPT ![cur] = << >>]
  /\ wpc' = "loop"
  /\ cur' = NoConn
  /\ UNCHANGED <<peerVars, got, taken, len, broken, lockVars, served, replies>>

(* A signal interrupts the futex wait and the worker tries once more.  The *)
(* unlock of the control process does not: the mutex is process-private.   *)
IntWakes ==
  /\ asleep
  /\ asleep' = FALSE
  /\ UNCHANGED <<peerVars, got, bufVars, cbVars, mutex, served, replies>>

(* The process ends and with it the connections it still has.              *)
Ends ==
  /\ wpc' = "dead"
  /\ end' = [c \in Conns |-> IF end[c] = "no" THEN "exit" ELSE end[c]]
  /\ input' = [c \in Conns |-> 0]
  /\ out' = [c \in Conns |-> << >>]

(* SIGPIPE has its default action: a write to a peer that has reset the    *)
(* connection may end the process.                                         *)
Sigpipe(c) ==
  /\ InLoop
  /\ end[c] = "no"
  /\ out[c] # << >>
  /\ peer[c] = "reset"
  /\ Ends
  /\ UNCHANGED <<peerVars, got, taken, cur, len, broken, lockVars, served,
                 replies>>

(* The control process looks at the slots of this worker: it finds none,   *)
CtrlLocks ==
  /\ mutex = "free"
  /\ mutex' = "ctrl"
  /\ UNCHANGED <<peerVars, got, bufVars, cbVars, asleep, served, replies>>

CtrlUnlocks ==
  /\ mutex = "ctrl"
  /\ mutex' = "free"
  /\ UNCHANGED <<peerVars, got, bufVars, cbVars, asleep, served, replies>>

(* or it finds one, and its number is in the pipe.                         *)
CtrlAssigns ==
  /\ mutex = "ctrl"
  /\ mutex' = "sent"
  /\ UNCHANGED <<peerVars, got, bufVars, cbVars, asleep, served, replies>>

(* jmm_cmm_read_wf_cb takes the further connection and unlocks the mutex,  *)
CmmRead ==
  /\ InLoop
  /\ mutex = "sent"
  /\ mutex' = "free"
  /\ UNCHANGED <<peerVars, got, bufVars, cbVars, asleep, served, replies>>

(* or waits for a descriptor for ever, when sendmsg had failed.            *)
CmmReadBlocks ==
  /\ InLoop
  /\ mutex = "sent"
  /\ wpc' = "recv"
  /\ UNCHANGED <<peerVars, got, bufVars, cur, len, broken, lockVars, served,
                 replies>>

(* jmm_ctrl_c_wf_cb: SIGINT or SIGTERM.                                    *)
CtrlCWf ==
  /\ InLoop
  /\ broken' = TRUE
  /\ UNCHANGED <<peerVars, got, bufVars, wpc, cur, len, lockVars, served,
                 replies>>

(* jmm_uninit_event_wf: every bufferevent is freed, and the worker ends.   *)
UninitEventWf ==
  /\ wpc = "loop"
  /\ broken
  /\ Ends
  /\ UNCHANGED <<peerVars, got, taken, cur, len, broken, lockVars, served,
                 replies>>

Callback == GetLength \/ Serve \/ ReadDone \/ LockWait \/ Free

ControlProcess == CtrlLocks \/ CtrlUnlocks \/ CtrlAssigns

Next ==
  \/ \E c \in Conns : \/ PeerSend(c) \/ PeerEnd(c) \/ PeerReset(c)
                      \/ ReadEvent(c) \/ WriteEvent(c)
                      \/ EofEvent(c) \/ ErrorEvent(c) \/ Sigpipe(c)
  \/ Callback \/ CmmRead \/ CmmReadBlocks \/ ControlProcess
  \/ IntWakes \/ CtrlCWf \/ UninitEventWf

Spec == Init /\ [][Next]_vars

(***************************************************************************)
(* As often as the worker is in its event loop the loop comes to every     *)
(* connection that is ready, and a callback runs on as long as nothing     *)
(* blocks it.  That the loop comes round is not assumed: peers, signals    *)
(* and the control process, which unlocks the mutex, are not fair, nor is  *)
(* what the service answers.                                               *)
(***************************************************************************)
Fairness ==
  /\ WF_vars(Callback)
  /\ \A c \in Conns : SF_vars(ReadEvent(c)) /\ SF_vars(WriteEvent(c))

FairSpec == Spec /\ Fairness
-----------------------------------------------------------------------------
(* The values every variable may have.                                     *)
TypeOK ==
  /\ peer \in [Conns -> {"open", "ended", "reset"}]
  /\ sent \in [Conns -> Nat]
  /\ got \in [Conns -> Seq(Nat)]
  /\ taken \in [Conns -> Nat]
  /\ input \in [Conns -> Nat]
  /\ out \in [Conns -> Seq(Nat)]
  /\ end \in [Conns -> {"no", "eof", "error", "exit"}]
  /\ wpc \in WfPcs
  /\ cur \in Conns \cup {NoConn}
  /\ len \in Nat
  /\ broken \in BOOLEAN
  /\ mutex \in {"free", "ctrl", "sent"}
  /\ asleep \in BOOLEAN
  /\ served \in [Conns -> Nat]
  /\ replies \in [Conns -> Seq(Nat)]

(* jmm_sock_read_wf_cb gives the service each byte it takes once and in    *)
(* order, and leaves none behind: what it left would wait for the peer to  *)
(* send something more.                                                    *)
NothingLeftBehind ==
  \A c \in Conns : /\ served[c] + input[c] = taken[c]
                   /\ wpc # "read" \/ cur # c => input[c] = 0

(* A connection freed at end of file has had everything its peer sent      *)
(* served, though the replies to it may be lost.                           *)
EofAfterService ==
  \A c \in Conns : end[c] = "eof" => served[c] = sent[c]

(* The inductive invariant behind the two above: a callback works on a     *)
(* connection that is there and on bytes that are in its buffer, the end   *)
(* it was called for does not pass while it waits for the mutex, and a     *)
(* connection at end of file gets nothing more.                            *)
ServiceInv ==
  /\ TypeOK
  /\ NothingLeftBehind
  /\ \A c \in Conns : taken[c] <= sent[c]
  /\ wpc \in {"read", "eof", "error"} => cur \in Conns /\ end[cur] = "no"
  /\ wpc = "eof" => peer[cur] # "open" /\ taken[cur] = sent[cur]
  /\ wpc = "error" => peer[cur] = "reset"
  /\ len # 0 => wpc = "read" /\ len <= input[cur]
  /\ \A c \in Conns : end[c] = "eof" => peer[c] # "open" /\ served[c] = sent[c]

(* A peer receives the replies to its own bytes in order and once, and     *)
(* only a peer that stopped sending, or the end of the worker, loses any.  *)
RepliesInOrder ==
  \A c \in Conns :
    /\ IsPrefix(got[c], replies[c])
    /\ peer[c] = "open" /\ wpc # "dead" => got[c] \o out[c] = replies[c]

(* What makes it inductive, next to ServiceInv: until it is reset or       *)
(* freed a connection has all its replies, and it is freed for a reason.   *)
RepliesAt(c) ==
  /\ IsPrefix(got[c], replies[c])
  /\ peer[c] # "reset" /\ end[c] = "no" => got[c] \o out[c] = replies[c]
  /\ end[c] = "eof" => peer[c] # "open"
  /\ end[c] = "error" => peer[c] = "reset"
  /\ end[c] = "exit" => wpc = "dead"

RepliesInv == \A c \in Conns : RepliesAt(c)

(* After a failure of the service, or a signal, no further connection is   *)
(* served and nothing more is sent: only the callback that runs goes on.   *)
FailureIsLast ==
  [][broken => /\ \A c \in Conns \ {cur} : served'[c] = served[c]
               /\ got' = got]_vars

(* The worker comes back to its event loop again and again, or ends: it is *)
(* not held up for ever by the pthread_mutex_lock of jmm_sock_event_wf_cb  *)
(* or the recvmsg of jmm_cmm_read_wf_cb (jmm_event.c:383, 312).            *)
ComesRound == []<>(wpc \notin {"eof", "error", "recv"})

Leaves == broken \/ wpc = "dead"

(* In the end all that was sent is served (each peer sends so much and no  *)
(* more), unless the peer resets the connection or the worker leaves its   *)
(* loop: no connection and no rest of a chunk is forgotten.                *)
EveryByteServed ==
  ComesRound =>
    []<>(\A c \in Conns : served[c] = sent[c] \/ peer[c] = "reset" \/ Leaves)

(* In the end a peer that stays has received every reply the service made  *)
(* to it, unless the worker leaves its loop.                               *)
EveryReplySent ==
  ComesRound =>
    []<>(\A c \in Conns : got[c] = replies[c] \/ peer[c] # "open" \/ Leaves)

-----------------------------------------------------------------------------
(* The abstract view: JmmService implements ConnStream.                    *)

Status(c) ==
  IF end[c] # "no" THEN "over" ELSE IF peer[c] = "reset" THEN "deaf" ELSE "live"

Stream == INSTANCE ConnStream WITH
  st <- [c \in Conns |-> Status(c)],
  owed <- out

(* Each byte of a connection is served once, in order and to its own       *)
(* connection, and the replies reach the peer likewise, however the bytes  *)
(* come in, are cut into chunks and wait in buffers; a reply is only lost  *)
(* with its connection.                                                    *)
ImplementsStream == Stream!StreamSpec
=============================================================================
