----------------------------- MODULE ConnStream -----------------------------
(***************************************************************************)
(* What a worker promises the peers of its connections: each connection is *)
(* a stream of bytes that are served once, in order and not before they    *)
(* are there; the replies to them are owed to the same peer, and reach it  *)
(* once and in order until it no longer listens or the connection is over. *)
(* Nothing is said of chunks, buffers and callbacks: JmmService implements *)
(* this.                                                                   *)
(***************************************************************************)
EXTENDS Integers, Sequences

CONSTANTS Conns  (* the connections                                       *)

VARIABLES
  st,      (* "live"; "deaf": the peer has reset it; "over"              *)
  sent,    (* bytes the peer has sent                                    *)
  served,  (* bytes that were served                                     *)
  owed,    (* replies the peer has still to get                          *)
  got      (* replies it has                                             *)

svars == <<st, sent, served, owed, got>>

StreamInit ==
  /\ st = [c \in Conns |-> "live"]
  /\ sent = [c \in Conns |-> 0]
  /\ served = [c \in Conns |-> 0]
  /\ owed = [c \in Conns |-> << >>]
  /\ got = [c \in Conns |-> << >>]

(* The peer sends, perhaps to a worker that is gone.                       *)
Send(c) ==
  /\ st[c] # "deaf"
  /\ sent' = [sent EXCEPT ![c] = @ + 1]
  /\ UNCHANGED <<st, served, owed, got>>

Reset(c) ==
  /\ st[c] = "live"
  /\ st' = [st EXCEPT ![c] = "deaf"]
  /\ UNCHANGED <<sent, served, owed, got>>

(* The bytes up to number n are served, with a reply to the peer or none.  *)
Answer(c, n) ==
  /\ st[c] # "over"
  /\ served[c] < n
  /\ n <= sent[c]
  /\ served' = [served EXCEPT ![c] = n]
  /\ owed' \in {owed, [owed EXCEPT ![c] = Append(@, n)]}
  /\ UNCHANGED <<st, sent, got>>

(* The peer gets the first n replies it is owed; one that has reset the    *)
(* connection gets nothing.                                                *)
Deliver(c, n) ==
  /\ st[c] # "over"
  /\ owed' = [owed EXCEPT ![c] = SubSeq(@, n + 1, Len(@))]
  /\ got' = IF st[c] = "deaf" THEN got
            ELSE [got EXCEPT ![c] = @ \o SubSeq(owed[c], 1, n)]
  /\ UNCHANGED <<st, sent, served>>

(* The connections of S are over, what is owed to them is dropped.         *)
Close(S) ==
  /\ \A c \in S : st[c] # "over"
  /\ st' = [c \in Conns |-> IF c \in S THEN "over" ELSE st[c]]
  /\ owed' = [c \in Conns |-> IF c \in S THEN << >> ELSE owed[c]]
  /\ UNCHANGED <<sent, served, got>>

StreamNext ==
  \/ \E c \in Conns : \/ Send(c) \/ Reset(c)
                      \/ \E n \in 1 .. sent[c] : Answer(c, n)
                      \/ \E n \in 1 .. Len(owed[c]) : Deliver(c, n)
  \/ \E S \in SUBSET Conns : Close(S)

StreamSpec == StreamInit /\ [][StreamNext]_svars
=============================================================================
