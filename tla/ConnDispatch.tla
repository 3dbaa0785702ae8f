---------------------------- MODULE ConnDispatch ----------------------------
(***************************************************************************)
(* What the process pool promises about connections, without locks, pipes  *)
(* or processes: the listener holds one connection at a time and either    *)
(* refuses it or binds it to one place, a (worker, slot) pair that no      *)
(* other connection is bound to; it stays in that place until it is        *)
(* released.  JmmPool implements this specification.                       *)
(***************************************************************************)

CONSTANTS
  Conns,   (* the client connections                    *)
  Places,  (* the (worker, slot) pairs of the pool      *)
  NoPlace  (* the place of a connection not bound       *)

VARIABLES
  st,  (* the stage each connection is in               *)
  at   (* the place it is bound to                      *)

dvars == <<st, at>>

Stages == {"new", "waiting", "held", "bound", "served", "closed"}

DispatchInit ==
  /\ st = [c \in Conns |-> "new"]
  /\ at = [c \in Conns |-> NoPlace]

(* A client connects: its connection waits in the listen backlog.          *)
Arrive(c) ==
  /\ st[c] = "new"
  /\ st' = [st EXCEPT ![c] = "waiting"]
  /\ UNCHANGED at

(* The listener takes one connection, and only when it holds none.         *)
Take(c) ==
  /\ st[c] = "waiting"
  /\ \A d \in Conns : st[d] # "held"
  /\ st' = [st EXCEPT ![c] = "held"]
  /\ UNCHANGED at

(* The held connection is bound to a place nobody else is bound to.        *)
Bind(c, p) ==
  /\ st[c] = "held"
  /\ \A d \in Conns : at[d] # p
  /\ st' = [st EXCEPT ![c] = "bound"]
  /\ at' = [at EXCEPT ![c] = p]

(* The held connection is turned away.                                     *)
Refuse(c) ==
  /\ st[c] = "held"
  /\ st' = [st EXCEPT ![c] = "closed"]
  /\ UNCHANGED at

(* The worker of the place has the connection.                             *)
Serve(c) ==
  /\ st[c] = "bound"
  /\ st' = [st EXCEPT ![c] = "served"]
  /\ UNCHANGED at

(* Connections are released: one that ended, one whose transfer failed, or *)
(* all those of a worker that died.                                        *)
Release(S) ==
  /\ S # {}
  /\ \A c \in S : st[c] \in {"bound", "served"}
  /\ st' = [c \in Conns |-> IF c \in S THEN "closed" ELSE st[c]]
  /\ at' = [c \in Conns |-> IF c \in S THEN NoPlace ELSE at[c]]

DispatchNext ==
  /\ st' # st
  /\ \/ \E c \in Conns : Arrive(c) \/ Take(c) \/ Refuse(c) \/ Serve(c)
     \/ \E c \in Conns, p \in Places : Bind(c, p)
     \/ \E S \in SUBSET Conns : Release(S)

DispatchSpec == DispatchInit /\ [][DispatchNext]_dvars

-----------------------------------------------------------------------------
(* The values the variables may have.                                      *)
DispatchTypeOK ==
  /\ st \in [Conns -> Stages]
  /\ at \in [Conns -> Places \cup {NoPlace}]

(* No two connections are in one slot of one worker, and the listener      *)
(* never has two connections in its hands: the data of two clients cannot  *)
(* meet in the slots of the pool.                                          *)
OnePerPlace ==
  \A c, d \in Conns :
    c # d => /\ at[c] # NoPlace => at[c] # at[d]
             /\ ~(st[c] = "held" /\ st[d] = "held")

(* A connection has a place exactly while it is bound or served.           *)
PlacedAsStaged ==
  \A c \in Conns : at[c] # NoPlace <=> st[c] \in {"bound", "served"}

DispatchInv == DispatchTypeOK /\ OnePerPlace /\ PlacedAsStaged
=============================================================================
