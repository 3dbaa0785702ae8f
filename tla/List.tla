-------------------------------- MODULE List --------------------------------
(***************************************************************************)
(* The doubly linked list of src/3rd/list.c, which queue.h renames: nodes  *)
(* in memory, with their pointers.  Calls of one list come one after the   *)
(* other.  A call that uses freed memory leaves the list undefined for     *)
(* good.  When malloc fails, a call does nothing.                          *)
(***************************************************************************)
EXTENDS Integers, SequencesExt

CONSTANTS
  Nodes,   (* memory for nodes                                           *)
  Null,
  Values,  (* what the nodes hold; cmp compares them as numbers          *)
  NoCall,  (* no call was made yet                                       *)
  MaxLen   (* bound: list->len                                           *)

Ops ==
  {"add_head", "add_tail", "add_before", "add_after", "add", "find",
   "del", "del_head", "del_tail"}

Calls == [op : Ops, val : Int, node : Nodes \cup {Null}]

ASSUME ListAssumption ==
  /\ IsFiniteSet(Nodes)
  /\ Null \notin Nodes
  /\ Values \subseteq Int
  /\ NoCall \notin Calls
  /\ MaxLen \in Nat

VARIABLES
  state,   (* "used", "undefined", "destroyed"                            *)
  head, tail, len, cmp,  (* the fields of the list                        *)
  next, pre, value,      (* the fields of the nodes                       *)
  live,    (* the nodes that are allocated                                *)
  call     (* history: the last call that was made to its end             *)

links == <<head, tail, next, pre>>
vars == <<state, head, tail, len, cmp, next, pre, value, live, call>>

Init ==
  /\ state = "used"
  /\ head = Null
  /\ tail = Null
  /\ len = 0
  /\ cmp \in BOOLEAN
  /\ next = [n \in Nodes |-> Null]
  /\ pre = [n \in Nodes |-> Null]
  /\ value = [n \in Nodes |-> 0]
  /\ live = {}
  /\ call = NoCall

Dangles(p) == p \notin live \cup {Null}

Returns(op, v, n) ==
  /\ state = "used"
  /\ call' = [op |-> op, val |-> v, node |-> n]
  /\ UNCHANGED <<state, cmp>>

(* A call follows a pointer to memory that was freed.                      *)
Break ==
  /\ state = "used"
  /\ state' = "undefined"
  /\ UNCHANGED <<head, tail, len, cmp, next, pre, value, live, call>>

(* p->field = q, unless p is null.                                         *)
Set(field, p, q) == IF p = Null THEN field ELSE [field EXCEPT ![p] = q]

-----------------------------------------------------------------------------
(* The node next_node leads to, if it is allocated.                        *)
After ==
  [n \in Nodes \cup {Null} |-> IF n \in live THEN next[n] ELSE Null]

(* The nodes in the order of next_node, from the head on.                  *)
NodeAt ==
  LET at[i \in 1 .. Cardinality(Nodes)] ==
        IF i = 1 THEN head ELSE After[at[i - 1]]
  IN at

(* How many nodes are met on the way.                                      *)
Length == Cardinality({i \in 1 .. Cardinality(Nodes) : NodeAt[i] \in live})

Chain == [i \in 1 .. Length |-> NodeAt[i]]

(* Mutant of Iterated: the iterator starts at the head.                    *)
IteratedAll == Chain

(* What list_iter_next returns, one after the other, in direction 1: it    *)
(* moves on before it returns a node, so the head is never returned.       *)
Iterated == IF Chain = << >> THEN << >> ELSE Tail(Chain)

FirstIterated(some) ==
  LET i == SelectInSeq(Iterated, LAMBDA n : n \in some)
  IN IF i = 0 THEN Null ELSE Iterated[i]

(* list_find: cmp or, without it, the same value.                          *)
Found(v) == FirstIterated({n \in live : value[n] = v})

-----------------------------------------------------------------------------
(* __list_alloc_node, and the list->len++ of every caller.                 *)
Alloc(n, v) ==
  /\ len < MaxLen
  /\ n \notin live
  /\ live' = live \cup {n}
  /\ value' = [value EXCEPT ![n] = v]
  /\ len' = len + 1

LinkFirst(n) ==
  /\ head' = n
  /\ tail' = IF head = Null THEN n ELSE tail
  /\ next' = [next EXCEPT ![n] = head]
  /\ pre' = Set(pre, head, n)

LinkLast(n) ==
  /\ tail' = n
  /\ head' = IF tail = Null THEN n ELSE head
  /\ pre' = [pre EXCEPT ![n] = tail]
  /\ next' = Set(next, tail, n)

(* list_add_before; without a node before it, node was the head.           *)
LinkBefore(n, node) ==
  /\ head' = IF pre[node] = Null THEN n ELSE head
  /\ next' = Set([next EXCEPT ![n] = node], pre[node], n)
  /\ pre' = [pre EXCEPT ![n] = pre[node], ![node] = n]
  /\ UNCHANGED tail

(* Mutant of LinkAfter: the node behind keeps its pre_node.                *)
LinkAfterOneWay(n, node) ==
  /\ tail' = IF next[node] = Null THEN n ELSE tail
  /\ pre' = [pre EXCEPT ![n] = node]
  /\ next' = [next EXCEPT ![n] = next[node], ![node] = n]
  /\ UNCHANGED head

(* list_add_after.                                                         *)
LinkAfter(n, node) ==
  /\ tail' = IF next[node] = Null THEN n ELSE tail
  /\ pre' = Set([pre EXCEPT ![n] = node], next[node], n)
  /\ next' = [next EXCEPT ![n] = next[node], ![node] = n]
  /\ UNCHANGED head

AddHead(v) ==
  IF Dangles(head) THEN Break
  ELSE /\ \E n \in Nodes : Alloc(n, v) /\ LinkFirst(n)
       /\ Returns("add_head", v, Null)

AddTail(v) ==
  IF Dangles(tail) THEN Break
  ELSE /\ \E n \in Nodes : Alloc(n, v) /\ LinkLast(n)
       /\ Returns("add_tail", v, Null)

AddBefore(node, v) ==
  /\ \E n \in Nodes : Alloc(n, v) /\ LinkBefore(n, node)
  /\ Returns("add_before", v, node)

AddAfter(node, v) ==
  /\ \E n \in Nodes : Alloc(n, v) /\ LinkAfter(n, node)
  /\ Returns("add_after", v, node)

(* list_add: with cmp, before the first greater value the iterator comes   *)
(* to; the head is followed by the iterator, the tail by list_add_tail.    *)
Add(v) ==
  LET greater == IF cmp THEN FirstIterated({n \in live : value[n] > v}) ELSE Null
  IN IF (cmp /\ Dangles(head)) \/ (greater = Null /\ Dangles(tail)) THEN Break
     ELSE /\ \E n \in Nodes :
               /\ Alloc(n, v)
               /\ IF greater = Null THEN LinkLast(n) ELSE LinkBefore(n, greater)
          /\ Returns("add", v, Null)

Find(v) ==
  IF Dangles(head) THEN Break
  ELSE /\ Returns("find", v, Found(v))
       /\ UNCHANGED <<len, links, value, live>>

-----------------------------------------------------------------------------
(* __list_free_node: nobody reads the fields of a freed node any more.     *)
Free(n, nextNow, preNow) ==
  /\ live' = live \ {n}
  /\ next' = [nextNow EXCEPT ![n] = Null]
  /\ pre' = [preNow EXCEPT ![n] = Null]
  /\ value' = [value EXCEPT ![n] = 0]

Del(v) ==
  LET n == Found(v)
  IN IF Dangles(head) THEN Break
     ELSE /\ IF n = Null THEN UNCHANGED <<len, links, value, live>>
             ELSE /\ Free(n, Set(next, pre[n], next[n]), Set(pre, next[n], pre[n]))
                  /\ head' = IF pre[n] = Null THEN next[n] ELSE head
                  /\ tail' = IF next[n] = Null THEN pre[n] ELSE tail
                  /\ len' = len - 1
          /\ Returns("del", v, Null)

(* Neither counts len down, and the last node leaves the other end as it   *)
(* was.                                                                    *)
DelHead ==
  IF Dangles(head) THEN Break
  ELSE /\ IF head = Null THEN UNCHANGED <<links, value, live>>
          ELSE /\ Free(head, next, Set(pre, next[head], Null))
               /\ head' = next[head]
               /\ UNCHANGED tail
       /\ UNCHANGED len
       /\ Returns("del_head", 0, Null)

DelTail ==
  IF Dangles(tail) THEN Break
  ELSE /\ IF tail = Null THEN UNCHANGED <<links, value, live>>
          ELSE /\ Free(tail, Set(next, pre[tail], Null), pre)
               /\ tail' = pre[tail]
               /\ UNCHANGED head
       /\ UNCHANGED len
       /\ Returns("del_tail", 0, Null)

SetCmp(b) ==
  /\ state = "used"
  /\ cmp' = b
  /\ UNCHANGED <<state, len, links, value, live, call>>

(* list_destroy frees the nodes from the head on.                          *)
Destroy ==
  IF Dangles(head) THEN Break
  ELSE /\ state = "used"
       /\ state' = "destroyed"
       /\ live' = live \ ToSet(Chain)
       /\ call' = NoCall
       /\ UNCHANGED <<len, cmp, links, value>>

Next ==
  \/ \E v \in Values :
       \/ AddHead(v) \/ AddTail(v) \/ Add(v) \/ Find(v) \/ Del(v)
       \/ \E node \in live : AddBefore(node, v) \/ AddAfter(node, v)
  \/ \E b \in BOOLEAN : SetCmp(b)
  \/ DelHead \/ DelTail \/ Destroy

Spec == Init /\ [][Next]_vars
-----------------------------------------------------------------------------
(* The list is the sequence of values ListValues says, call by call.       *)
PlaceOf(n) == IF n = Null THEN 0 ELSE SelectInSeq(Chain, LAMBDA m : m = n)

Items == [i \in 1 .. Length |-> value[NodeAt[i]]]

ValueList == INSTANCE ListValues WITH
  Value <- Values,
  items <- IF state = "destroyed" THEN << >> ELSE Items,
  call <- IF call = NoCall THEN NoCall
          ELSE [op |-> call.op, val |-> call.val, at |-> PlaceOf(call.node)]

ImplementsValueList == ValueList!Spec

(* The nodes of s are those that are allocated, each once; the pointers    *)
(* lead from one to the next in both directions, and from both ends.       *)
Linked(s) ==
  /\ live = ToSet(s)
  /\ \A i, j \in 1 .. Len(s) : s[i] = s[j] => i = j
  /\ \A i \in 1 .. Len(s) :
       /\ pre[s[i]] = IF i = 1 THEN Null ELSE s[i - 1]
       /\ next[s[i]] = IF i = Len(s) THEN Null ELSE s[i + 1]
  /\ s # << >> => head = s[1] /\ tail = s[Len(s)]

(* Seen from either end, the list has the same nodes, all that are         *)
(* allocated and each once, so that none is lost when it is destroyed; an  *)
(* end that points at freed memory is found in an empty list only.         *)
WellLinked ==
  /\ state = "used" => Linked(Chain)
  /\ state = "destroyed" => live = {}

-----------------------------------------------------------------------------
(* The parts of the inductive invariant of ListProofs.                     *)
TypeOK ==
  /\ state \in {"used", "undefined", "destroyed"}
  /\ {head, tail} \subseteq Nodes \cup {Null}
  /\ len \in Int
  /\ cmp \in BOOLEAN
  /\ next \in [Nodes -> Nodes \cup {Null}]
  /\ pre \in [Nodes -> Nodes \cup {Null}]
  /\ value \in [Nodes -> Int]
  /\ live \subseteq Nodes
  /\ \A n \in live : value[n] \in Values
  /\ call \in Calls \cup {NoCall}

(* Memory that is not allocated has no pointers.                           *)
Blank ==
  state = "used" =>
    \A n \in Nodes \ live : next[n] = Null /\ pre[n] = Null

(* len counts the nodes, and those that were removed at an end, so that    *)
(* list_del never takes one from 0, which is unsigned; a list that never   *)
(* had a node has no ends.                                                 *)
Counted ==
  state = "used" =>
    /\ Length <= len
    /\ len = 0 => head = Null /\ tail = Null

ListInv == TypeOK /\ Blank /\ Counted /\ WellLinked
=============================================================================
