----------------------------- MODULE ListValues -----------------------------
(***************************************************************************)
(* What a list of src/3rd/list.c is to its user: a sequence of values,     *)
(* with what each call makes of it.  The first value is passed over by     *)
(* search, sorted insertion and removal by value; len does not count the   *)
(* removals at the ends; and a list that has been emptied at one end may   *)
(* be unusable.                                                            *)
(***************************************************************************)
EXTENDS Integers, SequencesExt

CONSTANTS
  Value,    (* the values, which are numbers                             *)
  NoCall    (* no call was made yet                                      *)

VARIABLES
  state,  (* "used", "undefined" after a use of freed memory, "destroyed" *)
  items,  (* the values                                                   *)
  len,    (* what list_len returns                                        *)
  cmp,    (* whether the list has a comparison                            *)
  call    (* the last call, its value, and where the node it was about,   *)
          (* or returned, is now: 0 for none                              *)

vars == <<state, items, len, cmp, call>>

Init ==
  /\ state = "used"
  /\ items = << >>
  /\ len = 0
  /\ cmp \in BOOLEAN
  /\ call = NoCall

Returns(op, v, at) ==
  /\ state = "used"
  /\ call' = [op |-> op, val |-> v, at |-> at]
  /\ UNCHANGED <<state, cmp>>

Insert(i, v) == items' = InsertAt(items, i, v) /\ len' = len + 1

(* The first place behind the head with one of some values, or 0.          *)
Behind(some) ==
  LET found == {i \in 2 .. Len(items) : items[i] \in some}
  IN IF found = {} THEN 0 ELSE Min(found)

AddHead(v) == Returns("add_head", v, 0) /\ Insert(1, v)
AddTail(v) == Returns("add_tail", v, 0) /\ Insert(Len(items) + 1, v)
AddBefore(i, v) == Returns("add_before", v, i + 1) /\ Insert(i, v)
AddAfter(i, v) == Returns("add_after", v, i) /\ Insert(i + 1, v)

(* Before the first greater value behind the head.                         *)
Add(v) ==
  LET greater == Behind({x \in Value : x > v})
  IN /\ Returns("add", v, 0)
     /\ Insert(IF cmp /\ greater # 0 THEN greater ELSE Len(items) + 1, v)

Find(v) ==
  /\ Returns("find", v, Behind({v}))
  /\ UNCHANGED <<items, len>>

Del(v) ==
  LET i == Behind({v})
  IN /\ Returns("del", v, 0)
     /\ IF i = 0 THEN UNCHANGED <<items, len>>
        ELSE items' = RemoveAt(items, i) /\ len' = len - 1

DelHead ==
  /\ Returns("del_head", 0, 0)
  /\ items' = IF items = << >> THEN items ELSE Tail(items)
  /\ UNCHANGED len

DelTail ==
  /\ Returns("del_tail", 0, 0)
  /\ items' = IF items = << >> THEN items ELSE Front(items)
  /\ UNCHANGED len

SetCmp(b) == state = "used" /\ cmp' = b /\ UNCHANGED <<state, items, len, call>>

(* Only a list that has been emptied can break: len tells it from one that *)
(* was always empty.                                                       *)
Break ==
  /\ state = "used" /\ items = << >> /\ len > 0
  /\ state' = "undefined"
  /\ UNCHANGED <<items, len, cmp, call>>

Destroy ==
  /\ state = "used"
  /\ state' = "destroyed"
  /\ items' = << >>
  /\ call' = NoCall
  /\ UNCHANGED <<len, cmp>>

Next ==
  \/ \E v \in Value :
       \/ AddHead(v) \/ AddTail(v) \/ Add(v) \/ Find(v) \/ Del(v)
       \/ \E i \in 1 .. Len(items) : AddBefore(i, v) \/ AddAfter(i, v)
  \/ \E b \in BOOLEAN : SetCmp(b)
  \/ DelHead \/ DelTail \/ Break \/ Destroy

Spec == Init /\ [][Next]_vars
=============================================================================
