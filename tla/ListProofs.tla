----------------------------- MODULE ListProofs -----------------------------
(***************************************************************************)
(* The list: ListInv is inductive, for any memory, any values and any      *)
(* number of calls, and every call is the call of ListValues.  A list that *)
(* is used has one sequence s of nodes with Linked(s), the chain: what     *)
(* a call makes of the pointers is said as what it makes of s, InsertAt or *)
(* RemoveAt, and from s everything else follows.                           *)
(***************************************************************************)
EXTENDS List, FiniteSetTheorems, SequenceTheorems, WellFoundedInduction, TLAPS

(* Every set of numbers that is not empty has a least one.                 *)
LEMMA LeastOf ==
  ASSUME NEW T \in SUBSET Nat, T # {}
  PROVE  \E m \in T : \A x \in T : m <= x
<1> DEFINE R == {p \in Nat \X Nat : p[1] < p[2]}
<1>1. IsWellFoundedOn(R, Nat)
  BY NatLessThanWellFounded DEF OpToRel
<1>2. PICK m \in T : \A y \in T : ~(<<y, m>> \in R)
  <2> HIDE DEF R
  <2> QED
    BY <1>1, WFMin
<1>3. \A x \in T : ~(x < m)
  BY <1>2 DEF R
<1> QED
  BY <1>3

-----------------------------------------------------------------------------
(* Sequences, and what InsertAt and RemoveAt make of them.                 *)
LEMMA IsSeq ==
  ASSUME NEW S, NEW n \in Nat, NEW s \in [1 .. n -> S]
  PROVE  s \in Seq(S) /\ Len(s) = n
<1>1. s \in Seq(S)
  BY SeqDef
<1>2. Len(s) \in Nat /\ 1 .. Len(s) = 1 .. n
  BY <1>1, LenProperties
<1> QED
  BY <1>1, <1>2

LEMMA CountTo ==
  ASSUME NEW n \in Nat
  PROVE  Cardinality(1 .. n) = n
  BY FS_Interval

(* The element at place i once e has been inserted at place p of s.        *)
InsertedAt(s, p, e, i) ==
  IF i < p THEN s[i] ELSE IF i = p THEN e ELSE s[i - 1]

LEMMA Inserted ==
  ASSUME NEW S, NEW s \in Seq(S), NEW p \in 1 .. Len(s) + 1, NEW e \in S
  PROVE  /\ InsertAt(s, p, e) \in Seq(S)
         /\ Len(InsertAt(s, p, e)) = Len(s) + 1
         /\ \A i \in 1 .. Len(s) + 1 :
              InsertAt(s, p, e)[i] = InsertedAt(s, p, e, i)
<1> DEFINE a == SubSeq(s, 1, p - 1)
           b == SubSeq(s, p, Len(s))
<1>1. Len(s) \in Nat /\ \A i \in 1 .. Len(s) : s[i] \in S
  BY LenProperties, ElementOfSeq
<1>2. /\ a \in Seq(S) /\ Len(a) = p - 1
      /\ \A i \in 1 .. p - 1 : a[i] = s[i]
  BY <1>1, SubSeqProperties, Z3
<1>3. /\ b \in Seq(S) /\ Len(b) = Len(s) - p + 1
      /\ \A i \in 1 .. Len(s) - p + 1 : b[i] = s[p + i - 1]
  BY <1>1, SubSeqProperties, Z3
<1> HIDE DEF a, b
<1>4. /\ a \o <<e>> \in Seq(S) /\ Len(a \o <<e>>) = p
      /\ \A i \in 1 .. p : (a \o <<e>>)[i] = IF i = p THEN e ELSE a[i]
  <2>1. <<e>> \in Seq(S) /\ Len(<<e>>) = 1 /\ <<e>>[1] = e
    OBVIOUS
  <2> HIDE DEF a
  <2> QED
    BY <1>2, <2>1, ConcatProperties
<1>5. /\ (a \o <<e>>) \o b \in Seq(S)
      /\ Len((a \o <<e>>) \o b) = p + (Len(s) - p + 1)
      /\ \A i \in 1 .. p + (Len(s) - p + 1) :
           ((a \o <<e>>) \o b)[i] =
             IF i <= p THEN (a \o <<e>>)[i] ELSE b[i - p]
  BY <1>3, <1>4, ConcatProperties
<1>6. InsertAt(s, p, e) = (a \o <<e>>) \o b
  BY DEF InsertAt, a, b
<1> HIDE DEF a, b
<1>7. \A i \in 1 .. Len(s) + 1 : i > p => b[i - p] = s[i - 1]
  BY <1>1, <1>3
<1> QED
  BY <1>1, <1>2, <1>4, <1>5, <1>6, <1>7 DEF InsertedAt

(* The element at place i once the one at place p of s has been removed.   *)
RemovedAt(s, p, i) == IF i < p THEN s[i] ELSE s[i + 1]

LEMMA Removed ==
  ASSUME NEW S, NEW s \in Seq(S), NEW p \in 1 .. Len(s)
  PROVE  /\ RemoveAt(s, p) \in Seq(S)
         /\ Len(RemoveAt(s, p)) = Len(s) - 1
         /\ \A i \in 1 .. Len(s) - 1 :
              RemoveAt(s, p)[i] = RemovedAt(s, p, i)
<1> DEFINE a == SubSeq(s, 1, p - 1)
           b == SubSeq(s, p + 1, Len(s))
<1>1. Len(s) \in Nat /\ \A i \in 1 .. Len(s) : s[i] \in S
  BY LenProperties, ElementOfSeq
<1>2. /\ a \in Seq(S) /\ Len(a) = p - 1
      /\ \A i \in 1 .. p - 1 : a[i] = s[i]
  BY <1>1, SubSeqProperties, Z3
<1>3. /\ b \in Seq(S) /\ Len(b) = Len(s) - p
      /\ \A i \in 1 .. Len(s) - p : b[i] = s[p + i]
  <2>1. \A i \in p + 1 .. Len(s) : s[i] \in S
    BY <1>1
  <2>2. /\ b \in Seq(S)
        /\ Len(b) = IF p + 1 <= Len(s) THEN Len(s) - (p + 1) + 1 ELSE 0
        /\ \A i \in 1 .. Len(s) - (p + 1) + 1 : b[i] = s[(p + 1) + i - 1]
    BY <1>1, <2>1, SubSeqProperties
  <2> HIDE DEF b
  <2> QED
    BY <1>1, <2>2
<1> HIDE DEF a, b
<1>4. /\ a \o b \in Seq(S)
      /\ Len(a \o b) = Len(a) + Len(b)
      /\ \A i \in 1 .. Len(a) + Len(b) :
           (a \o b)[i] = IF i <= Len(a) THEN a[i] ELSE b[i - Len(a)]
  BY <1>2, <1>3, ConcatProperties
<1>5. RemoveAt(s, p) = a \o b
  BY DEF RemoveAt, a, b
<1>6. Len(a) + Len(b) = Len(s) - 1
  BY <1>1, <1>2, <1>3
<1>7. ASSUME NEW i \in 1 .. Len(s) - 1
      PROVE  (a \o b)[i] = IF i < p THEN s[i] ELSE s[i + 1]
  <2>1. CASE i < p
    BY <2>1, <1>1, <1>2, <1>4, <1>6
  <2>2. CASE i >= p
    <3>1. i - (p - 1) \in 1 .. Len(s) - p /\ p + (i - (p - 1)) = i + 1
      BY <2>2, <1>1
    <3>2. b[i - (p - 1)] = s[i + 1]
      BY <3>1, <1>3
    <3> QED
      BY <2>2, <3>2, <1>1, <1>2, <1>4, <1>6
  <2>3. i < p \/ i >= p
    BY <1>1
  <2> QED
    BY <2>1, <2>2, <2>3, <1>1
<1> QED
  BY <1>4, <1>5, <1>6, <1>7 DEF RemovedAt

-----------------------------------------------------------------------------
(* The chain is the one sequence that is linked: the nodes found along     *)
(* next_node are compared with s, the first that differs is not the head,  *)
(* and is behind one that does not differ.                                 *)
ChainIs(s) ==
  Linked(s) =>
    /\ Length = Len(s) /\ Chain = s
    /\ \A i \in 1 .. Len(s) : NodeAt[i] = s[i]

LEMMA Chains == TypeOK => \A s \in Seq(Nodes) : ChainIs(s)
<1> SUFFICES ASSUME TypeOK, NEW s \in Seq(Nodes), Linked(s)
             PROVE  /\ Length = Len(s) /\ Chain = s
                    /\ \A i \in 1 .. Len(s) : NodeAt[i] = s[i]
  BY DEF ChainIs
<1> DEFINE N == Cardinality(Nodes)
           At(i) == IF i \in 1 .. Len(s) THEN s[i]
                    ELSE IF i = 1 THEN head ELSE Null
           f == [i \in 1 .. N |-> At(i)]
           Eq(at) == at = [i \in 1 .. N |->
                             IF i = 1 THEN head ELSE After[at[i - 1]]]
<1>1. N \in Nat /\ Len(s) \in Nat /\ Len(s) <= N
  <2>1. s \in Injection(1 .. Len(s), Nodes)
    BY LenProperties DEF Linked, Injection, IsInjective
  <2>2. Cardinality(1 .. Len(s)) <= Cardinality(Nodes)
    BY <2>1, FS_Injection, ListAssumption
  <2> QED
    BY <2>2, FS_Interval, FS_CardinalityType, ListAssumption, LenProperties
<1>2. \A i \in 1 .. Len(s) : s[i] \in Nodes /\ s[i] \in live /\ s[i] # Null
  BY ListAssumption, ElementOfSeq DEF Linked, ToSet
<1>3. \A i \in 1 .. N : At(i) \in Nodes \cup {Null}
  BY <1>2 DEF TypeOK
<1>4. \A i \in 2 .. N : At(i) = After[At(i - 1)]
  <2> SUFFICES ASSUME NEW i \in 2 .. N PROVE At(i) = After[At(i - 1)]
    OBVIOUS
  <2>1. After[At(i - 1)] = IF At(i - 1) \in live THEN next[At(i - 1)] ELSE Null
    BY <1>1, <1>3 DEF After
  <2>2. CASE i - 1 \in 1 .. Len(s)
    <3>1. At(i - 1) = s[i - 1]
      BY <2>2
    <3>2. next[s[i - 1]] = IF i - 1 = Len(s) THEN Null ELSE s[i]
      BY <2>2, <1>1 DEF Linked
    <3> QED
      BY <2>1, <2>2, <3>1, <3>2, <1>1, <1>2
  <2>3. CASE i - 1 \notin 1 .. Len(s)
    <3>1. At(i) = Null
      BY <2>3, <1>1
    <3>2. At(i - 1) \notin live
      <4>1. CASE i = 2
        BY <4>1, <2>3, <1>1, LenProperties DEF Linked, ToSet
      <4>2. CASE i # 2
        BY <4>2, <2>3, <1>1, ListAssumption DEF TypeOK
      <4> QED
        BY <4>1, <4>2
    <3> QED
      BY <3>1, <3>2, <2>1
  <2> QED
    BY <2>2, <2>3
<1>5. Eq(f)
  <2>1. N >= 1 => At(1) = head
    BY <1>1, LenProperties DEF Linked
  <2> HIDE DEF At
  <2> QED
    BY <1>1, <1>4, <2>1
<1>6. Eq(NodeAt)
  <2>1. NodeAt = CHOOSE at : Eq(at)
    BY DEF NodeAt
  <2> HIDE DEF Eq, f
  <2> QED
    BY <2>1, <1>5
<1>7. \A i \in 1 .. N : NodeAt[i] = At(i)
  <2> DEFINE T == {i \in 1 .. N : NodeAt[i] # At(i)}
  <2>1. ASSUME T # {} PROVE FALSE
    <3>1. PICK m \in T : \A x \in T : m <= x
      <4>1. T \in SUBSET Nat
        BY <1>1
      <4> HIDE DEF T
      <4> QED
        BY <2>1, <4>1, LeastOf
    <3>2. m # 1
      BY <1>6, <1>5, <3>1
    <3>3. NodeAt[m - 1] = At(m - 1)
      BY <3>1, <3>2, <1>1
    <3>4. NodeAt[m] = After[NodeAt[m - 1]]
      BY <3>1, <3>2, <1>6, <1>1
    <3> QED
      BY <3>1, <3>2, <3>3, <3>4, <1>4, <1>1
  <2> QED
    BY <2>1
<1>8. Length = Len(s)
  <2>1. {i \in 1 .. N : NodeAt[i] \in live} = 1 .. Len(s)
    <3>1. ASSUME NEW i \in 1 .. N PROVE At(i) \in live <=> i \in 1 .. Len(s)
      <4>1. CASE i \in 1 .. Len(s)
        BY <4>1, <1>2
      <4>2. CASE i \notin 1 .. Len(s) /\ i # 1
        BY <4>2, ListAssumption DEF TypeOK
      <4>3. CASE i \notin 1 .. Len(s) /\ i = 1
        BY <4>3, <1>1 DEF Linked, ToSet
      <4> QED
        BY <4>1, <4>2, <4>3
    <3> HIDE DEF At
    <3> QED
      BY <3>1, <1>7, <1>1
  <2>2. Cardinality(1 .. Len(s)) = Len(s)
    BY <1>1, CountTo
  <2> QED
    BY <2>1, <2>2 DEF Length
<1>9. \A i \in 1 .. Len(s) : NodeAt[i] = s[i]
  BY <1>7, <1>1
<1>10. Chain = s
  BY <1>8, <1>9, LenProperties DEF Chain
<1> QED
  BY <1>8, <1>9, <1>10

LEMMA ChainsNext == (TypeOK => \A s \in Seq(Nodes) : ChainIs(s))'
BY Chains, PTL

-----------------------------------------------------------------------------
(* The nodes of a list are those that are allocated.                       *)
LEMMA Members ==
  ASSUME TypeOK, NEW s \in Seq(Nodes), Linked(s)
  PROVE  /\ Len(s) \in Nat
         /\ live = {s[i] : i \in 1 .. Len(s)}
         /\ \A i \in 1 .. Len(s) : s[i] \in Nodes /\ s[i] \in live
         /\ \A x \in live : \E i \in 1 .. Len(s) : s[i] = x
<1>1. DOMAIN s = 1 .. Len(s) /\ Len(s) \in Nat
  BY LenProperties
<1>2. live = {s[i] : i \in 1 .. Len(s)}
  BY <1>1 DEF Linked, ToSet
<1> QED
  BY <1>1, <1>2, ElementOfSeq

(* What a list is after a node has been linked in at place p.              *)
GrowsAt(s, p, n) ==
  /\ live' = live \cup {n}
  /\ head' = IF p = 1 THEN n ELSE head
  /\ tail' = IF p = Len(s) + 1 THEN n ELSE tail
  /\ \A x \in Nodes : next'[x] =
       IF x = n THEN IF p = Len(s) + 1 THEN Null ELSE s[p]
       ELSE IF p > 1 /\ x = s[p - 1] THEN n ELSE next[x]
  /\ \A x \in Nodes : pre'[x] =
       IF x = n THEN IF p = 1 THEN Null ELSE s[p - 1]
       ELSE IF p <= Len(s) /\ x = s[p] THEN n ELSE pre[x]

LEMMA LinkedIn ==
  ASSUME TypeOK, NEW s \in Seq(Nodes), Linked(s),
         NEW n \in Nodes \ live, NEW p \in 1 .. Len(s) + 1, GrowsAt(s, p, n)
  PROVE  \A t : t = InsertAt(s, p, n) => t \in Seq(Nodes) /\ Linked(t)'
<1> TAKE t
<1> HAVE t = InsertAt(s, p, n)
<1> DEFINE K(i) == IF i < p THEN i ELSE i - 1
<1>1. /\ t \in Seq(Nodes) /\ Len(t) = Len(s) + 1 /\ DOMAIN t = 1 .. Len(s) + 1
      /\ \A i \in 1 .. Len(s) + 1 :
           t[i] = IF i < p THEN s[i] ELSE IF i = p THEN n ELSE s[i - 1]
  <2>1. /\ t \in Seq(Nodes) /\ Len(t) = Len(s) + 1
        /\ \A i \in 1 .. Len(s) + 1 : t[i] = InsertedAt(s, p, n, i)
    BY Inserted
  <2> QED
    BY <2>1, LenProperties DEF InsertedAt
<1>2. /\ Len(s) \in Nat
      /\ \A i \in 1 .. Len(s) : s[i] \in Nodes /\ s[i] \in live /\ s[i] # n
      /\ \A x \in live : \E i \in 1 .. Len(s) : s[i] = x
  BY Members
<1>3. \A i, j \in 1 .. Len(s) : s[i] = s[j] => i = j
  BY DEF Linked
<1>4. ASSUME NEW k \in 1 .. Len(s)
      PROVE  /\ pre'[s[k]] = IF k = p THEN n
                             ELSE IF k = 1 THEN Null ELSE s[k - 1]
             /\ next'[s[k]] = IF k = p - 1 THEN n
                              ELSE IF k = Len(s) THEN Null ELSE s[k + 1]
  <2>1. /\ pre[s[k]] = IF k = 1 THEN Null ELSE s[k - 1]
        /\ next[s[k]] = IF k = Len(s) THEN Null ELSE s[k + 1]
    BY DEF Linked
  <2>2. p <= Len(s) => (s[k] = s[p] <=> k = p)
    BY <1>2, <1>3
  <2>3. p > 1 => (s[k] = s[p - 1] <=> k = p - 1)
    BY <1>2, <1>3
  <2> QED
    BY <1>2, <2>1, <2>2, <2>3 DEF GrowsAt
<1>5. /\ pre'[n] = IF p = 1 THEN Null ELSE s[p - 1]
      /\ next'[n] = IF p = Len(s) + 1 THEN Null ELSE s[p]
  BY DEF GrowsAt
<1>6. ASSUME NEW i \in 1 .. Len(s) + 1, i # p
      PROVE  K(i) \in 1 .. Len(s) /\ t[i] = s[K(i)]
  BY <1>1, <1>2, <1>6
<1>7. \A k \in 1 .. Len(s) : \E i \in 1 .. Len(s) + 1 : t[i] = s[k]
  <2> SUFFICES ASSUME NEW k \in 1 .. Len(s)
               PROVE  \E i \in 1 .. Len(s) + 1 : t[i] = s[k]
    OBVIOUS
  <2>1. CASE k < p
    <3>1. k \in 1 .. Len(s) + 1 /\ t[k] = s[k]
      BY <2>1, <1>1, <1>2
    <3> QED
      BY <3>1
  <2>2. CASE k >= p
    <3>1. k + 1 \in 1 .. Len(s) + 1 /\ t[k + 1] = s[k]
      BY <2>2, <1>1, <1>2
    <3> QED
      BY <3>1
  <2> QED
    BY <2>1, <2>2, <1>2
<1>8. t[p] = n
  BY <1>1, <1>2
<1>9. live' = ToSet(t)
  <2>1. ASSUME NEW i \in 1 .. Len(s) + 1 PROVE t[i] \in live \cup {n}
    BY <1>2, <1>6, <1>8
  <2>2. ASSUME NEW x \in live \cup {n} PROVE \E i \in 1 .. Len(s) + 1 : t[i] = x
    BY <1>2, <1>7, <1>8
  <2>3. ToSet(t) = {t[i] : i \in 1 .. Len(s) + 1}
    BY <1>1 DEF ToSet
  <2>4. live' = live \cup {n}
    BY DEF GrowsAt
  <2> HIDE DEF K
  <2> QED
    BY <2>1, <2>2, <2>3, <2>4
<1>10. ASSUME NEW i \in 1 .. Len(s) + 1, NEW j \in 1 .. Len(s) + 1, t[i] = t[j]
       PROVE  i = j
  <2>1. CASE i = p \/ j = p
    BY <2>1, <1>2, <1>6, <1>8, <1>10
  <2>2. CASE i # p /\ j # p
    <3>1. K(i) = K(j)
      <4> HIDE DEF K
      <4> QED
        BY <2>2, <1>3, <1>6, <1>10
    <3> QED
      BY <2>2, <3>1, <1>2
  <2> QED
    BY <2>1, <2>2
<1>11. ASSUME NEW i \in 1 .. Len(t)
       PROVE  /\ pre'[t[i]] = IF i = 1 THEN Null ELSE t[i - 1]
              /\ next'[t[i]] = IF i = Len(t) THEN Null ELSE t[i + 1]
  <2>1. CASE i < p
    <3>1. t[i] = s[i] /\ i \in 1 .. Len(s)
      BY <2>1, <1>1, <1>2
    <3>2. i > 1 => t[i - 1] = s[i - 1]
      BY <2>1, <1>1, <1>2
    <3>3. t[i + 1] = IF i = p - 1 THEN n ELSE s[i + 1]
      BY <2>1, <1>1, <1>2
    <3>4. /\ pre'[s[i]] = IF i = 1 THEN Null ELSE s[i - 1]
          /\ next'[s[i]] = IF i = p - 1 THEN n
                           ELSE IF i = Len(s) THEN Null ELSE s[i + 1]
      BY <2>1, <3>1, <1>2, <1>4
    <3> QED
      BY <2>1, <3>1, <3>2, <3>3, <3>4, <1>1, <1>2
  <2>2. CASE i = p
    <3>1. i > 1 => t[i - 1] = s[i - 1]
      BY <2>2, <1>1, <1>2
    <3>2. i <= Len(s) => t[i + 1] = s[i]
      BY <2>2, <1>1, <1>2
    <3> QED
      BY <2>2, <3>1, <3>2, <1>1, <1>2, <1>5, <1>8
  <2>3. CASE i > p
    <3>1. PICK k \in 1 .. Len(s) : i = k + 1
      <4>1. i - 1 \in 1 .. Len(s) /\ i = (i - 1) + 1
        BY <2>3, <1>1, <1>2
      <4> QED
        BY <4>1
    <3>2. t[k + 1] = s[k] /\ k >= p
      BY <2>3, <3>1, <1>1, <1>2
    <3>3. t[k] = IF k = p THEN n ELSE s[k - 1]
      BY <3>2, <1>1, <1>2
    <3>4. k < Len(s) => t[k + 2] = s[k + 1]
      BY <3>2, <1>1, <1>2
    <3>5. /\ pre'[s[k]] = IF k = p THEN n ELSE s[k - 1]
          /\ next'[s[k]] = IF k = Len(s) THEN Null ELSE s[k + 1]
      <4>1. k # p - 1 /\ (k # p => k # 1)
        BY <3>2, <1>2
      <4> QED
        BY <4>1, <1>4
    <3>6. /\ i # 1 /\ i - 1 = k /\ i + 1 = k + 2
          /\ i = Len(t) <=> k = Len(s)
          /\ k # Len(s) => k < Len(s)
      BY <3>1, <1>1, <1>2
    <3> QED
      BY <3>1, <3>2, <3>3, <3>4, <3>5, <3>6
  <2> QED
    BY <2>1, <2>2, <2>3, <1>1, <1>2
<1>12. head' = t[1] /\ tail' = t[Len(s) + 1]
  <2>1. Len(s) > 0 => head = s[1] /\ tail = s[Len(s)]
    BY <1>2 DEF Linked
  <2> QED
    BY <2>1, <1>1, <1>2 DEF GrowsAt
<1>13. Len(t) = Len(s) + 1 /\ Len(t) - 1 = Len(s)
  BY <1>1, <1>2
<1>14. \A i, j \in 1 .. Len(t) : t[i] = t[j] => i = j
  BY <1>10, <1>13
<1>15. Linked(t)'
  BY <1>9, <1>11, <1>12, <1>13, <1>14 DEF Linked
<1> QED
  BY <1>1, <1>15

(* What it is after the node at place p has been taken out.                *)
ShrinksAt(s, p) ==
  /\ live' = live \ {s[p]}
  /\ Len(s) > 1 =>
       /\ head' = IF p = 1 THEN s[2] ELSE head
       /\ tail' = IF p = Len(s) THEN s[p - 1] ELSE tail
  /\ \A x \in Nodes : next'[x] =
       IF x = s[p] THEN Null
       ELSE IF p > 1 /\ x = s[p - 1] THEN next[s[p]] ELSE next[x]
  /\ \A x \in Nodes : pre'[x] =
       IF x = s[p] THEN Null
       ELSE IF p < Len(s) /\ x = s[p + 1] THEN pre[s[p]] ELSE pre[x]

LEMMA LinkedOut ==
  ASSUME TypeOK, NEW s \in Seq(Nodes), Linked(s), NEW p \in 1 .. Len(s),
         ShrinksAt(s, p)
  PROVE  \A t : t = RemoveAt(s, p) => t \in Seq(Nodes) /\ Linked(t)'
<1> TAKE t
<1> HAVE t = RemoveAt(s, p)
<1> DEFINE K(i) == IF i < p THEN i ELSE i + 1
<1>1. /\ t \in Seq(Nodes) /\ Len(t) = Len(s) - 1 /\ DOMAIN t = 1 .. Len(s) - 1
      /\ \A i \in 1 .. Len(s) - 1 : t[i] = IF i < p THEN s[i] ELSE s[i + 1]
  <2>1. /\ t \in Seq(Nodes) /\ Len(t) = Len(s) - 1
        /\ \A i \in 1 .. Len(s) - 1 : t[i] = RemovedAt(s, p, i)
    BY Removed
  <2> QED
    BY <2>1, LenProperties DEF RemovedAt
<1>2. /\ Len(s) \in Nat
      /\ \A i \in 1 .. Len(s) : s[i] \in Nodes /\ s[i] \in live
      /\ \A x \in live : \E i \in 1 .. Len(s) : s[i] = x
  BY Members
<1>3. \A i, j \in 1 .. Len(s) : s[i] = s[j] => i = j
  BY DEF Linked
<1>4. ASSUME NEW k \in 1 .. Len(s), k # p
      PROVE  /\ pre'[s[k]] = IF k = p + 1
                             THEN IF p = 1 THEN Null ELSE s[p - 1]
                             ELSE IF k = 1 THEN Null ELSE s[k - 1]
             /\ next'[s[k]] = IF k = p - 1
                              THEN IF p = Len(s) THEN Null ELSE s[p + 1]
                              ELSE IF k = Len(s) THEN Null ELSE s[k + 1]
  <2>1. /\ pre[s[k]] = IF k = 1 THEN Null ELSE s[k - 1]
        /\ next[s[k]] = IF k = Len(s) THEN Null ELSE s[k + 1]
    BY DEF Linked
  <2>2. s[k] # s[p]
    BY <1>3, <1>4
  <2>3. p < Len(s) => (s[k] = s[p + 1] <=> k = p + 1)
    BY <1>2, <1>3
  <2>4. p > 1 => (s[k] = s[p - 1] <=> k = p - 1)
    BY <1>2, <1>3
  <2>5. /\ pre[s[p]] = IF p = 1 THEN Null ELSE s[p - 1]
        /\ next[s[p]] = IF p = Len(s) THEN Null ELSE s[p + 1]
    BY DEF Linked
  <2> QED
    BY <1>2, <2>1, <2>2, <2>3, <2>4, <2>5 DEF ShrinksAt
<1>5. ASSUME NEW i \in 1 .. Len(s) - 1
      PROVE  K(i) \in 1 .. Len(s) /\ K(i) # p /\ t[i] = s[K(i)]
  BY <1>1, <1>2
<1>6. ASSUME NEW k \in 1 .. Len(s), k # p
      PROVE  \E i \in 1 .. Len(s) - 1 : t[i] = s[k]
  <2>1. CASE k < p
    <3>1. k \in 1 .. Len(s) - 1 /\ t[k] = s[k]
      BY <2>1, <1>1, <1>2
    <3> QED
      BY <3>1
  <2>2. CASE k > p
    <3>1. k - 1 \in 1 .. Len(s) - 1 /\ t[k - 1] = s[k]
      BY <2>2, <1>1, <1>2
    <3> QED
      BY <3>1
  <2> QED
    BY <2>1, <2>2, <1>2, <1>6
<1>7. live' = ToSet(t)
  <2> HIDE DEF K
  <2>1. ASSUME NEW i \in 1 .. Len(s) - 1 PROVE t[i] \in live \ {s[p]}
    BY <1>2, <1>3, <1>5
  <2>2. ASSUME NEW x \in live \ {s[p]} PROVE \E i \in 1 .. Len(s) - 1 : t[i] = x
    <3>1. PICK k \in 1 .. Len(s) : s[k] = x
      BY <1>2
    <3> QED
      BY <3>1, <1>6
  <2>3. ToSet(t) = {t[i] : i \in 1 .. Len(s) - 1}
    BY <1>1 DEF ToSet
  <2>4. live' = live \ {s[p]}
    BY DEF ShrinksAt
  <2> QED
    BY <2>1, <2>2, <2>3, <2>4
<1>8. ASSUME NEW i \in 1 .. Len(s) - 1, NEW j \in 1 .. Len(s) - 1, t[i] = t[j]
      PROVE  i = j
  <2>1. K(i) = K(j)
    <3> HIDE DEF K
    <3> QED
      BY <1>3, <1>5, <1>8
  <2> QED
    BY <2>1, <1>2
<1>9. ASSUME NEW i \in 1 .. Len(t)
      PROVE  /\ pre'[t[i]] = IF i = 1 THEN Null ELSE t[i - 1]
             /\ next'[t[i]] = IF i = Len(t) THEN Null ELSE t[i + 1]
  <2>1. CASE i < p
    <3>1. t[i] = s[i] /\ i \in 1 .. Len(s) /\ i # p /\ i # p + 1
      BY <2>1, <1>1, <1>2
    <3>2. i > 1 => t[i - 1] = s[i - 1]
      BY <2>1, <1>1, <1>2
    <3>3. i < Len(s) - 1 => t[i + 1] = IF i = p - 1 THEN s[p + 1] ELSE s[i + 1]
      BY <2>1, <1>1, <1>2
    <3>4. /\ i = Len(t) <=> i = p - 1 /\ p = Len(s)
          /\ i # Len(t) => i < Len(s) - 1
          /\ i # Len(s) /\ (i # 1 => i > 1)
      BY <2>1, <1>1, <1>2
    <3>5. /\ pre'[s[i]] = IF i = 1 THEN Null ELSE s[i - 1]
          /\ next'[s[i]] = IF i = p - 1
                           THEN IF p = Len(s) THEN Null ELSE s[p + 1]
                           ELSE s[i + 1]
      BY <3>1, <3>4, <1>4
    <3> QED
      BY <3>1, <3>2, <3>3, <3>4, <3>5
  <2>2. CASE i >= p
    <3>1. t[i] = s[i + 1] /\ i + 1 \in 1 .. Len(s) /\ i + 1 # p /\ i + 1 # p - 1
      BY <2>2, <1>1, <1>2
    <3>2. i > 1 => t[i - 1] = IF i = p THEN s[p - 1] ELSE s[i]
      BY <2>2, <1>1, <1>2
    <3>3. i < Len(s) - 1 => t[i + 1] = s[i + 2]
      BY <2>2, <1>1, <1>2
    <3>4. /\ pre'[s[i + 1]] = IF i = p THEN IF p = 1 THEN Null ELSE s[p - 1]
                              ELSE s[i]
          /\ next'[s[i + 1]] = IF i + 1 = Len(s) THEN Null ELSE s[i + 2]
      BY <2>2, <3>1, <1>2, <1>4
    <3>5. /\ i = Len(t) <=> i + 1 = Len(s)
          /\ i # Len(t) => i < Len(s) - 1
          /\ (i = p /\ p = 1) <=> i = 1
          /\ i # 1 => i > 1
      BY <2>2, <1>1, <1>2
    <3> QED
      BY <3>1, <3>2, <3>3, <3>4, <3>5
  <2> QED
    BY <2>1, <2>2, <1>1, <1>2
<1>10. t # << >> => head' = t[1] /\ tail' = t[Len(s) - 1]
  <2>1. Len(s) > 0 => head = s[1] /\ tail = s[Len(s)]
    BY <1>2 DEF Linked
  <2>2. t # << >> => Len(s) > 1
    BY <1>1, <1>2
  <2>3. ASSUME Len(s) > 1
        PROVE  /\ t[1] = IF p = 1 THEN s[2] ELSE s[1]
               /\ t[Len(s) - 1] = IF p = Len(s) THEN s[p - 1] ELSE s[Len(s)]
    <3>1. 1 \in 1 .. Len(s) - 1 /\ Len(s) - 1 \in 1 .. Len(s) - 1
      BY <2>3, <1>2
    <3>2. t[1] = IF p = 1 THEN s[2] ELSE s[1]
      BY <3>1, <1>1, <1>2
    <3>3. t[Len(s) - 1] = IF p = Len(s) THEN s[Len(s) - 1] ELSE s[Len(s)]
      BY <3>1, <1>1, <1>2
    <3> QED
      BY <3>2, <3>3
  <2> QED
    BY <2>1, <2>2, <2>3, <1>2 DEF ShrinksAt
<1>11. Len(t) = Len(s) - 1
  BY <1>1
<1>12. \A i, j \in 1 .. Len(t) : t[i] = t[j] => i = j
  BY <1>8, <1>11
<1>13. Linked(t)'
  BY <1>7, <1>9, <1>10, <1>11, <1>12 DEF Linked
<1> QED
  BY <1>1, <1>13
-----------------------------------------------------------------------------
(* Blank, of a list that is used.                                          *)
Blanked == \A m \in Nodes \ live : next[m] = Null /\ pre[m] = Null

(* An end that does not dangle is Null exactly in the empty list.          *)
LEMMA Ends ==
  ASSUME TypeOK, NEW s \in Seq(Nodes), Linked(s)
  PROVE  /\ ~Dangles(head) => head = IF Len(s) = 0 THEN Null ELSE s[1]
         /\ ~Dangles(tail) => tail = IF Len(s) = 0 THEN Null ELSE s[Len(s)]
<1>1. /\ Len(s) \in Nat /\ live = {s[i] : i \in 1 .. Len(s)}
  BY Members
<1>2. CASE Len(s) = 0
  BY <1>1, <1>2 DEF Dangles
<1>3. CASE Len(s) # 0
  BY <1>1, <1>3 DEF Linked
<1> QED
  BY <1>2, <1>3

(* The functions that link a node in, and those that take one out.         *)
LEMMA LinksFirst ==
  ASSUME TypeOK, Blanked, NEW s \in Seq(Nodes), Linked(s), ~Dangles(head),
         NEW n \in Nodes, NEW v, Alloc(n, v), LinkFirst(n)
  PROVE  /\ \A t : t = InsertAt(s, 1, n) => t \in Seq(Nodes) /\ Linked(t)'
         /\ Blanked'
<1>1. /\ Len(s) \in Nat
      /\ \A i \in 1 .. Len(s) : s[i] \in Nodes /\ s[i] \in live
  BY Members
<1>2. head = IF Len(s) = 0 THEN Null ELSE s[1]
  BY Ends
<1>3. n \notin live /\ live' = live \cup {n} /\ head' = n
  BY DEF Alloc, LinkFirst
<1>4. Len(s) # 0 => s[1] \in Nodes /\ s[1] \in live /\ head = s[1] /\ s[1] # Null
  BY <1>1, <1>2, ListAssumption
<1>5. tail' = IF 1 = Len(s) + 1 THEN n ELSE tail
  BY <1>1, <1>2, <1>4 DEF LinkFirst
<1>6. \A x \in Nodes : next'[x] =
        IF x = n THEN IF 1 = Len(s) + 1 THEN Null ELSE s[1] ELSE next[x]
  BY <1>1, <1>2 DEF LinkFirst, TypeOK
<1>7. \A x \in Nodes : pre'[x] =
        IF x = n THEN Null
        ELSE IF 1 <= Len(s) /\ x = s[1] THEN n ELSE pre[x]
  <2>1. pre[n] = Null
    BY <1>3 DEF Blanked
  <2>2. pre \in [Nodes -> Nodes \cup {Null}]
    BY DEF TypeOK
  <2>3. CASE Len(s) = 0
    BY <1>2, <2>1, <2>2, <2>3 DEF LinkFirst, Set
  <2>4. CASE Len(s) # 0
    BY <1>1, <1>3, <1>4, <2>1, <2>2, <2>4 DEF LinkFirst, Set
  <2> QED
    BY <2>3, <2>4
<1>8. \A t : t = InsertAt(s, 1, n) => t \in Seq(Nodes) /\ Linked(t)'
  <2>1. 1 \in 1 .. Len(s) + 1 /\ n \in Nodes \ live
    BY <1>1, <1>3
  <2>2. head' = IF 1 = 1 THEN n ELSE head
    BY <1>3
  <2> QED
    BY <2>1, <2>2, <1>3, <1>5, <1>6, <1>7, LinkedIn DEF GrowsAt
<1>9. Blanked'
  BY <1>1, <1>3, <1>6, <1>7 DEF Blanked
<1> QED
  BY <1>8, <1>9

LEMMA LinksLast ==
  ASSUME TypeOK, Blanked, NEW s \in Seq(Nodes), Linked(s), ~Dangles(tail),
         NEW n \in Nodes, NEW v, Alloc(n, v), LinkLast(n)
  PROVE  /\ \A t : t = InsertAt(s, Len(s) + 1, n)
                     => t \in Seq(Nodes) /\ Linked(t)'
         /\ Blanked'
<1>1. /\ Len(s) \in Nat
      /\ \A i \in 1 .. Len(s) : s[i] \in Nodes /\ s[i] \in live
  BY Members
<1>2. tail = IF Len(s) = 0 THEN Null ELSE s[Len(s)]
  BY Ends
<1>3. n \notin live /\ live' = live \cup {n} /\ tail' = n
  BY DEF Alloc, LinkLast
<1>4. Len(s) # 0 => /\ s[Len(s)] \in Nodes /\ s[Len(s)] \in live
                    /\ tail = s[Len(s)] /\ tail # Null
  BY <1>1, <1>2, ListAssumption
<1>5. head' = IF Len(s) + 1 = 1 THEN n ELSE head
  BY <1>1, <1>2, <1>4 DEF LinkLast
<1>6. \A x \in Nodes : pre'[x] =
        IF x = n THEN IF Len(s) = 0 THEN Null ELSE s[Len(s)] ELSE pre[x]
  BY <1>1, <1>2 DEF LinkLast, TypeOK
<1>7. \A x \in Nodes : next'[x] =
        IF x = n THEN Null
        ELSE IF Len(s) > 0 /\ x = s[Len(s)] THEN n ELSE next[x]
  <2>1. next[n] = Null
    BY <1>3 DEF Blanked
  <2>2. next \in [Nodes -> Nodes \cup {Null}]
    BY DEF TypeOK
  <2>3. CASE Len(s) = 0
    BY <1>2, <2>1, <2>2, <2>3 DEF LinkLast, Set
  <2>4. CASE Len(s) # 0
    BY <1>1, <1>3, <1>4, <2>1, <2>2, <2>4 DEF LinkLast, Set
  <2> QED
    BY <2>3, <2>4
<1>8. \A t : t = InsertAt(s, Len(s) + 1, n) => t \in Seq(Nodes) /\ Linked(t)'
  <2> DEFINE p == Len(s) + 1
  <2>1. p \in 1 .. Len(s) + 1 /\ n \in Nodes \ live /\ p - 1 = Len(s)
    BY <1>1, <1>3
  <2>2. tail' = IF p = Len(s) + 1 THEN n ELSE tail
    BY <1>3
  <2>3. \A x \in Nodes : next'[x] =
          IF x = n THEN IF p = Len(s) + 1 THEN Null ELSE s[p]
          ELSE IF p > 1 /\ x = s[p - 1] THEN n ELSE next[x]
    BY <1>1, <1>7, <2>1
  <2>4. \A x \in Nodes : pre'[x] =
          IF x = n THEN IF p = 1 THEN Null ELSE s[p - 1]
          ELSE IF p <= Len(s) /\ x = s[p] THEN n ELSE pre[x]
    BY <1>1, <1>6, <2>1
  <2>5. head' = IF p = 1 THEN n ELSE head
    BY <1>5
  <2>6. p \in 1 .. Len(s) + 1
    BY <2>1
  <2> HIDE DEF p
  <2>7. \A t : t = InsertAt(s, p, n) => t \in Seq(Nodes) /\ Linked(t)'
    BY <2>1, <2>2, <2>3, <2>4, <2>5, <1>3, LinkedIn DEF GrowsAt
  <2> QED
    BY <2>7 DEF p
<1>9. Blanked'
  BY <1>1, <1>3, <1>6, <1>7 DEF Blanked
<1> QED
  BY <1>8, <1>9

(* In front of the node at place p.                                        *)
LEMMA LinksBefore ==
  ASSUME TypeOK, Blanked, NEW s \in Seq(Nodes), Linked(s),
         NEW p \in 1 .. Len(s),
         NEW n \in Nodes, NEW v, Alloc(n, v), LinkBefore(n, s[p])
  PROVE  /\ \A t : t = InsertAt(s, p, n) => t \in Seq(Nodes) /\ Linked(t)'
         /\ Blanked'
<1>1. /\ Len(s) \in Nat
      /\ \A i \in 1 .. Len(s) : s[i] \in Nodes /\ s[i] \in live /\ s[i] # Null
  BY Members, ListAssumption
<1>2. pre[s[p]] = IF p = 1 THEN Null ELSE s[p - 1]
  BY DEF Linked
<1>3. n \notin live /\ live' = live \cup {n} /\ tail' = tail
  BY DEF Alloc, LinkBefore
<1>4. p > 1 => s[p - 1] \in Nodes /\ s[p - 1] \in live /\ s[p - 1] # Null
  BY <1>1
<1>5. head' = IF p = 1 THEN n ELSE head
  BY <1>1, <1>2, <1>4 DEF LinkBefore
<1>6. \A x \in Nodes : pre'[x] =
        IF x = n THEN IF p = 1 THEN Null ELSE s[p - 1]
        ELSE IF p <= Len(s) /\ x = s[p] THEN n ELSE pre[x]
  <2>1. pre \in [Nodes -> Nodes \cup {Null}] /\ s[p] \in Nodes /\ s[p] # n
    BY <1>1, <1>3 DEF TypeOK
  <2>2. pre' = [pre EXCEPT ![n] = pre[s[p]], ![s[p]] = n]
    BY DEF LinkBefore
  <2> QED
    BY <1>1, <1>2, <2>1, <2>2
<1>7. \A x \in Nodes : next'[x] =
        IF x = n THEN IF p = Len(s) + 1 THEN Null ELSE s[p]
        ELSE IF p > 1 /\ x = s[p - 1] THEN n ELSE next[x]
  <2>1. next \in [Nodes -> Nodes \cup {Null}]
    BY DEF TypeOK
  <2>2. CASE p = 1
    BY <1>1, <1>2, <2>1, <2>2 DEF LinkBefore, Set
  <2>3. CASE p > 1
    BY <1>1, <1>2, <1>3, <1>4, <2>1, <2>3 DEF LinkBefore, Set
  <2> QED
    BY <1>1, <2>2, <2>3
<1>8. \A t : t = InsertAt(s, p, n) => t \in Seq(Nodes) /\ Linked(t)'
  <2>1. p \in 1 .. Len(s) + 1 /\ n \in Nodes \ live
    BY <1>1, <1>3
  <2>2. tail' = IF p = Len(s) + 1 THEN n ELSE tail
    BY <1>1, <1>3
  <2> QED
    BY <2>1, <2>2, <1>3, <1>5, <1>6, <1>7, LinkedIn DEF GrowsAt
<1>9. Blanked'
  BY <1>1, <1>3, <1>4, <1>6, <1>7 DEF Blanked
<1> QED
  BY <1>8, <1>9

(* Behind the node at place p.                                             *)
LEMMA LinksAfter ==
  ASSUME TypeOK, Blanked, NEW s \in Seq(Nodes), Linked(s),
         NEW p \in 1 .. Len(s),
         NEW n \in Nodes, NEW v, Alloc(n, v), LinkAfter(n, s[p])
  PROVE  /\ \A t : t = InsertAt(s, p + 1, n) => t \in Seq(Nodes) /\ Linked(t)'
         /\ Blanked'
<1>1. /\ Len(s) \in Nat
      /\ \A i \in 1 .. Len(s) : s[i] \in Nodes /\ s[i] \in live /\ s[i] # Null
  BY Members, ListAssumption
<1>2. next[s[p]] = IF p = Len(s) THEN Null ELSE s[p + 1]
  BY DEF Linked
<1>3. n \notin live /\ live' = live \cup {n} /\ head' = head
  BY DEF Alloc, LinkAfter
<1>4. p < Len(s) => s[p + 1] \in Nodes /\ s[p + 1] \in live /\ s[p + 1] # Null
  BY <1>1
<1>5. tail' = IF p = Len(s) THEN n ELSE tail
  BY <1>1, <1>2, <1>4 DEF LinkAfter
<1>6. \A x \in Nodes : next'[x] =
        IF x = n THEN IF p = Len(s) THEN Null ELSE s[p + 1]
        ELSE IF x = s[p] THEN n ELSE next[x]
  <2>1. next \in [Nodes -> Nodes \cup {Null}] /\ s[p] \in Nodes /\ s[p] # n
    BY <1>1, <1>3 DEF TypeOK
  <2>2. next' = [next EXCEPT ![n] = next[s[p]], ![s[p]] = n]
    BY DEF LinkAfter
  <2> QED
    BY <1>1, <1>2, <2>1, <2>2
<1>7. \A x \in Nodes : pre'[x] =
        IF x = n THEN s[p]
        ELSE IF p < Len(s) /\ x = s[p + 1] THEN n ELSE pre[x]
  <2>1. pre \in [Nodes -> Nodes \cup {Null}]
    BY DEF TypeOK
  <2>2. CASE p = Len(s)
    BY <1>1, <1>2, <2>1, <2>2 DEF LinkAfter, Set
  <2>3. CASE p < Len(s)
    BY <1>1, <1>2, <1>3, <1>4, <2>1, <2>3 DEF LinkAfter, Set
  <2> QED
    BY <1>1, <2>2, <2>3
<1>8. \A t : t = InsertAt(s, p + 1, n) => t \in Seq(Nodes) /\ Linked(t)'
  <2> DEFINE q == p + 1
  <2>1. /\ q \in 1 .. Len(s) + 1 /\ n \in Nodes \ live /\ q - 1 = p
        /\ q > 1 /\ q # 1 /\ (q = Len(s) + 1 <=> p = Len(s))
        /\ (q <= Len(s) <=> p < Len(s))
    BY <1>1, <1>3
  <2>2. head' = IF q = 1 THEN n ELSE head
    BY <1>3, <2>1
  <2>3. tail' = IF q = Len(s) + 1 THEN n ELSE tail
    BY <1>5, <2>1
  <2>4. \A x \in Nodes : next'[x] =
          IF x = n THEN IF q = Len(s) + 1 THEN Null ELSE s[q]
          ELSE IF q > 1 /\ x = s[q - 1] THEN n ELSE next[x]
    BY <1>6, <2>1
  <2>5. \A x \in Nodes : pre'[x] =
          IF x = n THEN IF q = 1 THEN Null ELSE s[q - 1]
          ELSE IF q <= Len(s) /\ x = s[q] THEN n ELSE pre[x]
    BY <1>7, <2>1
  <2> HIDE DEF q
  <2>6. \A t : t = InsertAt(s, q, n) => t \in Seq(Nodes) /\ Linked(t)'
    BY <2>1, <2>2, <2>3, <2>4, <2>5, <1>3, LinkedIn DEF GrowsAt
  <2> QED
    BY <2>6 DEF q
<1>9. Blanked'
  BY <1>1, <1>3, <1>4, <1>6, <1>7 DEF Blanked
<1> QED
  BY <1>8, <1>9

(* list_del of the node at place p.                                        *)
LEMMA Unlinks ==
  ASSUME TypeOK, Blanked, NEW s \in Seq(Nodes), Linked(s),
         NEW p \in 1 .. Len(s),
         Free(s[p], Set(next, pre[s[p]], next[s[p]]),
              Set(pre, next[s[p]], pre[s[p]])),
         head' = IF pre[s[p]] = Null THEN next[s[p]] ELSE head,
         tail' = IF next[s[p]] = Null THEN pre[s[p]] ELSE tail
  PROVE  /\ \A t : t = RemoveAt(s, p) => t \in Seq(Nodes) /\ Linked(t)'
         /\ Blanked'
<1>1. /\ Len(s) \in Nat
      /\ \A i \in 1 .. Len(s) : s[i] \in Nodes /\ s[i] \in live /\ s[i] # Null
  BY Members, ListAssumption
<1>2. \A i, j \in 1 .. Len(s) : s[i] = s[j] => i = j
  BY DEF Linked
<1>3. /\ pre[s[p]] = IF p = 1 THEN Null ELSE s[p - 1]
      /\ next[s[p]] = IF p = Len(s) THEN Null ELSE s[p + 1]
  BY DEF Linked
<1>4. live' = live \ {s[p]}
  BY DEF Free
<1>5. p > 1 => s[p - 1] \in Nodes /\ s[p - 1] # Null /\ s[p - 1] # s[p]
  BY <1>1, <1>2
<1>6. p < Len(s) => s[p + 1] \in Nodes /\ s[p + 1] # Null /\ s[p + 1] # s[p]
  BY <1>1, <1>2
<1>7. Len(s) > 1 =>
        /\ head' = IF p = 1 THEN s[2] ELSE head
        /\ tail' = IF p = Len(s) THEN s[p - 1] ELSE tail
  BY <1>1, <1>3, <1>5, <1>6
<1>8. \A x \in Nodes : next'[x] =
        IF x = s[p] THEN Null
        ELSE IF p > 1 /\ x = s[p - 1] THEN next[s[p]] ELSE next[x]
  <2>1. /\ next \in [Nodes -> Nodes \cup {Null}] /\ s[p] \in Nodes
        /\ next' = [Set(next, pre[s[p]], next[s[p]]) EXCEPT ![s[p]] = Null]
    BY <1>1 DEF TypeOK, Free
  <2>2. CASE p = 1
    BY <1>3, <2>1, <2>2 DEF Set
  <2>3. CASE p > 1
    BY <1>3, <1>5, <2>1, <2>3 DEF Set
  <2> QED
    BY <1>1, <2>2, <2>3
<1>9. \A x \in Nodes : pre'[x] =
        IF x = s[p] THEN Null
        ELSE IF p < Len(s) /\ x = s[p + 1] THEN pre[s[p]] ELSE pre[x]
  <2>1. /\ pre \in [Nodes -> Nodes \cup {Null}] /\ s[p] \in Nodes
        /\ pre' = [Set(pre, next[s[p]], pre[s[p]]) EXCEPT ![s[p]] = Null]
    BY <1>1 DEF TypeOK, Free
  <2>2. CASE p = Len(s)
    BY <1>3, <2>1, <2>2 DEF Set
  <2>3. CASE p < Len(s)
    BY <1>3, <1>6, <2>1, <2>3 DEF Set
  <2> QED
    BY <1>1, <2>2, <2>3
<1>10. \A t : t = RemoveAt(s, p) => t \in Seq(Nodes) /\ Linked(t)'
  BY <1>4, <1>7, <1>8, <1>9, LinkedOut DEF ShrinksAt
<1>11. Blanked'
  BY <1>1, <1>3, <1>4, <1>8, <1>9 DEF Blanked
<1> QED
  BY <1>10, <1>11

(* list_del_head, which leaves the tail as it was.                         *)
LEMMA UnlinksFirst ==
  ASSUME TypeOK, Blanked, NEW s \in Seq(Nodes), Linked(s), Len(s) > 0,
         head = s[1],
         Free(head, next, Set(pre, next[head], Null)),
         head' = next[head], tail' = tail
  PROVE  /\ \A t : t = RemoveAt(s, 1) => t \in Seq(Nodes) /\ Linked(t)'
         /\ Blanked'
<1> DEFINE p == 1
<1>1. /\ Len(s) \in Nat /\ p \in 1 .. Len(s) /\ p = 1
      /\ \A i \in 1 .. Len(s) : s[i] \in Nodes /\ s[i] \in live /\ s[i] # Null
  BY Members, ListAssumption
<1>2. head = s[p]
  OBVIOUS
<1> HIDE DEF p
<1>3. \A i, j \in 1 .. Len(s) : s[i] = s[j] => i = j
  BY DEF Linked
<1>4. /\ pre[s[p]] = Null
      /\ next[s[p]] = IF p = Len(s) THEN Null ELSE s[p + 1]
  BY <1>1 DEF Linked
<1>5. live' = live \ {s[p]}
  BY <1>2 DEF Free
<1>6. p < Len(s) => s[p + 1] \in Nodes /\ s[p + 1] # Null /\ s[p + 1] # s[p]
  BY <1>1, <1>3
<1>7. Len(s) > 1 =>
        /\ head' = IF p = 1 THEN s[2] ELSE head
        /\ tail' = IF p = Len(s) THEN s[p - 1] ELSE tail
  <2>1. p + 1 = 2
    BY <1>1
  <2> QED
    BY <1>1, <1>2, <1>4, <2>1
<1>8. \A x \in Nodes : next'[x] =
        IF x = s[p] THEN Null
        ELSE IF p > 1 /\ x = s[p - 1] THEN next[s[p]] ELSE next[x]
  BY <1>1, <1>2 DEF TypeOK, Free
<1>9. \A x \in Nodes : pre'[x] =
        IF x = s[p] THEN Null
        ELSE IF p < Len(s) /\ x = s[p + 1] THEN pre[s[p]] ELSE pre[x]
  <2>1. /\ pre \in [Nodes -> Nodes \cup {Null}] /\ s[p] \in Nodes
        /\ pre' = [Set(pre, next[s[p]], Null) EXCEPT ![s[p]] = Null]
    BY <1>1, <1>2 DEF TypeOK, Free
  <2>2. CASE p = Len(s)
    BY <1>4, <2>1, <2>2 DEF Set
  <2>3. CASE p < Len(s)
    <3>1. next[s[p]] = s[p + 1] /\ s[p + 1] # Null
      BY <1>4, <1>6, <2>3
    <3> QED
      BY <1>4, <1>6, <2>1, <2>3, <3>1 DEF Set
  <2>4. p = Len(s) \/ p < Len(s)
    <3>1. Len(s) \in Nat /\ p \in 1 .. Len(s)
      BY <1>1
    <3> QED
      BY <3>1
  <2> QED
    BY <2>2, <2>3, <2>4
<1>10. \A t : t = RemoveAt(s, p) => t \in Seq(Nodes) /\ Linked(t)'
  BY <1>1, <1>5, <1>7, <1>8, <1>9, LinkedOut DEF ShrinksAt
<1>11. Blanked'
  BY <1>1, <1>5, <1>8, <1>9 DEF Blanked
<1> QED
  BY <1>10, <1>11 DEF p

(* list_del_tail, which leaves the head as it was.                         *)
LEMMA UnlinksLast ==
  ASSUME TypeOK, Blanked, NEW s \in Seq(Nodes), Linked(s), Len(s) > 0,
         tail = s[Len(s)],
         Free(tail, Set(next, pre[tail], Null), pre),
         tail' = pre[tail], head' = head
  PROVE  /\ \A t : t = RemoveAt(s, Len(s)) => t \in Seq(Nodes) /\ Linked(t)'
         /\ Blanked'
<1> DEFINE p == Len(s)
<1>1. /\ Len(s) \in Nat /\ p \in 1 .. Len(s) /\ p = Len(s)
      /\ \A i \in 1 .. Len(s) : s[i] \in Nodes /\ s[i] \in live /\ s[i] # Null
  BY Members, ListAssumption
<1>2. tail = s[p]
  OBVIOUS
<1> HIDE DEF p
<1>3. \A i, j \in 1 .. Len(s) : s[i] = s[j] => i = j
  BY DEF Linked
<1>4. /\ pre[s[p]] = IF p = 1 THEN Null ELSE s[p - 1]
      /\ next[s[p]] = Null
  BY <1>1 DEF Linked
<1>5. live' = live \ {s[p]}
  BY <1>2 DEF Free
<1>6. p > 1 => s[p - 1] \in Nodes /\ s[p - 1] # Null /\ s[p - 1] # s[p]
  BY <1>1, <1>3
<1>7. Len(s) > 1 =>
        /\ head' = IF p = 1 THEN s[2] ELSE head
        /\ tail' = IF p = Len(s) THEN s[p - 1] ELSE tail
  BY <1>1, <1>2, <1>4
<1>8. \A x \in Nodes : next'[x] =
        IF x = s[p] THEN Null
        ELSE IF p > 1 /\ x = s[p - 1] THEN next[s[p]] ELSE next[x]
  <2>1. /\ next \in [Nodes -> Nodes \cup {Null}] /\ s[p] \in Nodes
        /\ next' = [Set(next, pre[s[p]], Null) EXCEPT ![s[p]] = Null]
    BY <1>1, <1>2 DEF TypeOK, Free
  <2>2. CASE p = 1
    BY <1>1, <1>4, <2>1, <2>2 DEF Set
  <2>3. CASE p > 1
    BY <1>1, <1>4, <1>6, <2>1, <2>3 DEF Set
  <2> QED
    BY <1>1, <2>2, <2>3
<1>9. \A x \in Nodes : pre'[x] =
        IF x = s[p] THEN Null
        ELSE IF p < Len(s) /\ x = s[p + 1] THEN pre[s[p]] ELSE pre[x]
  BY <1>1, <1>2 DEF TypeOK, Free
<1>10. \A t : t = RemoveAt(s, p) => t \in Seq(Nodes) /\ Linked(t)'
  BY <1>1, <1>5, <1>7, <1>8, <1>9, LinkedOut DEF ShrinksAt
<1>11. Blanked'
  BY <1>1, <1>5, <1>8, <1>9 DEF Blanked
<1> QED
  BY <1>10, <1>11 DEF p

-----------------------------------------------------------------------------
(* What the iterator finds: the first node of some behind the head.        *)
LEMMA FirstIs ==
  ASSUME TypeOK, NEW s \in Seq(Nodes), Chain = s
  PROVE  \A some :
           LET found == {i \in 2 .. Len(s) : s[i] \in some}
           IN IF found = {} THEN FirstIterated(some) = Null
              ELSE \E p \in found :
                     /\ \A i \in found : p <= i
                     /\ FirstIterated(some) = s[p]
<1> TAKE some
<1> DEFINE found == {i \in 2 .. Len(s) : s[i] \in some}
           r == Iterated
           hit == {i \in 1 .. Len(r) : r[i] \in some}
           at == IF hit # {} THEN Min(hit) ELSE 0
<1>1. FirstIterated(some) = IF at = 0 THEN Null ELSE r[at]
  BY DEF FirstIterated, SelectInSeq
<1>2. Len(s) \in Nat
  BY LenProperties
<1>3. Len(r) \in Nat /\ Len(r) = IF Len(s) = 0 THEN 0 ELSE Len(s) - 1
  <2>1. CASE s = << >>
    BY <2>1 DEF Iterated
  <2>2. CASE s # << >>
    BY <2>2, <1>2, HeadTailProperties, EmptySeq DEF Iterated
  <2> QED
    BY <2>1, <2>2
<1>4. \A i \in 1 .. Len(r) : r[i] = s[i + 1]
  <2>1. CASE s = << >>
    BY <2>1 DEF Iterated
  <2>2. CASE s # << >>
    BY <2>2, <1>2, HeadTailProperties, EmptySeq DEF Iterated
  <2> QED
    BY <2>1, <2>2
<1> HIDE DEF r
<1>5. \A i \in hit : i + 1 \in found
  BY <1>2, <1>3, <1>4
<1>6. \A i \in found : i - 1 \in hit /\ (i - 1) + 1 = i
  BY <1>2, <1>3, <1>4
<1>7. CASE found = {}
  BY <1>1, <1>5, <1>7
<1>8. CASE found # {}
  <2>1. hit # {} /\ hit \in SUBSET Nat
    BY <1>3, <1>6, <1>8
  <2>2. at \in hit /\ \A i \in hit : at <= i
    <3> HIDE DEF hit
    <3> QED
      BY <2>1, LeastOf DEF Min
  <2>3. at # 0 /\ at \in Nat
    BY <2>2, <1>3
  <2> HIDE DEF at
  <2>4. at + 1 \in found /\ r[at] = s[at + 1]
    BY <2>2, <1>4, <1>5
  <2>5. \A i \in found : at + 1 <= i
    BY <2>2, <2>3, <1>6
  <2> QED
    BY <1>1, <1>8, <2>3, <2>4, <2>5
<1> QED
  BY <1>7, <1>8

-----------------------------------------------------------------------------
(* What follows when a node has been linked in, or taken out.              *)
LEMMA IsUsed == ListInv /\ state = "used" => Chain \in Seq(Nodes) /\ Linked(Chain)
<1> SUFFICES ASSUME ListInv, state = "used"
             PROVE  Chain \in Seq(Nodes) /\ Linked(Chain)
  OBVIOUS
<1>1. Linked(Chain)
  BY DEF ListInv, WellLinked
<1>2. Length \in Nat
  <2>1. IsFiniteSet(1 .. Cardinality(Nodes))
    BY FS_Interval, FS_CardinalityType, ListAssumption
  <2> QED
    BY <2>1, FS_Subset, FS_CardinalityType DEF Length
<1>3. Chain = [i \in 1 .. Length |-> NodeAt[i]]
  BY DEF Chain
<1>4. \A i \in 1 .. Length : NodeAt[i] \in Nodes
  <2>1. live = {Chain[i] : i \in DOMAIN Chain} /\ live \subseteq Nodes
    BY <1>1 DEF Linked, ToSet, ListInv, TypeOK
  <2> QED
    BY <2>1, <1>3
<1> QED
  BY <1>1, <1>2, <1>3, <1>4, IsSeq

LEMMA Inserts ==
  ASSUME ListInv, TypeOK', state = "used", state' = "used",
         NEW s \in Seq(Nodes), Linked(s),
         NEW n \in Nodes, NEW v \in Int, Alloc(n, v),
         NEW p \in 1 .. Len(s) + 1,
         \A t : t = InsertAt(s, p, n) => t \in Seq(Nodes) /\ Linked(t)',
         Blanked'
  PROVE  /\ ListInv'
         /\ Chain' = InsertAt(s, p, n)
         /\ Items' = InsertAt(Items, p, v)
<1>1. PICK t : t = InsertAt(s, p, n)
  OBVIOUS
<1>2. /\ t \in Seq(Nodes) /\ Len(t) = Len(s) + 1
      /\ \A i \in 1 .. Len(s) + 1 :
           t[i] = IF i < p THEN s[i] ELSE IF i = p THEN n ELSE s[i - 1]
  <2>1. /\ InsertAt(s, p, n) \in Seq(Nodes)
        /\ Len(InsertAt(s, p, n)) = Len(s) + 1
        /\ \A i \in 1 .. Len(s) + 1 :
             InsertAt(s, p, n)[i] = InsertedAt(s, p, n, i)
    BY Inserted
  <2> QED
    BY <1>1, <2>1 DEF InsertedAt
<1>3. Linked(t)'
  BY <1>1
<1>4. /\ Length' = Len(t) /\ Chain' = t
      /\ \A i \in 1 .. Len(t) : NodeAt'[i] = t[i]
  BY <1>2, <1>3, ChainsNext DEF ChainIs
<1>5. /\ Length = Len(s) /\ Chain = s
      /\ \A i \in 1 .. Len(s) : NodeAt[i] = s[i]
  BY Chains DEF ChainIs, ListInv
<1>6. /\ Len(s) \in Nat
      /\ \A i \in 1 .. Len(s) : s[i] \in Nodes /\ s[i] # n
  BY Members DEF ListInv, Alloc
<1>7. Linked(Chain)'
  BY <1>3, <1>4 DEF Linked
<1>8. Counted'
  <2>1. len' = len + 1 /\ Length <= len /\ len \in Int
    BY DEF Alloc, ListInv, Counted, TypeOK
  <2> QED
    BY <2>1, <1>2, <1>4, <1>5, <1>6 DEF Counted
<1>9. ListInv'
  BY <1>7, <1>8 DEF ListInv, Blank, Blanked, WellLinked
<1>10. Items' = InsertAt(Items, p, v)
  <2>1. /\ value \in [Nodes -> Int]
        /\ value' = [value EXCEPT ![n] = v]
    BY DEF ListInv, TypeOK, Alloc
  <2>2. /\ Items \in [1 .. Len(s) -> Int]
        /\ \A i \in 1 .. Len(s) : Items[i] = value[s[i]]
    BY <1>5, <1>6, <2>1 DEF Items
  <2>3. /\ Items \in Seq(Int) /\ Len(Items) = Len(s)
    BY <1>6, <2>2, IsSeq
  <2>4. Items' = [i \in 1 .. Len(s) + 1 |-> value'[t[i]]]
    BY <1>2, <1>4 DEF Items
  <2>5. /\ InsertAt(Items, p, v) \in Seq(Int)
        /\ Len(InsertAt(Items, p, v)) = Len(s) + 1
        /\ \A i \in 1 .. Len(s) + 1 :
             InsertAt(Items, p, v)[i] =
               IF i < p THEN Items[i] ELSE IF i = p THEN v ELSE Items[i - 1]
    <3>1. /\ InsertAt(Items, p, v) \in Seq(Int)
          /\ Len(InsertAt(Items, p, v)) = Len(s) + 1
          /\ \A i \in 1 .. Len(s) + 1 :
               InsertAt(Items, p, v)[i] = InsertedAt(Items, p, v, i)
      BY <2>3, Inserted
    <3> QED
      BY <3>1 DEF InsertedAt
  <2>6. ASSUME NEW i \in 1 .. Len(s) + 1
        PROVE  value'[t[i]] = InsertAt(Items, p, v)[i]
    <3>1. CASE i < p
      <4>1. i \in 1 .. Len(s)
        BY <3>1, <1>6
      <4>2. t[i] = s[i] /\ InsertAt(Items, p, v)[i] = value[s[i]]
        BY <3>1, <4>1, <1>2, <2>2, <2>5
      <4> QED
        BY <4>1, <4>2, <2>1, <1>6
    <3>2. CASE i = p
      <4>1. t[i] = n /\ InsertAt(Items, p, v)[i] = v
        BY <3>2, <1>2, <2>5
      <4> QED
        BY <4>1, <2>1
    <3>3. CASE i > p
      <4>1. i - 1 \in 1 .. Len(s) /\ ~(i < p) /\ i # p
        BY <3>3, <1>6
      <4>2. t[i] = s[i - 1] /\ InsertAt(Items, p, v)[i] = value[s[i - 1]]
        BY <4>1, <1>2, <2>2, <2>5
      <4> QED
        BY <4>1, <4>2, <2>1, <1>6
    <3> QED
      BY <3>1, <3>2, <3>3, <1>6
  <2>7. InsertAt(Items, p, v)
          = [i \in 1 .. Len(s) + 1 |-> InsertAt(Items, p, v)[i]]
    BY <2>5, LenProperties
  <2> QED
    BY <2>4, <2>6, <2>7
<1> QED
  BY <1>1, <1>4, <1>9, <1>10

LEMMA Removes ==
  ASSUME ListInv, TypeOK', state = "used", state' = "used",
         NEW s \in Seq(Nodes), Linked(s), NEW p \in 1 .. Len(s),
         value' = [value EXCEPT ![s[p]] = 0],
         len' = len \/ (len' = len - 1 /\ Len(s) > 1),
         \A t : t = RemoveAt(s, p) => t \in Seq(Nodes) /\ Linked(t)',
         Blanked'
  PROVE  /\ ListInv'
         /\ Chain' = RemoveAt(s, p)
         /\ Items' = RemoveAt(Items, p)
<1>1. PICK t : t = RemoveAt(s, p)
  OBVIOUS
<1>2. /\ t \in Seq(Nodes) /\ Len(t) = Len(s) - 1
      /\ \A i \in 1 .. Len(s) - 1 : t[i] = IF i < p THEN s[i] ELSE s[i + 1]
  <2>1. /\ t \in Seq(Nodes) /\ Len(t) = Len(s) - 1
        /\ \A i \in 1 .. Len(s) - 1 : t[i] = RemovedAt(s, p, i)
    BY <1>1, Removed
  <2> QED
    BY <2>1 DEF RemovedAt
<1>3. Linked(t)'
  BY <1>1
<1>4. /\ Length' = Len(t) /\ Chain' = t
      /\ \A i \in 1 .. Len(t) : NodeAt'[i] = t[i]
  BY <1>2, <1>3, ChainsNext DEF ChainIs
<1>5. /\ Length = Len(s) /\ Chain = s
      /\ \A i \in 1 .. Len(s) : NodeAt[i] = s[i]
  BY Chains DEF ChainIs, ListInv
<1>6. /\ Len(s) \in Nat
      /\ \A i \in 1 .. Len(s) : s[i] \in Nodes
      /\ \A i, j \in 1 .. Len(s) : s[i] = s[j] => i = j
  BY Members DEF ListInv, Linked
<1>7. Linked(Chain)'
  BY <1>3, <1>4 DEF Linked
<1>8. Counted'
  <2>1. Length <= len /\ len \in Int
    BY DEF ListInv, Counted, TypeOK
  <2>2. Length' <= len' /\ len' # 0
    BY <2>1, <1>2, <1>4, <1>5, <1>6
  <2> QED
    BY <2>2 DEF Counted
<1>9. ListInv'
  BY <1>7, <1>8 DEF ListInv, Blank, Blanked, WellLinked
<1>10. Items' = RemoveAt(Items, p)
  <2>1. value \in [Nodes -> Int]
    BY DEF ListInv, TypeOK
  <2>2. /\ Items \in [1 .. Len(s) -> Int]
        /\ \A i \in 1 .. Len(s) : Items[i] = value[s[i]]
    BY <1>5, <1>6, <2>1 DEF Items
  <2>3. /\ Items \in Seq(Int) /\ Len(Items) = Len(s)
    BY <1>6, <2>2, IsSeq
  <2>4. Items' = [i \in 1 .. Len(s) - 1 |-> value'[t[i]]]
    BY <1>2, <1>4 DEF Items
  <2>5. /\ RemoveAt(Items, p) \in Seq(Int)
        /\ Len(RemoveAt(Items, p)) = Len(s) - 1
        /\ \A i \in 1 .. Len(s) - 1 :
             RemoveAt(Items, p)[i] = IF i < p THEN Items[i] ELSE Items[i + 1]
    BY <2>3, Removed DEF RemovedAt
  <2>6. ASSUME NEW i \in 1 .. Len(s) - 1
        PROVE  value'[t[i]] = RemoveAt(Items, p)[i]
    <3>1. CASE i < p
      <4>1. i \in 1 .. Len(s) /\ i # p
        BY <3>1, <1>6
      <4>2. t[i] = s[i] /\ RemoveAt(Items, p)[i] = value[s[i]]
        BY <3>1, <4>1, <1>2, <2>2, <2>5
      <4> QED
        BY <4>1, <4>2, <2>1, <1>6
    <3>2. CASE i >= p
      <4>1. i + 1 \in 1 .. Len(s) /\ i + 1 # p /\ ~(i < p)
        BY <3>2, <1>6
      <4>2. t[i] = s[i + 1] /\ RemoveAt(Items, p)[i] = value[s[i + 1]]
        BY <4>1, <1>2, <2>2, <2>5
      <4> QED
        BY <4>1, <4>2, <2>1, <1>6
    <3> QED
      BY <3>1, <3>2, <1>6
  <2>7. RemoveAt(Items, p)
          = [i \in 1 .. Len(s) - 1 |-> RemoveAt(Items, p)[i]]
    BY <2>5, LenProperties
  <2> QED
    BY <2>4, <2>6, <2>7
<1> QED
  BY <1>1, <1>4, <1>9, <1>10

-----------------------------------------------------------------------------
(* What the steps of ListValues are made of.                               *)
LEMMA Unmoved ==
  ASSUME UNCHANGED <<head, next, value, live>>
  PROVE  /\ Chain' = Chain /\ Items' = Items /\ Length' = Length
         /\ \A n : PlaceOf(n)' = PlaceOf(n)
<1>1. After' = After
  BY DEF After
<1>2. NodeAt' = NodeAt
  BY <1>1 DEF NodeAt
<1>3. Length' = Length
  BY <1>2 DEF Length
<1>4. Chain' = Chain /\ Items' = Items
  BY <1>2, <1>3 DEF Chain, Items
<1>5. \A n : PlaceOf(n)' = PlaceOf(n)
  BY <1>4 DEF PlaceOf, SelectInSeq
<1> QED
  BY <1>3, <1>4, <1>5

LEMMA Keeps ==
  ASSUME ListInv, TypeOK',
         UNCHANGED <<state, len, head, tail, next, pre, value, live>>
  PROVE  ListInv' /\ Items' = Items
<1>1. Chain' = Chain /\ Items' = Items /\ Length' = Length
  BY Unmoved
<1> QED
  BY <1>1 DEF ListInv, Blank, Counted, WellLinked, Linked

LEMMA Places ==
  TypeOK => \A s \in Seq(Nodes) :
              Linked(s) => \A p \in 1 .. Len(s) : PlaceOf(s[p]) = p
<1> SUFFICES ASSUME TypeOK, NEW s \in Seq(Nodes), Linked(s),
                    NEW p \in 1 .. Len(s)
             PROVE  PlaceOf(s[p]) = p
  OBVIOUS
<1> DEFINE I == {i \in 1 .. Len(s) : s[i] = s[p]}
<1>1. Chain = s
  BY Chains DEF ChainIs
<1>2. /\ Len(s) \in Nat /\ s[p] # Null
      /\ \A i, j \in 1 .. Len(s) : s[i] = s[j] => i = j
  BY Members, ListAssumption DEF Linked
<1>3. PlaceOf(s[p]) = IF I # {} THEN Min(I) ELSE 0
  BY <1>1, <1>2 DEF PlaceOf, SelectInSeq
<1>4. I = {p}
  BY <1>2
<1>5. Min({p}) = p
  BY <1>2 DEF Min
<1> QED
  BY <1>3, <1>4, <1>5

LEMMA PlacesNext ==
  (TypeOK => \A s \in Seq(Nodes) :
               Linked(s) => \A p \in 1 .. Len(s) : PlaceOf(s[p]) = p)'
BY Places, PTL

LEMMA Returned ==
  ASSUME NEW op \in Ops, NEW v \in Int, NEW n \in Nodes \cup {Null}, NEW at,
         Returns(op, v, n), PlaceOf(n)' = at
  PROVE  ValueList!Returns(op, v, at)
<1>1. call' = [op |-> op, val |-> v, node |-> n]
  BY DEF Returns
<1>2. call' # NoCall
  BY <1>1, ListAssumption DEF Calls, Ops
<1>3. call'.node = n /\ call'.op = op /\ call'.val = v
  BY <1>1
<1>4. PlaceOf(call.node)' = at
  BY <1>3 DEF PlaceOf
<1> QED
  BY <1>2, <1>3, <1>4 DEF Returns, ValueList!Returns

LEMMA ItemsAre ==
  ASSUME TypeOK, NEW s \in Seq(Nodes), Linked(s)
  PROVE  /\ Items \in Seq(Int) /\ Len(Items) = Len(s)
         /\ \A i \in 1 .. Len(s) : Items[i] = value[s[i]]
<1>1. /\ Length = Len(s) /\ Len(s) \in Nat
      /\ \A i \in 1 .. Len(s) : NodeAt[i] = s[i] /\ s[i] \in Nodes
  BY Chains, Members DEF ChainIs
<1>2. /\ Items \in [1 .. Len(s) -> Int]
      /\ \A i \in 1 .. Len(s) : Items[i] = value[s[i]]
  BY <1>1 DEF Items, TypeOK
<1> QED
  BY <1>1, <1>2, IsSeq

(* What the iterator finds among some nodes is what ListValues finds among *)
(* their values.                                                           *)
LEMMA FirstIsBehind ==
  ASSUME TypeOK, state = "used", NEW s \in Seq(Nodes), Linked(s)
  PROVE  \A some, vals :
           (\A i \in 2 .. Len(s) : s[i] \in some <=> value[s[i]] \in vals)
           => \/ FirstIterated(some) = Null /\ ValueList!Behind(vals) = 0
              \/ \E p \in 2 .. Len(s) : /\ FirstIterated(some) = s[p]
                                        /\ ValueList!Behind(vals) = p
<1> SUFFICES ASSUME NEW some, NEW vals,
                    \A i \in 2 .. Len(s) : s[i] \in some <=> value[s[i]] \in vals
             PROVE  \/ /\ FirstIterated(some) = Null
                       /\ ValueList!Behind(vals) = 0
                    \/ \E p \in 2 .. Len(s) : /\ FirstIterated(some) = s[p]
                                              /\ ValueList!Behind(vals) = p
  OBVIOUS
<1> DEFINE found == {i \in 2 .. Len(s) : s[i] \in some}
<1>1. IF found = {} THEN FirstIterated(some) = Null
      ELSE \E p \in found : /\ \A i \in found : p <= i
                            /\ FirstIterated(some) = s[p]
  BY FirstIs, Chains DEF ChainIs
<1>2. /\ Len(s) \in Nat /\ Len(Items) = Len(s)
      /\ \A i \in 2 .. Len(s) : Items[i] = value[s[i]]
  BY ItemsAre, LenProperties
<1>3. found = {i \in 2 .. Len(Items) : Items[i] \in vals}
  BY <1>2
<1>4. ValueList!Behind(vals) = IF found = {} THEN 0 ELSE Min(found)
  <2> HIDE DEF found
  <2>1. ValueList!Behind(vals) =
          LET f == {i \in 2 .. Len(Items) : Items[i] \in vals}
          IN IF f = {} THEN 0 ELSE Min(f)
    BY DEF ValueList!Behind, ValueList!Min, Min
  <2> QED
    BY <1>3, <2>1
<1>5. CASE found = {}
  BY <1>1, <1>4, <1>5
<1>6. CASE found # {}
  <2>1. PICK p \in found : /\ \A i \in found : p <= i
                           /\ FirstIterated(some) = s[p]
    BY <1>1, <1>6
  <2>2. found \subseteq Int
    BY <1>2
  <2> HIDE DEF found
  <2>3. Min(found) = p
    BY <2>1, <2>2 DEF Min
  <2>4. p \in 2 .. Len(s)
    BY <2>1 DEF found
  <2> QED
    BY <1>4, <1>6, <2>1, <2>3, <2>4
<1> QED
  BY <1>5, <1>6

(* A pointer to freed memory is found in an emptied list only.             *)
LEMMA Breaks ==
  ASSUME ListInv, Dangles(head) \/ Dangles(tail), Break
  PROVE  ListInv' /\ ValueList!Break
<1>1. state = "used"
  BY DEF Break
<1>2. PICK s \in Seq(Nodes) : s = Chain /\ Linked(s)
  BY <1>1, IsUsed
<1>3. TypeOK
  BY DEF ListInv
<1>4. Len(s) = 0
  <2>1. Len(s) \in Nat /\ \A i \in 1 .. Len(s) : s[i] \in live
    BY <1>2, <1>3, Members
  <2>2. Len(s) # 0 => head = s[1] /\ tail = s[Len(s)]
    BY <1>2, <2>1 DEF Linked
  <2> QED
    BY <2>1, <2>2 DEF Dangles
<1>5. Items = << >>
  BY <1>2, <1>3, <1>4, ItemsAre, EmptySeq
<1>6. len > 0
  <2>1. Length = 0 /\ Length <= len /\ len \in Int
    BY <1>1, <1>2, <1>3, <1>4, Chains DEF ChainIs, ListInv, Counted, TypeOK
  <2>2. len # 0
    BY <1>1 DEF Dangles, ListInv, Counted
  <2> QED
    BY <2>1, <2>2
<1>7. ListInv'
  BY <1>3 DEF Break, ListInv, TypeOK, Blank, Counted, WellLinked
<1>8. /\ Items' = Items /\ PlaceOf(call.node)' = PlaceOf(call.node)
      /\ call' = call
  BY Unmoved DEF Break
<1> QED
  BY <1>1, <1>5, <1>6, <1>7, <1>8 DEF Break, ValueList!Break

-----------------------------------------------------------------------------
(* The calls, one by one: each keeps the invariant and is a call of        *)
(* ListValues.                                                             *)
LEMMA AllocType ==
  ASSUME TypeOK, NEW n \in Nodes, NEW v \in Values, Alloc(n, v),
         NEW op \in Ops, NEW node \in Nodes \cup {Null},
         Returns(op, v, node),
         {head', tail'} \subseteq Nodes \cup {Null},
         next' \in [Nodes -> Nodes \cup {Null}],
         pre' \in [Nodes -> Nodes \cup {Null}]
  PROVE  TypeOK'
<1>1. v \in Int
  BY ListAssumption
<1>2. value' \in [Nodes -> Int] /\ \A m \in live' : value'[m] \in Values
  BY <1>1 DEF TypeOK, Alloc
<1>3. call' \in Calls
  BY <1>1 DEF Returns, Calls, Ops
<1> QED
  BY <1>2, <1>3 DEF TypeOK, Alloc, Returns

LEMMA Adds ==
  ASSUME ListInv, TypeOK', state = "used", state' = "used",
         NEW s \in Seq(Nodes), Linked(s),
         NEW n \in Nodes, NEW v \in Int, Alloc(n, v),
         NEW p \in 1 .. Len(s) + 1,
         \A t : t = InsertAt(s, p, n) => t \in Seq(Nodes) /\ Linked(t)',
         Blanked'
  PROVE  /\ ListInv' /\ ValueList!Insert(p, v)
<1>1. ListInv' /\ Items' = InsertAt(Items, p, v)
  BY Inserts, Zenon
<1>2. len' = len + 1
  BY DEF Alloc
<1> QED
  BY <1>1, <1>2 DEF ValueList!Insert, ValueList!InsertAt, InsertAt

LEMMA AddHeadStep ==
  ASSUME ListInv, NEW v \in Values, AddHead(v)
  PROVE  ListInv' /\ (ValueList!AddHead(v) \/ ValueList!Break)
<1>1. CASE Dangles(head)
  BY <1>1, Breaks DEF AddHead
<1>2. CASE ~Dangles(head)
  <2>1. PICK n \in Nodes : Alloc(n, v) /\ LinkFirst(n)
    BY <1>2 DEF AddHead
  <2>2. Returns("add_head", v, Null)
    BY <1>2 DEF AddHead
  <2>3. state = "used" /\ state' = "used" /\ TypeOK /\ v \in Int /\ Blanked
    BY <2>2, ListAssumption DEF Returns, ListInv, Blank, Blanked
  <2>4. PICK s \in Seq(Nodes) : Linked(s)
    BY <2>3, IsUsed
  <2>5. TypeOK'
    <3>1. /\ {head', tail'} \subseteq Nodes \cup {Null}
          /\ next' \in [Nodes -> Nodes \cup {Null}]
          /\ pre' \in [Nodes -> Nodes \cup {Null}]
      BY <2>1, <2>3 DEF LinkFirst, Set, TypeOK
    <3> QED
      BY <3>1, <2>1, <2>2, <2>3, AllocType DEF Ops
  <2>6. /\ \A t : t = InsertAt(s, 1, n) => t \in Seq(Nodes) /\ Linked(t)'
        /\ Blanked'
    BY <1>2, <2>1, <2>3, <2>4, LinksFirst
  <2>7. ListInv' /\ ValueList!Insert(1, v)
    <3>1. 1 \in 1 .. Len(s) + 1
      BY LenProperties
    <3> QED
      BY <3>1, <2>1, <2>3, <2>4, <2>5, <2>6, Adds
  <2>8. ValueList!Returns("add_head", v, 0)
    <3>1. PlaceOf(Null)' = 0
      BY DEF PlaceOf
    <3> QED
      BY <2>2, <2>3, <3>1, Returned DEF Ops
  <2> QED
    BY <2>7, <2>8 DEF ValueList!AddHead
<1> QED
  BY <1>1, <1>2

LEMMA AddTailStep ==
  ASSUME ListInv, NEW v \in Values, AddTail(v)
  PROVE  ListInv' /\ (ValueList!AddTail(v) \/ ValueList!Break)
<1>1. CASE Dangles(tail)
  BY <1>1, Breaks DEF AddTail
<1>2. CASE ~Dangles(tail)
  <2>1. PICK n \in Nodes : Alloc(n, v) /\ LinkLast(n)
    BY <1>2 DEF AddTail
  <2>2. Returns("add_tail", v, Null)
    BY <1>2 DEF AddTail
  <2>3. state = "used" /\ state' = "used" /\ TypeOK /\ v \in Int /\ Blanked
    BY <2>2, ListAssumption DEF Returns, ListInv, Blank, Blanked
  <2>4. PICK s \in Seq(Nodes) : Linked(s)
    BY <2>3, IsUsed
  <2>5. TypeOK'
    <3>1. /\ {head', tail'} \subseteq Nodes \cup {Null}
          /\ next' \in [Nodes -> Nodes \cup {Null}]
          /\ pre' \in [Nodes -> Nodes \cup {Null}]
      BY <2>1, <2>3 DEF LinkLast, Set, TypeOK
    <3> QED
      BY <3>1, <2>1, <2>2, <2>3, AllocType DEF Ops
  <2>6. /\ \A t : t = InsertAt(s, Len(s) + 1, n)
                    => t \in Seq(Nodes) /\ Linked(t)'
        /\ Blanked'
    BY <1>2, <2>1, <2>3, <2>4, LinksLast
  <2>7. ListInv' /\ ValueList!Insert(Len(s) + 1, v)
    <3>1. Len(s) + 1 \in 1 .. Len(s) + 1
      BY LenProperties
    <3> QED
      BY <3>1, <2>1, <2>3, <2>4, <2>5, <2>6, Adds
  <2>8. ValueList!Returns("add_tail", v, 0)
    <3>1. PlaceOf(Null)' = 0
      BY DEF PlaceOf
    <3> QED
      BY <2>2, <2>3, <3>1, Returned DEF Ops
  <2>9. Len(Items) = Len(s)
    BY <2>3, <2>4, ItemsAre
  <2> QED
    BY <2>3, <2>7, <2>8, <2>9 DEF ValueList!AddTail
<1> QED
  BY <1>1, <1>2

LEMMA AddBeforeStep ==
  ASSUME ListInv, NEW v \in Values, NEW node \in live, AddBefore(node, v)
  PROVE  /\ ListInv'
         /\ \E i \in 1 .. Len(Items) : ValueList!AddBefore(i, v)
<1>1. PICK n \in Nodes : Alloc(n, v) /\ LinkBefore(n, node)
  BY DEF AddBefore
<1>2. Returns("add_before", v, node)
  BY DEF AddBefore
<1>3. state = "used" /\ state' = "used" /\ TypeOK /\ v \in Int /\ Blanked
  BY <1>2, ListAssumption DEF Returns, ListInv, Blank, Blanked
<1>4. PICK s \in Seq(Nodes) : Linked(s)
  BY <1>3, IsUsed
<1>5. /\ Len(s) \in Nat /\ Len(Items) = Len(s)
      /\ \E p \in 1 .. Len(s) : s[p] = node
      /\ \A i \in 1 .. Len(s) : s[i] \in Nodes
  BY <1>3, <1>4, Members, ItemsAre
<1>6. PICK p \in 1 .. Len(s) : s[p] = node
  BY <1>5
<1>7. PICK m \in Nodes \cup {Null} : m = node
  BY <1>5, <1>6
<1>8. TypeOK'
  <2>1. /\ {head', tail'} \subseteq Nodes \cup {Null}
        /\ next' \in [Nodes -> Nodes \cup {Null}]
        /\ pre' \in [Nodes -> Nodes \cup {Null}]
    BY <1>1, <1>3, <1>5, <1>6 DEF LinkBefore, Set, TypeOK
  <2> QED
    BY <2>1, <1>1, <1>2, <1>3, <1>7, AllocType DEF Ops
<1>9. /\ \A t : t = InsertAt(s, p, n) => t \in Seq(Nodes) /\ Linked(t)'
      /\ Blanked'
  BY <1>1, <1>3, <1>4, <1>6, LinksBefore
<1>10. p \in 1 .. Len(s) + 1
  BY <1>5
<1>11. ListInv' /\ ValueList!Insert(p, v)
  BY <1>1, <1>3, <1>4, <1>8, <1>9, <1>10, Adds
<1>12. PlaceOf(m)' = p + 1
  <2>1. PICK t \in Seq(Nodes) : t = InsertAt(s, p, n)
    BY <1>9
  <2>2. Linked(t)' /\ Len(t) = Len(s) + 1 /\ t[p + 1] = s[p]
    <3>1. /\ Len(t) = Len(s) + 1
          /\ \A i \in 1 .. Len(s) + 1 : t[i] = InsertedAt(s, p, n, i)
      BY <2>1, <1>10, Inserted
    <3>2. p + 1 \in 1 .. Len(s) + 1 /\ InsertedAt(s, p, n, p + 1) = s[p]
      BY <1>5 DEF InsertedAt
    <3> QED
      BY <3>1, <3>2, <2>1, <1>9
  <2>3. p + 1 \in 1 .. Len(t)
    BY <2>2, <1>5
  <2> QED
    BY <2>2, <2>3, <1>6, <1>7, <1>8, PlacesNext
<1>13. ValueList!Returns("add_before", v, p + 1)
  BY <1>2, <1>3, <1>7, <1>12, Returned DEF Ops
<1>14. ValueList!AddBefore(p, v)
  BY <1>11, <1>13 DEF ValueList!AddBefore
<1> QED
  BY <1>5, <1>11, <1>14

LEMMA AddAfterStep ==
  ASSUME ListInv, NEW v \in Values, NEW node \in live, AddAfter(node, v)
  PROVE  /\ ListInv'
         /\ \E i \in 1 .. Len(Items) : ValueList!AddAfter(i, v)
<1>1. PICK n \in Nodes : Alloc(n, v) /\ LinkAfter(n, node)
  BY DEF AddAfter
<1>2. Returns("add_after", v, node)
  BY DEF AddAfter
<1>3. state = "used" /\ state' = "used" /\ TypeOK /\ v \in Int /\ Blanked
  BY <1>2, ListAssumption DEF Returns, ListInv, Blank, Blanked
<1>4. PICK s \in Seq(Nodes) : Linked(s)
  BY <1>3, IsUsed
<1>5. /\ Len(s) \in Nat /\ Len(Items) = Len(s)
      /\ \E p \in 1 .. Len(s) : s[p] = node
      /\ \A i \in 1 .. Len(s) : s[i] \in Nodes
  BY <1>3, <1>4, Members, ItemsAre
<1>6. PICK p \in 1 .. Len(s) : s[p] = node
  BY <1>5
<1>7. PICK m \in Nodes \cup {Null} : m = node
  BY <1>5, <1>6
<1>8. TypeOK'
  <2>1. /\ {head', tail'} \subseteq Nodes \cup {Null}
        /\ next' \in [Nodes -> Nodes \cup {Null}]
        /\ pre' \in [Nodes -> Nodes \cup {Null}]
    BY <1>1, <1>3, <1>5, <1>6 DEF LinkAfter, Set, TypeOK
  <2> QED
    BY <2>1, <1>1, <1>2, <1>3, <1>7, AllocType DEF Ops
<1>9. /\ \A t : t = InsertAt(s, p + 1, n) => t \in Seq(Nodes) /\ Linked(t)'
      /\ Blanked'
  BY <1>1, <1>3, <1>4, <1>6, LinksAfter
<1>10. PICK q \in 1 .. Len(s) + 1 : q = p + 1
  BY <1>5
<1>11. ListInv' /\ ValueList!Insert(q, v)
  BY <1>1, <1>3, <1>4, <1>8, <1>9, <1>10, Adds
<1>12. PlaceOf(m)' = p
  <2>1. PICK t \in Seq(Nodes) : t = InsertAt(s, q, n)
    BY <1>9, <1>10
  <2>2. Linked(t)' /\ Len(t) = Len(s) + 1 /\ t[p] = s[p]
    <3>1. /\ Len(t) = Len(s) + 1
          /\ \A i \in 1 .. Len(s) + 1 : t[i] = InsertedAt(s, q, n, i)
      BY <2>1, Inserted
    <3>2. p \in 1 .. Len(s) + 1 /\ InsertedAt(s, q, n, p) = s[p]
      BY <1>5, <1>10 DEF InsertedAt
    <3> QED
      BY <3>1, <3>2, <2>1, <1>9, <1>10
  <2>3. p \in 1 .. Len(t)
    BY <2>2, <1>5
  <2> QED
    BY <2>2, <2>3, <1>6, <1>7, <1>8, PlacesNext
<1>13. ValueList!Returns("add_after", v, p)
  BY <1>2, <1>3, <1>7, <1>12, Returned DEF Ops
<1>14. ValueList!AddAfter(p, v)
  BY <1>10, <1>11, <1>13 DEF ValueList!AddAfter
<1> QED
  BY <1>5, <1>11, <1>14

LEMMA AddStep ==
  ASSUME ListInv, NEW v \in Values, Add(v)
  PROVE  ListInv' /\ (ValueList!Add(v) \/ ValueList!Break)
<1> DEFINE some == {n \in live : value[n] > v}
           vals == {x \in Values : x > v}
           greater == IF cmp THEN FirstIterated(some) ELSE Null
           behind == ValueList!Behind(vals)
           breaks == \/ cmp /\ Dangles(head)
                     \/ greater = Null /\ Dangles(tail)
<1>1. \/ breaks /\ Break
      \/ /\ ~breaks
         /\ \E n \in Nodes :
              /\ Alloc(n, v)
              /\ IF greater = Null THEN LinkLast(n) ELSE LinkBefore(n, greater)
         /\ Returns("add", v, Null)
  BY DEF Add
<1>2. CASE breaks /\ Break
  BY <1>2, Breaks
<1>3. CASE ~breaks /\ Returns("add", v, Null)
  <2>1. PICK n \in Nodes :
          /\ Alloc(n, v)
          /\ IF greater = Null THEN LinkLast(n) ELSE LinkBefore(n, greater)
    BY <1>1, <1>3 DEF Break, Returns
  <2>2. state = "used" /\ state' = "used" /\ TypeOK /\ v \in Int /\ Blanked
    BY <1>3, ListAssumption DEF Returns, ListInv, Blank, Blanked
  <2>3. PICK s \in Seq(Nodes) : Linked(s)
    BY <2>2, IsUsed
  <2>4. /\ Len(s) \in Nat /\ Len(Items) = Len(s)
        /\ \A i \in 1 .. Len(s) : s[i] \in Nodes /\ s[i] \in live /\ s[i] # Null
    BY <2>2, <2>3, Members, ItemsAre, ListAssumption
  <2>5. \/ FirstIterated(some) = Null /\ behind = 0
        \/ \E p \in 2 .. Len(s) : FirstIterated(some) = s[p] /\ behind = p
    <3>1. \A i \in 2 .. Len(s) : s[i] \in some <=> value[s[i]] \in vals
      BY <2>2, <2>4 DEF TypeOK
    <3> HIDE DEF some, vals
    <3> QED
      BY <3>1, <2>2, <2>3, FirstIsBehind DEF behind
  <2> HIDE DEF some, vals, behind
  <2>6. ValueList!Returns("add", v, 0)
    <3>1. PlaceOf(Null)' = 0
      BY DEF PlaceOf
    <3> QED
      BY <1>3, <2>2, <3>1, Returned DEF Ops
  <2>7. CASE greater = Null
    <3>1. LinkLast(n) /\ ~Dangles(tail) /\ Alloc(n, v)
      BY <2>1, <2>7, <1>3
    <3>2. TypeOK'
      <4>1. /\ {head', tail'} \subseteq Nodes \cup {Null}
            /\ next' \in [Nodes -> Nodes \cup {Null}]
            /\ pre' \in [Nodes -> Nodes \cup {Null}]
        BY <3>1, <2>2 DEF LinkLast, Set, TypeOK
      <4> QED
        BY <4>1, <3>1, <1>3, <2>2, AllocType DEF Ops
    <3>3. /\ \A t : t = InsertAt(s, Len(s) + 1, n)
                      => t \in Seq(Nodes) /\ Linked(t)'
          /\ Blanked'
      BY <3>1, <2>2, <2>3, LinksLast
    <3>4. ListInv' /\ ValueList!Insert(Len(s) + 1, v)
      <4>1. Len(s) + 1 \in 1 .. Len(s) + 1
        BY <2>4
      <4> QED
        BY <4>1, <3>1, <3>2, <3>3, <2>2, <2>3, Adds
    <3>5. ~(cmp /\ behind # 0)
      BY <2>4, <2>5, <2>7
    <3> QED
      BY <3>4, <3>5, <2>2, <2>4, <2>6 DEF ValueList!Add, behind, vals
  <2>8. CASE greater # Null
    <3>1. PICK p \in 2 .. Len(s) : greater = s[p] /\ behind = p
      BY <2>5, <2>8
    <3>2. /\ cmp /\ behind # 0 /\ p \in 1 .. Len(s) /\ p \in 1 .. Len(s) + 1
          /\ s[p] \in Nodes
      BY <3>1, <2>4, <2>8
    <3>3. LinkBefore(n, s[p]) /\ Alloc(n, v)
      BY <3>1, <2>1, <2>8
    <3>4. TypeOK'
      <4>1. /\ {head', tail'} \subseteq Nodes \cup {Null}
            /\ next' \in [Nodes -> Nodes \cup {Null}]
            /\ pre' \in [Nodes -> Nodes \cup {Null}]
        BY <3>2, <3>3, <2>2 DEF LinkBefore, Set, TypeOK
      <4> QED
        BY <4>1, <3>3, <1>3, <2>2, AllocType DEF Ops
    <3>5. /\ \A t : t = InsertAt(s, p, n) => t \in Seq(Nodes) /\ Linked(t)'
          /\ Blanked'
      BY <3>2, <3>3, <2>2, <2>3, LinksBefore
    <3>6. ListInv' /\ ValueList!Insert(p, v)
      BY <3>2, <3>3, <3>4, <3>5, <2>2, <2>3, Adds
    <3> QED
      BY <3>1, <3>2, <3>6, <2>6 DEF ValueList!Add, behind, vals
  <2> QED
    BY <2>7, <2>8
<1> QED
  BY <1>1, <1>2, <1>3

(* What list_find finds is where ListValues finds the value.               *)
LEMMA FoundIs ==
  ASSUME TypeOK, state = "used", NEW s \in Seq(Nodes), Linked(s), NEW v
  PROVE  \/ Found(v) = Null /\ ValueList!Behind({v}) = 0
         \/ \E p \in 2 .. Len(s) : /\ Found(v) = s[p]
                                   /\ ValueList!Behind({v}) = p
<1> DEFINE some == {n \in live : value[n] = v}
<1>1. \A i \in 2 .. Len(s) : s[i] \in live
  BY Members
<1>2. \A i \in 2 .. Len(s) : s[i] \in some <=> value[s[i]] \in {v}
  BY <1>1
<1> HIDE DEF some
<1>3. \/ FirstIterated(some) = Null /\ ValueList!Behind({v}) = 0
      \/ \E p \in 2 .. Len(s) : /\ FirstIterated(some) = s[p]
                                /\ ValueList!Behind({v}) = p
  BY <1>2, FirstIsBehind
<1> QED
  BY <1>3 DEF Found, some

LEMMA FindStep ==
  ASSUME ListInv, NEW v \in Values, Find(v)
  PROVE  ListInv' /\ (ValueList!Find(v) \/ ValueList!Break)
<1>1. CASE Dangles(head)
  BY <1>1, Breaks DEF Find
<1>2. CASE ~Dangles(head)
  <2>1. /\ Returns("find", v, Found(v))
        /\ UNCHANGED <<len, head, tail, next, pre, value, live>>
    BY <1>2 DEF Find, links
  <2>2. state = "used" /\ TypeOK /\ v \in Int
    BY <2>1, ListAssumption DEF Returns, ListInv
  <2>3. PICK s \in Seq(Nodes) : Linked(s)
    BY <2>2, IsUsed
  <2>4. \/ Found(v) = Null /\ ValueList!Behind({v}) = 0
        \/ \E p \in 2 .. Len(s) : /\ Found(v) = s[p]
                                  /\ ValueList!Behind({v}) = p
    BY <2>2, <2>3, FoundIs
  <2>5. Len(s) \in Nat /\ \A i \in 1 .. Len(s) : s[i] \in Nodes
    BY <2>2, <2>3, Members
  <2>6. PlaceOf(Found(v)) = ValueList!Behind({v}) /\ Found(v) \in Nodes \cup {Null}
    <3>1. CASE Found(v) = Null /\ ValueList!Behind({v}) = 0
      BY <3>1 DEF PlaceOf
    <3>2. CASE \E p \in 2 .. Len(s) : /\ Found(v) = s[p]
                                      /\ ValueList!Behind({v}) = p
      BY <3>2, <2>2, <2>3, <2>5, Places
    <3> QED
      BY <3>1, <3>2, <2>4
  <2>7. PICK n \in Nodes \cup {Null} : Found(v) = n
    BY <2>6
  <2>8. Items' = Items /\ PlaceOf(n)' = PlaceOf(n) /\ Chain' = Chain
    BY <2>1, Unmoved
  <2>11. ValueList!Returns("find", v, ValueList!Behind({v}))
    BY <2>1, <2>2, <2>6, <2>7, <2>8, Returned DEF Ops
  <2>9. TypeOK'
    BY <2>1, <2>2, <2>6, <2>7 DEF TypeOK, Returns, Calls, Ops
  <2>10. ListInv'
    BY <2>1, <2>9, Keeps DEF Returns
  <2> QED
    BY <2>1, <2>2, <2>8, <2>11, <2>10 DEF ValueList!Find, Returns
<1> QED
  BY <1>1, <1>2

LEMMA FreeType ==
  ASSUME TypeOK, NEW n \in live, NEW nextNow, NEW preNow,
         Free(n, nextNow, preNow),
         nextNow \in [Nodes -> Nodes \cup {Null}],
         preNow \in [Nodes -> Nodes \cup {Null}],
         NEW op \in Ops, NEW v \in Int, Returns(op, v, Null),
         {head', tail'} \subseteq Nodes \cup {Null},
         len' \in Int
  PROVE  TypeOK'
<1>1. call' \in Calls
  BY DEF Returns, Calls
<1>2. /\ next' \in [Nodes -> Nodes \cup {Null}]
      /\ pre' \in [Nodes -> Nodes \cup {Null}]
  BY DEF Free
<1>3. value' \in [Nodes -> Int] /\ \A m \in live' : value'[m] \in Values
  BY DEF TypeOK, Free
<1> QED
  BY <1>1, <1>2, <1>3 DEF TypeOK, Free, Returns

LEMMA Shrinks ==
  ASSUME ListInv, TypeOK', state = "used", state' = "used",
         NEW s \in Seq(Nodes), Linked(s), NEW p \in 1 .. Len(s),
         value' = [value EXCEPT ![s[p]] = 0],
         len' = len \/ (len' = len - 1 /\ Len(s) > 1),
         \A t : t = RemoveAt(s, p) => t \in Seq(Nodes) /\ Linked(t)',
         Blanked'
  PROVE  ListInv' /\ Items' = RemoveAt(Items, p)
BY Removes, Zenon

LEMMA DelStep ==
  ASSUME ListInv, NEW v \in Values, Del(v)
  PROVE  ListInv' /\ (ValueList!Del(v) \/ ValueList!Break)
<1> DEFINE n == Found(v)
<1>1. CASE Dangles(head)
  BY <1>1, Breaks DEF Del
<1>2. CASE ~Dangles(head)
  <2>1. Returns("del", v, Null)
    BY <1>2 DEF Del
  <2>2. state = "used" /\ state' = "used" /\ TypeOK /\ v \in Int /\ Blanked
    BY <2>1, ListAssumption DEF Returns, ListInv, Blank, Blanked
  <2>3. PICK s \in Seq(Nodes) : Linked(s)
    BY <2>2, IsUsed
  <2>4. \/ n = Null /\ ValueList!Behind({v}) = 0
        \/ \E p \in 2 .. Len(s) : n = s[p] /\ ValueList!Behind({v}) = p
    BY <2>2, <2>3, FoundIs
  <2>5. /\ Len(s) \in Nat
        /\ \A i \in 1 .. Len(s) : s[i] \in Nodes /\ s[i] \in live /\ s[i] # Null
    BY <2>2, <2>3, Members, ListAssumption
  <2>6. ValueList!Returns("del", v, 0)
    <3>1. PlaceOf(Null)' = 0
      BY DEF PlaceOf
    <3> QED
      BY <2>1, <2>2, <3>1, Returned DEF Ops
  <2>7. CASE n = Null
    <3>1. UNCHANGED <<len, head, tail, next, pre, value, live>>
      BY <1>2, <2>7 DEF Del, links
    <3>2. TypeOK'
      BY <3>1, <2>1, <2>2 DEF TypeOK, Returns, Calls, Ops
    <3>3. ListInv' /\ Items' = Items
      BY <3>1, <3>2, <2>2, Keeps
    <3>4. ValueList!Behind({v}) = 0
      BY <2>4, <2>5, <2>7
    <3> QED
      BY <3>1, <3>3, <3>4, <2>2, <2>6 DEF ValueList!Del
  <2>8. CASE n # Null
    <3>1. PICK p \in 2 .. Len(s) : n = s[p] /\ ValueList!Behind({v}) = p
      BY <2>4, <2>8
    <3>2. p \in 1 .. Len(s) /\ Len(s) > 1 /\ p # 0 /\ s[p] \in live /\ s[p] \in Nodes
      BY <3>1, <2>5
    <3>3. /\ Free(s[p], Set(next, pre[s[p]], next[s[p]]),
                  Set(pre, next[s[p]], pre[s[p]]))
          /\ head' = IF pre[s[p]] = Null THEN next[s[p]] ELSE head
          /\ tail' = IF next[s[p]] = Null THEN pre[s[p]] ELSE tail
          /\ len' = len - 1
      BY <1>2, <2>8, <3>1 DEF Del
    <3>4. /\ \A t : t = RemoveAt(s, p) => t \in Seq(Nodes) /\ Linked(t)'
          /\ Blanked'
      BY <3>2, <3>3, <2>2, <2>3, Unlinks
    <3>5. TypeOK'
      <4>1. /\ {head', tail'} \subseteq Nodes \cup {Null} /\ len' \in Int
            /\ Set(next, pre[s[p]], next[s[p]]) \in [Nodes -> Nodes \cup {Null}]
            /\ Set(pre, next[s[p]], pre[s[p]]) \in [Nodes -> Nodes \cup {Null}]
        BY <3>2, <3>3, <2>2 DEF TypeOK, Set
      <4> QED
        BY <4>1, <3>2, <3>3, <2>1, <2>2, FreeType DEF Ops
    <3>6. value' = [value EXCEPT ![s[p]] = 0]
      BY <3>3 DEF Free
    <3>7. ListInv' /\ Items' = RemoveAt(Items, p)
      BY <3>2, <3>3, <3>4, <3>5, <3>6, <2>2, <2>3, Shrinks
    <3> QED
      BY <3>1, <3>2, <3>3, <3>7, <2>2, <2>6
        DEF ValueList!Del, ValueList!RemoveAt, RemoveAt
  <2> QED
    BY <2>7, <2>8
<1> QED
  BY <1>1, <1>2

(* del_head and del_tail take Tail and Front of the values.                *)
LEMMA RemovedEnds ==
  ASSUME NEW S, NEW s \in Seq(S), Len(s) > 0
  PROVE  RemoveAt(s, 1) = Tail(s) /\ RemoveAt(s, Len(s)) = Front(s)
<1>1. Len(s) \in Nat /\ s # << >>
  BY LenProperties, EmptySeq
<1>2. RemoveAt(s, 1) = Tail(s)
  <2> DEFINE p == 1
             r == RemoveAt(s, p)
  <2>1. p \in 1 .. Len(s) /\ p = 1
    BY <1>1
  <2> HIDE DEF p
  <2>2. /\ r \in Seq(S) /\ Len(r) = Len(s) - 1
        /\ \A i \in 1 .. Len(s) - 1 : r[i] = RemovedAt(s, p, i)
    BY <2>1, Removed
  <2>3. /\ Tail(s) \in Seq(S) /\ Len(Tail(s)) = Len(s) - 1
        /\ \A i \in 1 .. Len(Tail(s)) : Tail(s)[i] = s[i + 1]
    BY <1>1, HeadTailProperties
  <2> HIDE DEF r
  <2>4. \A i \in 1 .. Len(r) : r[i] = Tail(s)[i]
    BY <1>1, <2>1, <2>2, <2>3 DEF RemovedAt
  <2>5. r = Tail(s)
    BY <2>2, <2>3, <2>4, SeqEqual
  <2> QED
    BY <2>5 DEF r, p
<1>3. RemoveAt(s, Len(s)) = Front(s)
  <2> DEFINE p == Len(s)
             r == RemoveAt(s, p)
             f == SubSeq(s, 1, p - 1)
  <2>1. p \in 1 .. Len(s) /\ p = Len(s)
    BY <1>1
  <2> HIDE DEF p
  <2>2. /\ r \in Seq(S) /\ Len(r) = Len(s) - 1
        /\ \A i \in 1 .. Len(s) - 1 : r[i] = RemovedAt(s, p, i)
    BY <2>1, Removed
  <2>3. /\ f \in Seq(S) /\ Len(f) = p - 1
        /\ \A i \in 1 .. p - 1 : f[i] = s[i]
    <3>1. \A i \in 1 .. Len(s) : s[i] \in S
      BY ElementOfSeq
    <3>2. p \in 1 .. Len(s) + 1
      BY <1>1, <2>1
    <3> QED
      BY <1>1, <3>1, <3>2, SubSeqProperties, Z3
  <2> HIDE DEF r, f
  <2>4. Len(r) = Len(f) /\ \A i \in 1 .. Len(r) : r[i] = f[i]
    BY <1>1, <2>1, <2>2, <2>3 DEF RemovedAt
  <2>5. r = f
    BY <2>2, <2>3, <2>4, SeqEqual
  <2> QED
    BY <2>5 DEF r, p, f, Front
<1> QED
  BY <1>2, <1>3

LEMMA DelHeadStep ==
  ASSUME ListInv, DelHead
  PROVE  ListInv' /\ (ValueList!DelHead \/ ValueList!Break)
<1>1. CASE Dangles(head)
  BY <1>1, Breaks DEF DelHead
<1>2. CASE ~Dangles(head)
  <2>1. Returns("del_head", 0, Null) /\ UNCHANGED len
    BY <1>2 DEF DelHead
  <2>2. state = "used" /\ state' = "used" /\ TypeOK /\ Blanked
    BY <2>1 DEF Returns, ListInv, Blank, Blanked
  <2>3. PICK s \in Seq(Nodes) : Linked(s)
    BY <2>2, IsUsed
  <2>4. /\ Len(s) \in Nat
        /\ \A i \in 1 .. Len(s) : s[i] \in Nodes /\ s[i] \in live /\ s[i] # Null
    BY <2>2, <2>3, Members, ListAssumption
  <2>5. head = IF Len(s) = 0 THEN Null ELSE s[1]
    BY <1>2, <2>2, <2>3, Ends
  <2>6. ValueList!Returns("del_head", 0, 0)
    <3>1. PlaceOf(Null)' = 0
      BY DEF PlaceOf
    <3> QED
      BY <2>1, <2>2, <3>1, Returned DEF Ops
  <2>7. Items \in Seq(Int) /\ Len(Items) = Len(s)
    BY <2>2, <2>3, ItemsAre
  <2>8. CASE Len(s) = 0
    <3>1. UNCHANGED <<len, head, tail, next, pre, value, live>>
      BY <1>2, <2>1, <2>5, <2>8 DEF DelHead, links
    <3>2. TypeOK'
      BY <3>1, <2>1, <2>2 DEF TypeOK, Returns, Calls, Ops
    <3>3. ListInv' /\ Items' = Items
      BY <3>1, <3>2, <2>2, Keeps
    <3>4. Items = << >>
      BY <2>7, <2>8, EmptySeq
    <3> QED
      BY <2>1, <3>3, <3>4, <2>2, <2>6 DEF ValueList!DelHead
  <2>9. CASE Len(s) # 0
    <3>1. /\ Len(s) > 0 /\ head = s[1] /\ 1 \in 1 .. Len(s)
          /\ s[1] \in live /\ s[1] \in Nodes /\ s[1] # Null
      BY <2>4, <2>5, <2>9
    <3>2. /\ Free(head, next, Set(pre, next[head], Null))
          /\ head' = next[head] /\ tail' = tail
      BY <1>2, <3>1 DEF DelHead
    <3>3. /\ \A t : t = RemoveAt(s, 1) => t \in Seq(Nodes) /\ Linked(t)'
          /\ Blanked'
      BY <3>1, <3>2, <2>2, <2>3, UnlinksFirst
    <3>4. TypeOK'
      <4>1. /\ {head', tail'} \subseteq Nodes \cup {Null} /\ len' \in Int
            /\ next \in [Nodes -> Nodes \cup {Null}]
            /\ Set(pre, next[head], Null) \in [Nodes -> Nodes \cup {Null}]
        BY <3>1, <3>2, <2>1, <2>2 DEF TypeOK, Set
      <4> QED
        BY <4>1, <3>1, <3>2, <2>1, <2>2, FreeType DEF Ops
    <3>5. value' = [value EXCEPT ![s[1]] = 0]
      BY <3>1, <3>2 DEF Free
    <3>6. ListInv' /\ Items' = RemoveAt(Items, 1)
      BY <3>1, <3>3, <3>4, <3>5, <2>1, <2>2, <2>3, Shrinks
    <3>7. Items # << >> /\ RemoveAt(Items, 1) = Tail(Items)
      BY <3>1, <2>7, RemovedEnds, EmptySeq
    <3> QED
      BY <3>6, <3>7, <2>1, <2>2, <2>6 DEF ValueList!DelHead
  <2> QED
    BY <2>8, <2>9
<1> QED
  BY <1>1, <1>2

LEMMA DelTailStep ==
  ASSUME ListInv, DelTail
  PROVE  ListInv' /\ (ValueList!DelTail \/ ValueList!Break)
<1>1. CASE Dangles(tail)
  BY <1>1, Breaks DEF DelTail
<1>2. CASE ~Dangles(tail)
  <2>1. Returns("del_tail", 0, Null) /\ UNCHANGED len
    BY <1>2 DEF DelTail
  <2>2. state = "used" /\ state' = "used" /\ TypeOK /\ Blanked
    BY <2>1 DEF Returns, ListInv, Blank, Blanked
  <2>3. PICK s \in Seq(Nodes) : Linked(s)
    BY <2>2, IsUsed
  <2>4. /\ Len(s) \in Nat
        /\ \A i \in 1 .. Len(s) : s[i] \in Nodes /\ s[i] \in live /\ s[i] # Null
    BY <2>2, <2>3, Members, ListAssumption
  <2>5. tail = IF Len(s) = 0 THEN Null ELSE s[Len(s)]
    BY <1>2, <2>2, <2>3, Ends
  <2>6. ValueList!Returns("del_tail", 0, 0)
    <3>1. PlaceOf(Null)' = 0
      BY DEF PlaceOf
    <3> QED
      BY <2>1, <2>2, <3>1, Returned DEF Ops
  <2>7. Items \in Seq(Int) /\ Len(Items) = Len(s)
    BY <2>2, <2>3, ItemsAre
  <2>8. CASE Len(s) = 0
    <3>1. UNCHANGED <<len, head, tail, next, pre, value, live>>
      BY <1>2, <2>1, <2>5, <2>8 DEF DelTail, links
    <3>2. TypeOK'
      BY <3>1, <2>1, <2>2 DEF TypeOK, Returns, Calls, Ops
    <3>3. ListInv' /\ Items' = Items
      BY <3>1, <3>2, <2>2, Keeps
    <3>4. Items = << >>
      BY <2>7, <2>8, EmptySeq
    <3> QED
      BY <2>1, <3>3, <3>4, <2>2, <2>6 DEF ValueList!DelTail
  <2>9. CASE Len(s) # 0
    <3>1. /\ Len(s) > 0 /\ tail = s[Len(s)] /\ Len(s) \in 1 .. Len(s)
          /\ s[Len(s)] \in live /\ s[Len(s)] \in Nodes /\ s[Len(s)] # Null
      BY <2>4, <2>5, <2>9
    <3>2. /\ Free(tail, Set(next, pre[tail], Null), pre)
          /\ tail' = pre[tail] /\ head' = head
      BY <1>2, <3>1 DEF DelTail
    <3>3. /\ \A t : t = RemoveAt(s, Len(s)) => t \in Seq(Nodes) /\ Linked(t)'
          /\ Blanked'
      BY <3>1, <3>2, <2>2, <2>3, UnlinksLast
    <3>4. TypeOK'
      <4>1. /\ {head', tail'} \subseteq Nodes \cup {Null} /\ len' \in Int
            /\ pre \in [Nodes -> Nodes \cup {Null}]
            /\ Set(next, pre[tail], Null) \in [Nodes -> Nodes \cup {Null}]
        BY <3>1, <3>2, <2>1, <2>2 DEF TypeOK, Set
      <4> QED
        BY <4>1, <3>1, <3>2, <2>1, <2>2, FreeType DEF Ops
    <3>5. value' = [value EXCEPT ![s[Len(s)]] = 0]
      BY <3>1, <3>2 DEF Free
    <3>6. ListInv' /\ Items' = RemoveAt(Items, Len(s))
      BY <3>1, <3>3, <3>4, <3>5, <2>1, <2>2, <2>3, Shrinks
    <3>7. Items # << >> /\ RemoveAt(Items, Len(s)) = Front(Items)
      BY <3>1, <2>7, RemovedEnds, EmptySeq
    <3> QED
      BY <3>6, <3>7, <2>1, <2>2, <2>6
        DEF ValueList!DelTail, ValueList!Front, Front
  <2> QED
    BY <2>8, <2>9
<1> QED
  BY <1>1, <1>2

LEMMA SetCmpStep ==
  ASSUME ListInv, NEW b \in BOOLEAN, SetCmp(b)
  PROVE  ListInv' /\ ValueList!SetCmp(b)
<1>1. /\ UNCHANGED <<state, len, head, tail, next, pre, value, live, call>>
      /\ state = "used" /\ cmp' = b
  BY DEF SetCmp, links
<1>2. TypeOK'
  BY <1>1 DEF TypeOK, ListInv
<1>3. ListInv' /\ Items' = Items
  BY <1>1, <1>2, Keeps
<1>4. PlaceOf(call.node)' = PlaceOf(call.node)
  BY <1>1, Unmoved
<1> QED
  BY <1>1, <1>3, <1>4 DEF ValueList!SetCmp

LEMMA DestroyStep ==
  ASSUME ListInv, Destroy
  PROVE  ListInv' /\ (ValueList!Destroy \/ ValueList!Break)
<1>1. CASE Dangles(head)
  BY <1>1, Breaks DEF Destroy
<1>2. CASE ~Dangles(head)
  <2>1. /\ state = "used" /\ state' = "destroyed"
        /\ live' = live \ ToSet(Chain) /\ call' = NoCall
        /\ UNCHANGED <<len, cmp, head, tail, next, pre, value>>
    BY <1>2 DEF Destroy, links
  <2>2. live' = {}
    BY <2>1 DEF ListInv, WellLinked, Linked
  <2>3. ListInv'
    BY <2>1, <2>2 DEF ListInv, TypeOK, Blank, Counted, WellLinked
  <2> QED
    BY <2>1, <2>3 DEF ValueList!Destroy
<1> QED
  BY <1>1, <1>2

-----------------------------------------------------------------------------
LEMMA ListInit_Inv == Init => ListInv /\ ValueList!Init
<1> SUFFICES ASSUME Init PROVE ListInv /\ ValueList!Init
  OBVIOUS
<1>1. TypeOK
  BY DEF Init, TypeOK
<1>2. << >> \in Seq(Nodes) /\ Len(<< >>) = 0
  OBVIOUS
<1>3. Linked(<< >>)
  BY <1>2 DEF Init, Linked, ToSet
<1>4. Chain = << >> /\ Length = 0
  BY <1>1, <1>2, <1>3, Chains DEF ChainIs
<1>5. ListInv
  BY <1>1, <1>3, <1>4 DEF Init, ListInv, Blank, Counted, WellLinked
<1>6. Items = << >>
  BY <1>1, <1>2, <1>3, ItemsAre, EmptySeq
<1> QED
  BY <1>5, <1>6 DEF Init, ValueList!Init

LEMMA ListNext_Inv ==
  ASSUME ListInv, [Next]_vars
  PROVE  ListInv' /\ [ValueList!Next]_ValueList!vars
<1>1. ASSUME NEW v \in Values, AddHead(v)
      PROVE  ListInv' /\ ValueList!Next
  BY <1>1, AddHeadStep DEF ValueList!Next
<1>2. ASSUME NEW v \in Values, AddTail(v)
      PROVE  ListInv' /\ ValueList!Next
  BY <1>2, AddTailStep DEF ValueList!Next
<1>3. ASSUME NEW v \in Values, Add(v)
      PROVE  ListInv' /\ ValueList!Next
  BY <1>3, AddStep DEF ValueList!Next
<1>4. ASSUME NEW v \in Values, Find(v)
      PROVE  ListInv' /\ ValueList!Next
  BY <1>4, FindStep DEF ValueList!Next
<1>5. ASSUME NEW v \in Values, Del(v)
      PROVE  ListInv' /\ ValueList!Next
  BY <1>5, DelStep DEF ValueList!Next
<1>6. ASSUME NEW v \in Values, NEW node \in live, AddBefore(node, v)
      PROVE  ListInv' /\ ValueList!Next
  <2>1. state = "used"
    BY <1>6 DEF AddBefore, Returns
  <2> QED
    BY <1>6, <2>1, AddBeforeStep DEF ValueList!Next
<1>7. ASSUME NEW v \in Values, NEW node \in live, AddAfter(node, v)
      PROVE  ListInv' /\ ValueList!Next
  <2>1. state = "used"
    BY <1>7 DEF AddAfter, Returns
  <2> QED
    BY <1>7, <2>1, AddAfterStep DEF ValueList!Next
<1>8. ASSUME NEW b \in BOOLEAN, SetCmp(b)
      PROVE  ListInv' /\ ValueList!Next
  BY <1>8, SetCmpStep DEF ValueList!Next
<1>9. ASSUME DelHead PROVE ListInv' /\ ValueList!Next
  BY <1>9, DelHeadStep DEF ValueList!Next
<1>10. ASSUME DelTail PROVE ListInv' /\ ValueList!Next
  BY <1>10, DelTailStep DEF ValueList!Next
<1>11. ASSUME Destroy PROVE ListInv' /\ ValueList!Next
  BY <1>11, DestroyStep DEF ValueList!Next
<1>12. CASE UNCHANGED vars
  <2>1. TypeOK'
    BY <1>12 DEF vars, ListInv, TypeOK
  <2>2. ListInv' /\ Items' = Items
    BY <1>12, <2>1, Keeps DEF vars
  <2>3. PlaceOf(call.node)' = PlaceOf(call.node)
    BY <1>12, Unmoved DEF vars
  <2> QED
    BY <1>12, <2>2, <2>3 DEF vars, ValueList!vars
<1> QED
  BY <1>1, <1>2, <1>3, <1>4, <1>5, <1>6, <1>7, <1>8, <1>9, <1>10, <1>11, <1>12
    DEF Next

(* However the calls of a list follow each other, its nodes stay linked    *)
(* both ways from end to end, a list that has had no node has no ends, and *)
(* len never counts less than there is: list.c keeps this over every call  *)
(* that does not use freed memory.                                         *)
THEOREM ListSafe == Spec => []ListInv
<1>1. Init => ListInv
  BY ListInit_Inv
<1>2. ListInv /\ [Next]_vars => ListInv'
  BY ListNext_Inv
<1> QED
  BY <1>1, <1>2, PTL DEF Spec

(* Both chains of pointers are the same nodes, those that are allocated,   *)
(* and list_destroy frees them all.                                        *)
THEOREM NodesLinked == Spec => []WellLinked
<1>1. ListInv => WellLinked
  BY DEF ListInv
<1> QED
  BY <1>1, ListSafe, PTL

(* Every call of list.c does to the nodes what ListValues says of their    *)
(* values, and only a list emptied at one end ever uses freed memory.      *)
THEOREM ListIsValues == Spec => ImplementsValueList
<1>1. Init => ValueList!Init
  BY ListInit_Inv
<1>2. ListInv /\ [Next]_vars => [ValueList!Next]_ValueList!vars
  BY ListNext_Inv
<1> QED
  BY <1>1, <1>2, ListSafe, PTL DEF Spec, ValueList!Spec, ImplementsValueList
=============================================================================
