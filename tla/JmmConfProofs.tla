--------------------------- MODULE JmmConfProofs ----------------------------
(***************************************************************************)
(* Loading the configuration, for any sections, keys, values and lines.    *)
(* ConfInv is inductive: names stay unique, so that a list can be read as  *)
(* the set of its nodes, and these are compared with the lines.  With it   *)
(* SavedOK is: a saved file is loaded as the list it was made from.        *)
(***************************************************************************)
EXTENDS JmmConf, SequenceTheorems, WellFoundedInduction, TLAPS

-----------------------------------------------------------------------------
(* Lists with unique names.                                                *)

LEMMA SetOf ==
  ASSUME NEW T, NEW list \in Seq(T)
  PROVE  /\ \A x : x \in ToSet(list) <=> \E i \in 1 .. Len(list) : x = list[i]
         /\ ToSet(list) \subseteq T
         /\ Len(list) \in Nat
BY DEF ToSet

(* Two nodes of a name are one.                                            *)
LEMMA Same ==
  ASSUME NEW T, NEW list \in Seq(T), Unique(list),
         NEW x \in ToSet(list), NEW y \in ToSet(list), x.name = y.name
  PROVE  x = y
BY SetOf DEF Unique

(* A search finds the node of that name.                                   *)
LEMMA Finds ==
  ASSUME NEW T, NEW list \in Seq(T), Unique(list), NEW name
  PROVE  /\ Named(list, name) # {} <=> \E x \in ToSet(list) : x.name = name
         /\ Named(list, name) # {} =>
              /\ FirstNamed(list, name) \in 1 .. Len(list)
              /\ list[FirstNamed(list, name)] \in ToSet(list)
              /\ list[FirstNamed(list, name)].name = name
         /\ \A x \in ToSet(list) : x.name = name =>
              x = list[FirstNamed(list, name)]
<1>1. \A x : x \in ToSet(list) <=> \E i \in 1 .. Len(list) : x = list[i]
  BY SetOf
<1>2. ASSUME NEW i \in 1 .. Len(list), list[i].name = name
      PROVE  FirstNamed(list, name) = i
  <2>1. Named(list, name) = {i}
    BY <1>2 DEF Unique, Named
  <2> QED
    BY <2>1 DEF FirstNamed
<1> QED
  BY <1>1, <1>2 DEF Named

(* A node at the end.                                                      *)
LEMMA Appended ==
  ASSUME NEW T, NEW list \in Seq(T), Unique(list), NEW x \in T,
         Named(list, x.name) = {}
  PROVE  /\ Append(list, x) \in Seq(T)
         /\ Unique(Append(list, x))
         /\ \A y : y \in ToSet(Append(list, x)) <=> y \in ToSet(list) \/ y = x
<1> DEFINE new == Append(list, x)
<1>1. /\ new \in Seq(T)
      /\ Len(new) = Len(list) + 1
      /\ \A i \in 1 .. Len(list) : new[i] = list[i]
      /\ new[Len(list) + 1] = x
  BY AppendProperties
<1> HIDE DEF new
<1>2. /\ \A y : y \in ToSet(list) <=> \E i \in 1 .. Len(list) : y = list[i]
      /\ Len(list) \in Nat
  BY SetOf
<1>6. \A y : y \in ToSet(new) <=> \E i \in 1 .. Len(new) : y = new[i]
  BY <1>1, SetOf
<1>3. \A i \in 1 .. Len(list) : list[i].name # x.name
  BY DEF Named
<1>4. Unique(new)
  BY <1>1, <1>2, <1>3 DEF Unique
<1>5. \A y : y \in ToSet(new) <=> y \in ToSet(list) \/ y = x
  BY <1>1, <1>2, <1>6
<1> QED
  BY <1>1, <1>4, <1>5 DEF new

LEMMA Single ==
  ASSUME NEW T, NEW x \in T
  PROVE  <<x>> \in Seq(T) /\ Unique(<<x>>) /\ ToSet(<<x>>) = {x}
BY DEF Unique, ToSet

LEMMA Nothing ==
  ASSUME NEW T
  PROVE  << >> \in Seq(T) /\ Unique(<< >>) /\ ToSet(<< >>) = {}
BY EmptySeq DEF Unique, ToSet

(* Another node of the same name in the place of one.                      *)
PutAt(new, list, i, x) ==
  /\ Len(new) = Len(list)
  /\ new[i] = x
  /\ \A j \in 1 .. Len(list) : j # i => new[j] = list[j]

LEMMA Replaced ==
  ASSUME NEW T, NEW list \in Seq(T), Unique(list),
         NEW i \in 1 .. Len(list), NEW x \in T, x.name = list[i].name,
         NEW new \in Seq(T), PutAt(new, list, i, x)
  PROVE  /\ Unique(new)
         /\ \A y : y \in ToSet(new) <=>
                     (y \in ToSet(list) /\ y # list[i]) \/ y = x
<1>2. /\ \A y : y \in ToSet(list) <=> \E j \in 1 .. Len(list) : y = list[j]
      /\ \A y : y \in ToSet(new) <=> \E j \in 1 .. Len(list) : y = new[j]
  BY SetOf DEF PutAt
<1>3. \A j \in 1 .. Len(list) : list[j] = list[i] => j = i
  BY DEF Unique
<1>4. Unique(new)
  BY DEF Unique, PutAt
<1>5. ASSUME NEW y
      PROVE  y \in ToSet(new) <=>
               (y \in ToSet(list) /\ y # list[i]) \/ y = x
  <2>1. ASSUME NEW j \in 1 .. Len(list), y = new[j]
        PROVE  (y \in ToSet(list) /\ y # list[i]) \/ y = x
    BY <1>2, <1>3, <2>1 DEF PutAt
  <2>2. ASSUME NEW j \in 1 .. Len(list), y = list[j], j # i
        PROVE  y \in ToSet(new)
    BY <1>2, <2>2 DEF PutAt
  <2>3. x \in ToSet(new)
    BY <1>2 DEF PutAt
  <2> QED
    BY <1>2, <2>1, <2>2, <2>3
<1> QED
  BY <1>4, <1>5

(* A list without one of its nodes.                                        *)
LEMMA Removed ==
  ASSUME NEW T, NEW list \in Seq(T), Unique(list),
         NEW i \in 1 .. Len(list)
  PROVE  /\ RemoveAt(list, i) \in Seq(T)
         /\ Unique(RemoveAt(list, i))
         /\ ToSet(RemoveAt(list, i)) \subseteq ToSet(list)
<1> DEFINE new == RemoveAt(list, i)
           left == SubSeq(list, 1, i - 1)
           right == SubSeq(list, i + 1, Len(list))
<1>1. Len(list) \in Nat /\ \A j \in 1 .. Len(list) : list[j] \in T
  OBVIOUS
<1>2. /\ left \in Seq(T) /\ Len(left) = i - 1
      /\ \A j \in 1 .. i - 1 : left[j] = list[j]
  <2>1. 1 \in Int /\ i - 1 \in Int /\ \A j \in 1 .. i - 1 : list[j] \in T
    BY <1>1
  <2>2. /\ left \in Seq(T)
        /\ Len(left) = IF 1 <= i - 1 THEN (i - 1) - 1 + 1 ELSE 0
        /\ \A j \in 1 .. (i - 1) - 1 + 1 : left[j] = list[1 + j - 1]
    BY <2>1, SubSeqProperties
  <2> QED
    BY <2>1, <2>2
<1>3. /\ right \in Seq(T) /\ Len(right) = Len(list) - i
      /\ \A j \in 1 .. Len(list) - i : right[j] = list[i + j]
  <2>1. /\ i + 1 \in Int /\ Len(list) \in Int
        /\ \A j \in i + 1 .. Len(list) : list[j] \in T
    BY <1>1
  <2>2. /\ right \in Seq(T)
        /\ Len(right) =
             IF i + 1 <= Len(list) THEN Len(list) - (i + 1) + 1 ELSE 0
        /\ \A j \in 1 .. Len(list) - (i + 1) + 1 :
             right[j] = list[i + 1 + j - 1]
    BY <2>1, SubSeqProperties
  <2> QED
    BY <1>1, <2>2
<1> HIDE DEF left, right
<1>4. new = left \o right
  BY DEF RemoveAt, left, right
<1> HIDE DEF new
<1>5. /\ new \in Seq(T)
      /\ Len(new) = Len(left) + Len(right)
      /\ \A j \in 1 .. Len(left) + Len(right) :
           new[j] = IF j <= Len(left) THEN left[j] ELSE right[j - Len(left)]
  <2>1. /\ left \o right \in Seq(T)
        /\ Len(left \o right) = Len(left) + Len(right)
        /\ \A j \in 1 .. Len(left) + Len(right) :
             (left \o right)[j] =
               IF j <= Len(left) THEN left[j] ELSE right[j - Len(left)]
    BY <1>2, <1>3, ConcatProperties
  <2> QED
    BY <1>4, <2>1
<1>6. /\ Len(new) = Len(list) - 1
      /\ \A j \in 1 .. Len(list) - 1 :
           new[j] = IF j < i THEN list[j] ELSE list[j + 1]
  <2>1. Len(left) = i - 1 /\ Len(right) = Len(list) - i
    BY <1>2, <1>3
  <2>2. Len(new) = Len(list) - 1
    BY <1>1, <1>5, <2>1
  <2>3. ASSUME NEW j \in 1 .. Len(list) - 1, j < i
        PROVE  new[j] = list[j]
    <3>1. j \in 1 .. i - 1 /\ j \in 1 .. Len(left) + Len(right)
      BY <1>1, <2>1, <2>3
    <3> QED
      BY <1>2, <1>5, <2>1, <3>1
  <2>4. ASSUME NEW j \in 1 .. Len(list) - 1, ~(j < i)
        PROVE  new[j] = list[j + 1]
    <3>1. /\ j \in 1 .. Len(left) + Len(right) /\ ~(j <= Len(left))
          /\ j - (i - 1) \in 1 .. Len(list) - i
      BY <1>1, <2>1, <2>4
    <3>2. new[j] = right[j - (i - 1)]
      BY <1>5, <2>1, <3>1
    <3>3. right[j - (i - 1)] = list[i + (j - (i - 1))]
      BY <1>3, <3>1
    <3>4. i + (j - (i - 1)) = j + 1
      BY <1>1
    <3> QED
      BY <3>2, <3>3, <3>4
  <2> QED
    BY <2>2, <2>3, <2>4
<1>7. Unique(new)
  BY <1>1, <1>6 DEF Unique
<1>8. ToSet(new) \subseteq ToSet(list)
  <2>1. /\ \A y : y \in ToSet(list) <=> \E j \in 1 .. Len(list) : y = list[j]
        /\ \A y : y \in ToSet(new) <=> \E j \in 1 .. Len(new) : y = new[j]
    BY <1>5, SetOf
  <2> QED
    BY <1>1, <1>6, <2>1
<1> QED
  BY <1>5, <1>7, <1>8 DEF new

-----------------------------------------------------------------------------
(* The operations of the library on its lists.                             *)

Tidy(list) ==
  /\ list \in Seq(Section)
  /\ Unique(list)
  /\ \A s \in ToSet(list) : Unique(s.items)

TidySecs == Tidy(secs)

LEMMA NamesTidy ==
  secs \in Seq(Section) => (NamesUnique <=> TidySecs)
<1> SUFFICES ASSUME secs \in Seq(Section)
             PROVE  NamesUnique <=> TidySecs
  OBVIOUS
<1>1. \A s : s \in ToSet(secs) <=> \E i \in 1 .. Len(secs) : s = secs[i]
  BY SetOf
<1>2. \A n \in 1 .. Len(secs) :
        /\ secs[n].name \in Sections
        /\ secs[n].items \in Seq(Item)
        /\ \A i \in 1 .. Len(secs[n].items) :
             secs[n].items[i].name \in FileKeys
  <2> TAKE n \in 1 .. Len(secs)
  <2>1. secs[n] \in Section
    OBVIOUS
  <2>2. secs[n].name \in Sections /\ secs[n].items \in Seq(Item)
    BY <2>1 DEF Section
  <2>3. \A i \in 1 .. Len(secs[n].items) : secs[n].items[i] \in Item
    BY <2>2
  <2> QED
    BY <2>2, <2>3 DEF Item
<1>3. Unique(secs) <=> \A s \in Sections : \A i, j \in Named(secs, s) : i = j
  BY <1>2 DEF Unique, Named
<1>4. ASSUME NEW n \in 1 .. Len(secs)
      PROVE  Unique(secs[n].items) <=>
               \A k \in FileKeys : \A i, j \in Named(secs[n].items, k) : i = j
  BY <1>2 DEF Unique, Named
<1> QED
  BY <1>1, <1>3, <1>4 DEF NamesUnique, Tidy, TidySecs

(* section_insert_item: the new item is there, the others are old ones.    *)
LEMMA ItemInserted ==
  ASSUME NEW items \in Seq(Item), Unique(items), NEW key \in FileKeys,
         NEW value \in Values \cup {""}
  PROVE  LET new == InsertItem(items, key, value)
         IN /\ new \in Seq(Item)
            /\ Unique(new)
            /\ NewItem(key, value) \in ToSet(new)
            /\ \A x \in ToSet(new) :
                 x \in ToSet(items) \/ x = NewItem(key, value)
            /\ Named(items, key) = {} => ToSet(items) \subseteq ToSet(new)
<1> DEFINE new == InsertItem(items, key, value)
           x == NewItem(key, value)
<1>1. x \in Item /\ x.name = key
  BY DEF NewItem, Item
<1>2. CASE Named(items, key) = {}
  <2>1. new = Append(items, x)
    BY <1>2 DEF InsertItem
  <2>2. Named(items, x.name) = {}
    BY <1>1, <1>2
  <2> HIDE DEF x, new
  <2>3. /\ Append(items, x) \in Seq(Item)
        /\ Unique(Append(items, x))
        /\ \A y : y \in ToSet(Append(items, x)) <=> y \in ToSet(items) \/ y = x
    BY <1>1, <2>2, Appended
  <2> QED
    BY <2>1, <2>3 DEF new, x
<1>3. CASE Named(items, key) # {}
  <2>1. new = <<x>>
    BY <1>3 DEF InsertItem
  <2> HIDE DEF x, new
  <2>2. <<x>> \in Seq(Item) /\ Unique(<<x>>) /\ ToSet(<<x>>) = {x}
    BY <1>1, Single
  <2> QED
    BY <1>3, <2>1, <2>2 DEF x, new
<1> QED
  BY <1>2, <1>3

(* ini_insert_section.                                                     *)
LEMMA SectionInserted ==
  ASSUME NEW list, Tidy(list), NEW name \in Sections
  PROVE  LET new == InsertSection(list, name)
         IN /\ Tidy(new)
            /\ NewSection(name) \in ToSet(new)
            /\ \A s \in ToSet(new) : s \in ToSet(list) \/ s = NewSection(name)
            /\ (\A s \in ToSet(list) : s.name # name) =>
                 ToSet(list) \subseteq ToSet(new)
<1> DEFINE new == InsertSection(list, name)
           sec == NewSection(name)
<1>1. sec \in Section /\ sec.name = name /\ sec.items = << >>
  BY EmptySeq DEF NewSection, Section
<1> HIDE DEF sec
<1>2. Unique(sec.items)
  BY <1>1, Nothing
<1>3. /\ new \in Seq(Section) /\ Unique(new)
      /\ sec \in ToSet(new)
      /\ \A s \in ToSet(new) : s \in ToSet(list) \/ s = sec
      /\ Named(list, name) = {} => ToSet(list) \subseteq ToSet(new)
  <2>1. CASE Named(list, name) = {}
    <3>1. new = Append(list, sec)
      BY <2>1 DEF InsertSection, sec
    <3>2. /\ list \in Seq(Section) /\ Unique(list)
          /\ Named(list, sec.name) = {}
      BY <1>1, <2>1 DEF Tidy
    <3> HIDE DEF new
    <3>3. /\ Append(list, sec) \in Seq(Section)
          /\ Unique(Append(list, sec))
          /\ \A s : s \in ToSet(Append(list, sec)) <=>
                      s \in ToSet(list) \/ s = sec
      BY <1>1, <3>2, Appended
    <3> QED
      BY <3>1, <3>3
  <2>2. CASE Named(list, name) # {} /\ FirstNamed(list, name) = 1
    <3>1. new = <<sec>>
      BY <2>2 DEF InsertSection, sec
    <3> HIDE DEF new
    <3>2. /\ <<sec>> \in Seq(Section) /\ Unique(<<sec>>)
          /\ ToSet(<<sec>>) = {sec}
      BY <1>1, Single
    <3> QED
      BY <2>2, <3>1, <3>2
  <2>3. CASE Named(list, name) # {} /\ FirstNamed(list, name) # 1
    <3> DEFINE i == FirstNamed(list, name)
    <3>1. new = [list EXCEPT ![i] = sec]
      BY <2>3 DEF InsertSection, sec
    <3>2. list \in Seq(Section) /\ Unique(list)
      BY DEF Tidy
    <3>3. i \in 1 .. Len(list) /\ list[i].name = name
      BY <2>3, <3>2, Finds
    <3> HIDE DEF i, new
    <3>4. new \in Seq(Section) /\ PutAt(new, list, i, sec)
      BY <1>1, <3>1, <3>2, <3>3, ExceptSeq DEF PutAt
    <3>5. /\ Unique(new)
          /\ \A s : s \in ToSet(new) <=>
                      (s \in ToSet(list) /\ s # list[i]) \/ s = sec
      BY <1>1, <3>2, <3>3, <3>4, Replaced
    <3> QED
      BY <2>3, <3>4, <3>5
  <2> QED
    BY <2>1, <2>2, <2>3
<1>4. (\A s \in ToSet(list) : s.name # name) => Named(list, name) = {}
  BY Finds DEF Tidy
<1> HIDE DEF new
<1>5. Tidy(new)
  BY <1>2, <1>3 DEF Tidy
<1> QED
  BY <1>3, <1>4, <1>5 DEF sec, new

(* ini_delete_section and section_delete_item.                             *)
LEMMA NameDeleted ==
  ASSUME NEW T, NEW list \in Seq(T), Unique(list), NEW name
  PROVE  LET new == DeleteNamed(list, name)
         IN /\ new \in Seq(T)
            /\ Unique(new)
            /\ ToSet(new) \subseteq ToSet(list)
<1> DEFINE new == DeleteNamed(list, name)
<1>1. CASE Named(list, name) = {}
  BY <1>1 DEF DeleteNamed
<1>2. CASE Named(list, name) # {} /\ FirstNamed(list, name) = 1
  <2>1. new = << >>
    BY <1>2 DEF DeleteNamed
  <2> HIDE DEF new
  <2> QED
    BY <2>1, Nothing DEF new
<1>3. CASE Named(list, name) # {} /\ FirstNamed(list, name) # 1
  <2>1. new = RemoveAt(list, FirstNamed(list, name))
    BY <1>3 DEF DeleteNamed
  <2>2. FirstNamed(list, name) \in 1 .. Len(list)
    BY <1>3, Finds
  <2> HIDE DEF new
  <2> QED
    BY <2>1, <2>2, Removed DEF new
<1> QED
  BY <1>1, <1>2, <1>3

(* A section with other items.                                             *)
WithItems(list, name, items) ==
  [list EXCEPT ![FirstNamed(list, name)].items = items]

LEMMA ItemsChanged ==
  ASSUME NEW list, Tidy(list), NEW name, Named(list, name) # {},
         NEW items \in Seq(Item), Unique(items)
  PROVE  /\ Tidy(WithItems(list, name, items))
         /\ \A s : s \in ToSet(WithItems(list, name, items)) <=>
              \/ s \in ToSet(list) /\ s # GetSection(list, name)
              \/ s = [name |-> name, items |-> items]
<1> DEFINE i == FirstNamed(list, name)
           sec == [name |-> name, items |-> items]
           new == WithItems(list, name, items)
<1>1. /\ i \in 1 .. Len(list) /\ list[i].name = name
      /\ list[i] \in ToSet(list)
  BY Finds DEF Tidy
<1>2. list[i] \in Section
  BY <1>1, SetOf DEF Tidy
<1> HIDE DEF i
<1>3. sec \in Section /\ sec.name = name /\ Unique(sec.items)
  BY <1>1, <1>2 DEF Section
<1>4. sec = [list[i] EXCEPT !.items = items]
  BY <1>1, <1>2 DEF Section
<1>5. new = [list EXCEPT ![i] = [list[i] EXCEPT !.items = items]]
  BY DEF i, WithItems
<1> HIDE DEF sec, new
<1>6. list \in Seq(Section) /\ Unique(list)
  BY DEF Tidy
<1>7. new \in Seq(Section) /\ PutAt(new, list, i, sec)
  <2>1. new = [list EXCEPT ![i] = sec]
    BY <1>4, <1>5
  <2> QED
    BY <1>1, <1>3, <1>6, <2>1, ExceptSeq DEF PutAt
<1>8. /\ Unique(new)
      /\ \A s : s \in ToSet(new) <=>
                  (s \in ToSet(list) /\ s # list[i]) \/ s = sec
  <2>1. sec.name = list[i].name
    BY <1>1, <1>3
  <2> QED
    BY <1>1, <1>3, <1>6, <1>7, <2>1, Replaced
<1>9. \A s \in ToSet(new) : Unique(s.items)
  BY <1>3, <1>8 DEF Tidy
<1> QED
  BY <1>7, <1>8, <1>9 DEF Tidy, GetSection, i, sec, new
-----------------------------------------------------------------------------
(* One line more.                                                          *)

AnyLine == Lines \cup {NextFile}

LEMMA LineKinds ==
  ASSUME NEW l \in AnyLine
  PROVE  /\ l.kind = "section" =>
              l.name \in Sections /\ l = SectionLine(l.name)
         /\ l.kind = "item" => l.key \in FileKeys /\ l.value \in Values
         /\ IsHeader(l) <=> l.kind = "section" \/ l = NextFile
BY DEF AnyLine, Lines, NextFile, SectionLine, IsHeader

LEMMA OneMore ==
  ASSUME NEW list \in Seq(AnyLine), NEW l \in AnyLine
  PROVE  LET more == Append(list, l)
         IN /\ more \in Seq(AnyLine)
            /\ Len(list) \in Nat
            /\ Len(more) = Len(list) + 1
            /\ \A i \in 1 .. Len(list) : more[i] = list[i]
            /\ more[Len(list) + 1] = l
            /\ \A y : y \in ToSet(more) <=> y \in ToSet(list) \/ y = l
<1> DEFINE more == Append(list, l)
<1>1. /\ more \in Seq(AnyLine)
      /\ Len(more) = Len(list) + 1
      /\ \A i \in 1 .. Len(list) : more[i] = list[i]
      /\ more[Len(list) + 1] = l
  BY AppendProperties
<1> HIDE DEF more
<1>2. /\ \A y : y \in ToSet(list) <=> \E i \in 1 .. Len(list) : y = list[i]
      /\ Len(list) \in Nat
  BY SetOf
<1>3. \A y : y \in ToSet(more) <=> \E i \in 1 .. Len(more) : y = more[i]
  BY <1>1, SetOf
<1>4. \A y : y \in ToSet(more) <=> y \in ToSet(list) \/ y = l
  BY <1>1, <1>2, <1>3
<1> QED
  BY <1>1, <1>2, <1>4 DEF more

(* The same of the lines that were read.                                   *)
Read(l) ==
  /\ lines \in Seq(AnyLine) /\ l \in AnyLine
  /\ lines' \in Seq(AnyLine)
  /\ Len(lines) \in Nat
  /\ Len(lines') = Len(lines) + 1
  /\ \A i \in 1 .. Len(lines) : lines'[i] = lines[i]
  /\ lines'[Len(lines) + 1] = l
  /\ \A y : y \in ToSet(lines') <=> y \in ToSet(lines) \/ y = l

LEMMA ReadOne ==
  ASSUME lines \in Seq(AnyLine), NEW l \in AnyLine, lines' = Append(lines, l)
  PROVE  Read(l)
BY OneMore DEF Read

LEMMA HeadersThen ==
  ASSUME NEW l, Read(l), NEW i
  PROVE  i \in CommonHeaders' <=>
           \/ i \in CommonHeaders
           \/ i = Len(lines) + 1 /\ l = SectionLine(Common)
<1>1. /\ Len(lines) \in Nat
      /\ Len(lines') = Len(lines) + 1
      /\ \A j \in 1 .. Len(lines) : lines'[j] = lines[j]
      /\ lines'[Len(lines) + 1] = l
  BY DEF Read
<1>2. l.kind = "section" /\ l.name = Common <=> l = SectionLine(Common)
  BY LineKinds DEF SectionLine, Read
<1> QED
  BY <1>1, <1>2 DEF CommonHeaders

(* A header of COMMON: nothing is given yet.                               *)
LEMMA GivenNone ==
  ASSUME Read(SectionLine(Common)), NEW key
  PROVE  GivenAt(key)' = {}
<1>1. Len(lines') = Len(lines) + 1 /\ Len(lines) \in Nat
  BY DEF Read
<1>2. Len(lines) + 1 \in CommonHeaders'
  BY HeadersThen
<1> QED
  BY <1>1, <1>2 DEF GivenAt, CommonHeaders

(* Any other line gives something if it is an item behind such a header.   *)
LEMMA GivenThen ==
  ASSUME NEW l, Read(l), l # SectionLine(Common), CurOK, NEW key, NEW i
  PROVE  i \in GivenAt(key)' <=>
           \/ i \in GivenAt(key)
           \/ /\ i = Len(lines) + 1
              /\ l.kind = "item" /\ l.key = key /\ curSec = Common
<1>1. /\ Len(lines) \in Nat
      /\ Len(lines') = Len(lines) + 1
      /\ \A j \in 1 .. Len(lines) : lines'[j] = lines[j]
      /\ lines'[Len(lines) + 1] = l
  BY DEF Read
<1>2. \A h : h \in CommonHeaders' <=> h \in CommonHeaders
  <2> TAKE h
  <2>1. h \in CommonHeaders' <=>
          \/ h \in CommonHeaders
          \/ h = Len(lines) + 1 /\ l = SectionLine(Common)
    BY HeadersThen
  <2> QED
    BY <2>1
<1>3. CommonHeaders \subseteq 1 .. Len(lines)
  BY DEF CommonHeaders
<1>4. CASE i \in 1 .. Len(lines)
  <2>1. lines'[i] = lines[i] /\ i \in 1 .. Len(lines')
    BY <1>1, <1>4
  <2>2. \A h \in CommonHeaders : \A j \in (h + 1) .. (i - 1) :
          lines'[j] = lines[j]
    BY <1>1, <1>3, <1>4
  <2>3. (\E h \in CommonHeaders' :
           /\ h < i
           /\ \A j \in (h + 1) .. (i - 1) : ~IsHeader(lines'[j])
           /\ \A g \in CommonHeaders' : g <= h)
        <=> (\E h \in CommonHeaders :
               /\ h < i
               /\ \A j \in (h + 1) .. (i - 1) : ~IsHeader(lines[j])
               /\ \A g \in CommonHeaders : g <= h)
    BY <1>2, <2>2
  <2> QED
    BY <1>1, <1>4, <2>1, <2>3 DEF GivenAt
<1>5. CASE i = Len(lines) + 1
  <2>1. ASSUME NEW h \in CommonHeaders,
               \A j \in (h + 1) .. (i - 1) : ~IsHeader(lines'[j])
        PROVE  curSec = Common
    BY <1>1, <1>3, <1>5, <2>1 DEF CurOK
  <2>2. ASSUME curSec = Common, Common # NoSection
        PROVE  \E h \in CommonHeaders :
                 /\ h < i
                 /\ \A j \in (h + 1) .. (i - 1) : ~IsHeader(lines'[j])
                 /\ \A g \in CommonHeaders : g <= h
    <3>1. PICK h \in 1 .. Len(lines) :
            /\ lines[h] = SectionLine(Common)
            /\ \A j \in (h + 1) .. Len(lines) : ~IsHeader(lines[j])
      BY <2>2 DEF CurOK
    <3>2. h \in CommonHeaders
      BY <3>1 DEF CommonHeaders, SectionLine
    <3>3. ASSUME NEW g \in CommonHeaders, ~(g <= h)
          PROVE  FALSE
      BY <1>1, <1>3, <3>1, <3>3 DEF CommonHeaders, IsHeader
    <3> QED
      BY <1>1, <1>5, <3>1, <3>2, <3>3
  <2>3. Common # NoSection
    BY ConfAssumption
  <2>4. /\ i \in 1 .. Len(lines') /\ lines'[i] = l
        /\ i \notin GivenAt(key)
    BY <1>1, <1>5 DEF GivenAt
  <2> QED
    BY <1>2, <1>5, <2>1, <2>2, <2>3, <2>4 DEF GivenAt
<1>6. CASE i \notin 1 .. Len(lines) + 1
  BY <1>1, <1>6 DEF GivenAt
<1> QED
  BY <1>1, <1>4, <1>5, <1>6

(* The last value of a key stays, unless the line gives another.           *)
LEMMA LastStays ==
  ASSUME NEW l, Read(l), l # SectionLine(Common), CurOK, NEW key, NEW v,
         ~(l.kind = "item" /\ l.key = key /\ curSec = Common),
         LastGiven(key, v)
  PROVE  LastGiven(key, v)'
<1>1. \A i : i \in GivenAt(key)' <=> i \in GivenAt(key)
  <2> TAKE i
  <2>1. i \in GivenAt(key)' <=>
          \/ i \in GivenAt(key)
          \/ /\ i = Len(lines) + 1
             /\ l.kind = "item" /\ l.key = key /\ curSec = Common
    BY GivenThen
  <2> QED
    BY <2>1
<1>2. \A i \in GivenAt(key) : lines'[i] = lines[i]
  BY DEF Read, GivenAt
<1> QED
  BY <1>1, <1>2 DEF LastGiven

LEMMA LastNow ==
  ASSUME NEW l, Read(l), CurOK, l.kind = "item", curSec = Common
  PROVE  LastGiven(l.key, l.value)'
<1>1. l # SectionLine(Common)
  BY DEF SectionLine
<1>2. ASSUME NEW i
      PROVE  i \in GivenAt(l.key)' <=>
               i \in GivenAt(l.key) \/ i = Len(lines) + 1
  <2>1. i \in GivenAt(l.key)' <=>
          \/ i \in GivenAt(l.key)
          \/ /\ i = Len(lines) + 1
             /\ l.kind = "item" /\ l.key = l.key /\ curSec = Common
    BY <1>1, GivenThen
  <2> QED
    BY <2>1
<1>3. /\ Len(lines) \in Nat /\ lines'[Len(lines) + 1] = l
      /\ GivenAt(l.key) \subseteq 1 .. Len(lines)
  BY DEF Read, GivenAt
<1> QED
  BY <1>2, <1>3 DEF LastGiven

(* Longer lines without repetitions.                                       *)
LEMMA RepeatsThen ==
  ASSUME NEW l, Read(l), NoRepeats'
  PROVE  /\ NoRepeats
         /\ l.kind # "file"
         /\ l.kind = "section" => l \notin ToSet(lines)
         /\ l.kind = "item" =>
              \A m \in ToSet(lines) : m.kind = "item" => m.key # l.key
<1>1. /\ Len(lines) \in Nat
      /\ Len(lines') = Len(lines) + 1
      /\ \A j \in 1 .. Len(lines) : lines'[j] = lines[j]
      /\ lines'[Len(lines) + 1] = l
  BY DEF Read
<1>2. \A y : y \in ToSet(lines) <=> \E i \in 1 .. Len(lines) : y = lines[i]
  BY SetOf DEF Read
<1>3. NoRepeats
  BY <1>1 DEF NoRepeats
<1>4. l.kind # "file"
  BY <1>1 DEF NoRepeats
<1>5. ASSUME l.kind = "section", NEW i \in 1 .. Len(lines), l = lines[i]
      PROVE  FALSE
  BY <1>1, <1>5 DEF NoRepeats
<1>6. ASSUME l.kind = "item", NEW i \in 1 .. Len(lines),
             lines[i].kind = "item", lines[i].key = l.key
      PROVE  FALSE
  BY <1>1, <1>6 DEF NoRepeats
<1> QED
  BY <1>2, <1>3, <1>4, <1>5, <1>6

(* Before anything is read, nothing is given.                              *)
LEMMA NoLines ==
  lines = << >> =>
    /\ CommonHeaders = {}
    /\ \A k \in Keys : GivenAt(k) = {}
    /\ ~PlainFile
<1> SUFFICES ASSUME lines = << >>
             PROVE  /\ CommonHeaders = {}
                    /\ \A k \in Keys : GivenAt(k) = {}
                    /\ ~PlainFile
  OBVIOUS
<1>1. CommonHeaders = {} /\ \A k \in Keys : GivenAt(k) = {}
  BY DEF CommonHeaders, GivenAt
<1>2. MustKeys[1] \in Keys
  BY ConfAssumption
<1> QED
  BY <1>1, <1>2 DEF PlainFile
-----------------------------------------------------------------------------
(* The steps.                                                              *)

LEMMA NamesThen ==
  secs' \in Seq(Section) => (NamesUnique' <=> Tidy(secs'))
<1>1. (secs \in Seq(Section) => (NamesUnique <=> TidySecs))'
  BY NamesTidy, PTL
<1> QED
  BY <1>1 DEF TidySecs

LEMMA InvTidy ==
  ConfInv => Tidy(secs)
BY NamesTidy DEF ConfInv, TypeOK, TidySecs

LEMMA InvStart ==
  Init => ConfInv
<1> SUFFICES ASSUME Init
             PROVE  ConfInv
  OBVIOUS
<1> USE DEF Init
<1>1. TypeOK
  <2>1. /\ << >> \in Seq(Section)
        /\ << >> \in Seq(Lines \cup {NextFile})
    BY EmptySeq
  <2>2. \A k \in Keys : conf[k] \in FieldValues(k)
    BY DEF FieldValues
  <2> QED
    BY <2>1, <2>2, ConfAssumption DEF TypeOK
<1>2. NamesUnique
  BY DEF NamesUnique, Named
<1>3. PhaseOK
  BY DEF PhaseOK, Loading
<1>4. CurOK
  BY NoLines DEF CurOK
<1>5. GivenOK /\ PlainOK
  BY DEF GivenOK, PlainOK, Loading
<1>6. ConfAsGiven /\ PlainFileAccepted
  BY DEF ConfAsGiven, PlainFileAccepted
<1> QED
  BY <1>1, <1>2, <1>3, <1>4, <1>5, <1>6 DEF ConfInv

(* A step that leaves no list, before a line is read.                      *)
LEMMA StepBefore ==
  ASSUME ConfInv, TypeOK', secs' = << >>, lines' = << >>,
         curSec' = NoSection,
         phase' \in {"args", "first", "ok", "exit"},
         phase' = "ok" => path' = NoPath
  PROVE  ConfInv'
<1>1. NamesUnique'
  BY DEF NamesUnique, Named
<1>2. ToSet(<< >>) = {}
  BY DEF ToSet
<1>3. PhaseOK'
  BY <1>2 DEF PhaseOK, Loading
<1>4. CommonHeaders' = {} /\ \A k \in Keys : GivenAt(k)' = {}
  BY DEF CommonHeaders, GivenAt
<1>5. CurOK'
  BY <1>4 DEF CurOK
<1>6. GivenOK'
  BY <1>2 DEF GivenOK
<1>7. PlainOK'
  BY <1>2, <1>4 DEF PlainOK
<1>8. ConfAsGiven' /\ PlainFileAccepted'
  BY DEF ConfAsGiven, PlainFileAccepted
<1> QED
  BY <1>1, <1>3, <1>5, <1>6, <1>7, <1>8 DEF ConfInv

(* A step of the program that saves.                                       *)
LEMMA StepEdit ==
  ASSUME ConfInv, phase = "edit", phase' \in {"edit", "crash"},
         Tidy(secs'), edits' \in 0 .. MaxEdits,
         UNCHANGED <<curSec, mainVars, lines, kept>>
  PROVE  ConfInv'
<1> USE DEF mainVars
<1>1. lines' = << >> /\ curSec' = NoSection
  BY DEF ConfInv, PhaseOK
<1>2. TypeOK'
  BY DEF ConfInv, TypeOK, Tidy
<1>3. NamesUnique'
  BY NamesThen DEF Tidy
<1>4. PhaseOK'
  BY <1>1 DEF PhaseOK, Loading
<1>5. MustKeys[1] \in Keys
  BY ConfAssumption
<1>6. CommonHeaders' = {} /\ \A k \in Keys : GivenAt(k)' = {}
  BY <1>1 DEF CommonHeaders, GivenAt
<1>7. CurOK'
  BY <1>1, <1>6 DEF CurOK
<1>8. GivenOK' /\ PlainOK'
  BY DEF GivenOK, PlainOK, Loading
<1>9. ConfAsGiven' /\ PlainFileAccepted'
  BY <1>5, <1>6 DEF ConfAsGiven, PlainFileAccepted, PlainFile
<1> QED
  BY <1>2, <1>3, <1>4, <1>7, <1>8, <1>9 DEF ConfInv

(* The section of a name.                                                  *)
LEMMA SectionFound ==
  ASSUME NEW list, Tidy(list), NEW name
  PROVE  /\ Named(list, name) # {} <=> \E s \in ToSet(list) : s.name = name
         /\ Named(list, name) # {} =>
              /\ GetSection(list, name) \in ToSet(list)
              /\ GetSection(list, name) \in Section
              /\ GetSection(list, name).name = name
              /\ GetSection(list, name).items \in Seq(Item)
              /\ Unique(GetSection(list, name).items)
         /\ \A s \in ToSet(list) : s.name = name => s = GetSection(list, name)
<1>1. list \in Seq(Section) /\ Unique(list)
  BY DEF Tidy
<1>2. /\ Named(list, name) # {} <=> \E s \in ToSet(list) : s.name = name
      /\ Named(list, name) # {} =>
           /\ GetSection(list, name) \in ToSet(list)
           /\ GetSection(list, name).name = name
      /\ \A s \in ToSet(list) : s.name = name => s = GetSection(list, name)
  BY <1>1, Finds DEF GetSection
<1>3. ToSet(list) \subseteq Section
  BY <1>1, SetOf
<1>4. Named(list, name) # {} =>
        /\ GetSection(list, name) \in Section
        /\ GetSection(list, name).items \in Seq(Item)
  BY <1>2, <1>3 DEF Section
<1> QED
  BY <1>2, <1>4 DEF Tidy

LEMMA EditBound ==
  /\ MaxEdits \in Nat
  /\ \A n \in 0 .. MaxEdits : n < MaxEdits => n + 1 \in 0 .. MaxEdits
BY ConfAssumption

LEMMA EditSteps ==
  ASSUME ConfInv,
         \/ \E s \in Sections : EditSection(s)
         \/ \E s \in Sections, k \in FileKeys, v \in Values \cup {""} :
              EditItem(s, k, v)
         \/ \E s \in Sections, k \in FileKeys : DropItem(s, k)
  PROVE  ConfInv'
<1>1. Tidy(secs) /\ edits \in 0 .. MaxEdits /\ MaxEdits \in Nat
  <2>1. MaxEdits \in Nat
    BY EditBound
  <2>2. edits \in 0 .. MaxEdits
    BY DEF ConfInv, TypeOK
  <2> QED
    BY <2>1, <2>2, InvTidy
<1>2. ASSUME NEW new, Edit(new), Tidy(new), phase' \in {"edit", "crash"}
      PROVE  ConfInv'
  <2>1. /\ phase = "edit" /\ edits' = edits + 1 /\ edits < MaxEdits
        /\ secs' = new
        /\ UNCHANGED <<curSec, mainVars, lines, kept>>
    BY <1>2 DEF Edit
  <2>2. edits' \in 0 .. MaxEdits
    BY <1>1, <2>1, EditBound
  <2>3. Tidy(secs')
    BY <1>2, <2>1
  <2> QED
    BY <1>2, <2>1, <2>2, <2>3, StepEdit
<1>3. ASSUME NEW s \in Sections, EditSection(s)
      PROVE  ConfInv'
  <2>1. phase' = "edit"
    BY <1>3 DEF EditSection, Edit
  <2>2. CASE Edit(InsertSection(secs, s))
    BY <1>1, <1>2, <2>1, <2>2, SectionInserted
  <2>3. CASE Edit(DeleteNamed(secs, s))
    <3>1. /\ DeleteNamed(secs, s) \in Seq(Section)
          /\ Unique(DeleteNamed(secs, s))
          /\ ToSet(DeleteNamed(secs, s)) \subseteq ToSet(secs)
      BY <1>1, NameDeleted DEF Tidy
    <3>2. Tidy(DeleteNamed(secs, s))
      BY <1>1, <3>1 DEF Tidy
    <3> QED
      BY <1>2, <2>1, <2>3, <3>2
  <2> QED
    BY <1>3, <2>2, <2>3 DEF EditSection
<1>4. ASSUME NEW s \in Sections, NEW k \in FileKeys,
             NEW v \in Values \cup {""}, EditItem(s, k, v)
      PROVE  ConfInv'
  <2> DEFINE items == InsertItem(GetSection(secs, s).items, k, v)
  <2>1. Named(secs, s) # {}
    BY <1>4 DEF EditItem
  <2>2. CASE Edit(secs) /\ phase' = "crash"
    BY <1>1, <1>2, <2>2
  <2>3. CASE Edit(WithItems(secs, s, items)) /\ phase' = "edit"
    <3>1. items \in Seq(Item) /\ Unique(items)
      BY <1>1, <2>1, SectionFound, ItemInserted
    <3> HIDE DEF items
    <3>2. Tidy(WithItems(secs, s, items))
      BY <1>1, <2>1, <3>1, ItemsChanged
    <3> QED
      BY <1>2, <2>3, <3>2
  <2> QED
    BY <1>4, <2>2, <2>3 DEF EditItem, Edit, WithItems, GetSection
<1>5. ASSUME NEW s \in Sections, NEW k \in FileKeys, DropItem(s, k)
      PROVE  ConfInv'
  <2> DEFINE items == DeleteNamed(GetSection(secs, s).items, k)
  <2>1. Named(secs, s) # {}
    BY <1>5 DEF DropItem
  <2>2. Edit(WithItems(secs, s, items)) /\ phase' = "edit"
    BY <1>5 DEF DropItem, Edit, WithItems, GetSection
  <2>3. items \in Seq(Item) /\ Unique(items)
    BY <1>1, <2>1, SectionFound, NameDeleted
  <2> HIDE DEF items
  <2>4. Tidy(WithItems(secs, s, items))
    BY <1>1, <2>1, <2>3, ItemsChanged
  <2> QED
    BY <1>2, <2>2, <2>4
<1> QED
  BY <1>3, <1>4, <1>5

(* The saves, and main up to the load.                                     *)
LEMMA BeforeSteps ==
  ASSUME ConfInv,
         \/ SaveAny \/ SaveOver \/ MainExits \/ OptionsEnd \/ InitDefConf
         \/ \E p \in {NoPath, OtherPath} \cup
                    (IF file = NotSaved THEN {} ELSE {SavedPath}) : OptConf(p)
  PROVE  ConfInv'
<1> USE DEF mainVars, fileVars
<1>1. /\ TypeOK
      /\ phase \in {"edit", "args"} => lines = << >> /\ curSec = NoSection
      /\ phase = "args" => secs = << >>
      /\ << >> \in Seq(Section)
      /\ 0 \in 0 .. MaxEdits
  BY EmptySeq, ConfAssumption DEF ConfInv, PhaseOK
<1>2. CASE SaveAny
  <2>1. PICK part \in {secs} \cup {<<secs[i]>> : i \in 1 .. Len(secs)},
             n \in 0 .. MaxEdits : Save(part, n)
    BY <1>2 DEF SaveAny
  <2>2. part \in Seq(Section)
    <3>1. secs \in Seq(Section)
      BY <1>1 DEF TypeOK
    <3>2. \A i \in 1 .. Len(secs) : secs[i] \in Section
      BY <3>1
    <3>3. \A i \in 1 .. Len(secs) : <<secs[i]>> \in Seq(Section)
      BY <3>2
    <3> QED
      BY <3>1, <3>3
  <2>3. TypeOK'
    BY <1>1, <2>1, <2>2 DEF Save, TypeOK
  <2> QED
    BY <1>1, <2>1, <2>3, StepBefore DEF Save
<1>3. CASE SaveOver
  <2>1. TypeOK'
    BY <1>1, <1>3 DEF SaveOver, TypeOK
  <2> QED
    BY <1>1, <1>3, <2>1, StepBefore DEF SaveOver
<1>4. CASE MainExits
  <2>1. TypeOK'
    BY <1>1, <1>4 DEF MainExits, TypeOK
  <2> QED
    BY <1>1, <1>4, <2>1, StepBefore DEF MainExits
<1>5. CASE OptionsEnd
  <2>1. TypeOK'
    BY <1>1, <1>5 DEF OptionsEnd, ForgetSaved, TypeOK
  <2> QED
    BY <1>1, <1>5, <2>1, StepBefore DEF OptionsEnd
<1>6. CASE InitDefConf
  <2>1. TypeOK'
    <3>1. \A k \in Keys : conf'[k] \in FieldValues(k)
      BY <1>6 DEF InitDefConf, FieldValues
    <3> QED
      BY <1>1, <1>6, <3>1 DEF InitDefConf, TypeOK
  <2> QED
    BY <1>1, <1>6, <2>1, StepBefore DEF InitDefConf
<1>7. ASSUME NEW p \in {NoPath, OtherPath, SavedPath}, OptConf(p)
      PROVE  ConfInv'
  <2>1. TypeOK'
    BY <1>1, <1>7 DEF OptConf, TypeOK
  <2> QED
    BY <1>1, <1>7, <2>1, StepBefore DEF OptConf
<1> QED
  BY <1>2, <1>3, <1>4, <1>5, <1>6, <1>7
-----------------------------------------------------------------------------
(* The steps of the load.                                                  *)

LEMMA InvLines ==
  ConfInv => lines \in Seq(AnyLine)
BY DEF ConfInv, TypeOK, AnyLine

LEMMA NextFileRepeats ==
  ASSUME lines \in Seq(AnyLine), NextFile \in ToSet(lines)
  PROVE  ~NoRepeats
<1>1. PICK i \in 1 .. Len(lines) : lines[i] = NextFile
  BY SetOf
<1> QED
  BY <1>1 DEF NoRepeats, NextFile

(* The current section after a line that is no header.                     *)
LEMMA CurStays ==
  ASSUME NEW l, Read(l), ~IsHeader(l), CurOK, curSec' = curSec,
         \A s \in ToSet(secs) : \E t \in ToSet(secs') : t.name = s.name
  PROVE  CurOK'
<1>1. /\ Len(lines) \in Nat
      /\ Len(lines') = Len(lines) + 1
      /\ \A j \in 1 .. Len(lines) : lines'[j] = lines[j]
      /\ lines'[Len(lines) + 1] = l
  BY DEF Read
<1>2. l # SectionLine(Common)
  BY DEF IsHeader, SectionLine
<1>3. ASSUME NEW h \in CommonHeaders'
      PROVE  h \in CommonHeaders
  <2>1. h \in CommonHeaders' <=>
          \/ h \in CommonHeaders
          \/ h = Len(lines) + 1 /\ l = SectionLine(Common)
    BY HeadersThen
  <2> QED
    BY <1>2, <2>1
<1>4. CommonHeaders \subseteq 1 .. Len(lines)
  BY DEF CommonHeaders
<1>5. ASSUME NEW h \in 1 .. Len(lines)
      PROVE  (\A j \in (h + 1) .. Len(lines') : ~IsHeader(lines'[j])) <=>
               \A j \in (h + 1) .. Len(lines) : ~IsHeader(lines[j])
  BY <1>1
<1>6. ASSUME curSec # NoSection
      PROVE  \E h \in 1 .. Len(lines') :
               /\ lines'[h] = SectionLine(curSec)
               /\ \A j \in (h + 1) .. Len(lines') : ~IsHeader(lines'[j])
  <2>1. PICK h \in 1 .. Len(lines) :
          /\ lines[h] = SectionLine(curSec)
          /\ \A j \in (h + 1) .. Len(lines) : ~IsHeader(lines[j])
    BY <1>6 DEF CurOK
  <2>2. h \in 1 .. Len(lines') /\ lines'[h] = SectionLine(curSec)
    BY <1>1, <2>1
  <2> QED
    BY <1>5, <2>1, <2>2
<1>7. ASSUME NEW h \in CommonHeaders',
             \A j \in (h + 1) .. Len(lines') : ~IsHeader(lines'[j])
      PROVE  curSec = Common
  BY <1>3, <1>4, <1>5, <1>7 DEF CurOK
<1> QED
  BY <1>6, <1>7 DEF CurOK

(* The current section after its header.                                   *)
LEMMA CurNow ==
  ASSUME NEW name \in Sections, Read(SectionLine(name)), curSec' = name,
         \E s \in ToSet(secs') : s.name = name
  PROVE  CurOK'
<1> DEFINE l == SectionLine(name)
<1>1. /\ Len(lines) \in Nat
      /\ Len(lines') = Len(lines) + 1
      /\ lines'[Len(lines) + 1] = l
  BY DEF Read
<1>2. ASSUME NEW h \in CommonHeaders',
             \A j \in (h + 1) .. Len(lines') : ~IsHeader(lines'[j])
      PROVE  name = Common
  <2>1. h \in 1 .. Len(lines') /\ lines'[h].name = Common
    BY DEF CommonHeaders
  <2>2. IsHeader(l)
    BY DEF IsHeader, SectionLine
  <2>3. h = Len(lines) + 1
    BY <1>1, <1>2, <2>1, <2>2
  <2> QED
    BY <1>1, <2>1, <2>3 DEF SectionLine
<1>3. /\ Len(lines) + 1 \in 1 .. Len(lines')
      /\ \A j \in (Len(lines) + 1 + 1) .. Len(lines') : ~IsHeader(lines'[j])
  BY <1>1
<1> QED
  BY <1>1, <1>2, <1>3 DEF CurOK

(* The load fails.                                                         *)
LEMMA FailStep ==
  ASSUME ConfInv, Loading, LoadFails, UNCHANGED <<secs, mainVars>>
  PROVE  ConfInv'
<1> USE DEF mainVars, fileVars
<1>1. lines \in Seq(AnyLine)
  BY InvLines
<1>2. CASE phase = "first"
  <2>1. /\ phase' = "fallback" /\ curSec' = NoSection
        /\ lines' = Append(lines, NextFile) /\ kept' = << >>
        /\ edits' = edits
    BY <1>2 DEF LoadFails, ForgetSaved
  <2>2. Read(NextFile)
    BY <1>1, <2>1, ReadOne DEF AnyLine
  <2>3. TypeOK'
    BY <2>1, <2>2, EmptySeq DEF ConfInv, TypeOK, Read, AnyLine
  <2>4. NamesUnique'
    BY DEF ConfInv, NamesUnique
  <2>5. PhaseOK'
    BY <2>1, <2>2 DEF ConfInv, PhaseOK, Loading, Read
  <2>6. CurOK'
    <3>1. ASSUME NEW h \in CommonHeaders'
          PROVE  \E j \in (h + 1) .. Len(lines') : IsHeader(lines'[j])
      <4>1. \/ h \in CommonHeaders
            \/ h = Len(lines) + 1 /\ NextFile = SectionLine(Common)
        BY <2>2, HeadersThen
      <4>2. h \in 1 .. Len(lines)
        BY <4>1 DEF CommonHeaders, NextFile, SectionLine
      <4>3. /\ Len(lines) + 1 \in (h + 1) .. Len(lines')
            /\ lines'[Len(lines) + 1] = NextFile
        BY <2>2, <4>2 DEF Read
      <4> QED
        BY <4>3 DEF IsHeader, NextFile
    <3> QED
      BY <2>1, <3>1 DEF CurOK
  <2>7. GivenOK'
    <3>1. NextFile # SectionLine(Common) /\ NextFile.kind # "item"
      BY DEF NextFile, SectionLine
    <3>2. ASSUME NEW s \in ToSet(secs), s.name = Common,
                 NEW x \in ToSet(s.items)
          PROVE  LastGiven(x.name, x.value)'
      <4>1. LastGiven(x.name, x.value)
        BY <3>2 DEF ConfInv, GivenOK
      <4> QED
        BY <2>2, <3>1, <4>1, LastStays DEF ConfInv
    <3> QED
      BY <3>2 DEF GivenOK
  <2>8. PlainOK'
    <3>1. ~NoRepeats'
      BY <2>2, RepeatsThen DEF NextFile
    <3> QED
      BY <3>1 DEF PlainOK
  <2>9. ConfAsGiven' /\ PlainFileAccepted'
    BY <2>1 DEF ConfAsGiven, PlainFileAccepted
  <2> QED
    BY <2>3, <2>4, <2>5, <2>6, <2>7, <2>8, <2>9 DEF ConfInv
<1>3. CASE phase = "fallback"
  <2>1. phase' = "fail" /\ UNCHANGED <<curSec, fileVars, lines>>
    BY <1>3 DEF LoadFails
  <2>2. ~NoRepeats
    BY <1>1, <1>3, NextFileRepeats DEF ConfInv, PhaseOK
  <2>3. TypeOK' /\ NamesUnique'
    BY <2>1 DEF ConfInv, TypeOK, NamesUnique
  <2>4. PhaseOK'
    BY <2>1 DEF PhaseOK, Loading
  <2>5. CurOK'
    BY <2>1 DEF ConfInv, CurOK, CommonHeaders
  <2>6. GivenOK' /\ PlainOK'
    BY <2>1 DEF GivenOK, PlainOK, Loading
  <2>7. ConfAsGiven' /\ PlainFileAccepted'
    BY <2>1, <2>2 DEF ConfAsGiven, PlainFileAccepted, PlainFile, NoRepeats
  <2> QED
    BY <2>3, <2>4, <2>5, <2>6, <2>7 DEF ConfInv
<1> QED
  BY <1>2, <1>3 DEF Loading

(* A line that changes no list.                                            *)
LEMMA IgnoredStep ==
  ASSUME ConfInv, Loading, NEW l, Read(l), ~IsHeader(l),
         l.kind = "item" => curSec = NoSection,
         UNCHANGED <<phase, secs, curSec, mainVars, fileVars>>
  PROVE  ConfInv'
<1> USE DEF mainVars, fileVars
<1>1. Common # NoSection
  BY ConfAssumption
<1>2. l # SectionLine(Common)
  BY DEF IsHeader, SectionLine
<1>3. TypeOK'
  BY DEF ConfInv, TypeOK, Read, AnyLine
<1>4. NamesUnique'
  BY DEF ConfInv, NamesUnique
<1>5. PhaseOK'
  BY DEF ConfInv, PhaseOK, Loading, Read
<1>6. CurOK'
  BY CurStays DEF ConfInv
<1>7. GivenOK'
  <2>1. ASSUME NEW s \in ToSet(secs), s.name = Common,
               NEW x \in ToSet(s.items)
        PROVE  LastGiven(x.name, x.value)'
    <3>1. LastGiven(x.name, x.value)
      BY <2>1 DEF ConfInv, GivenOK
    <3> QED
      BY <1>1, <1>2, <3>1, LastStays DEF ConfInv
  <2> QED
    BY <2>1 DEF GivenOK
<1>8. PlainOK'
  <2>1. ASSUME NoRepeats'
        PROVE  NoRepeats
    BY <2>1, RepeatsThen
  <2>2. ASSUME NEW k \in Keys, GivenAt(k)' # {}
        PROVE  GivenAt(k) # {}
    <3>1. PICK i : i \in GivenAt(k)'
      BY <2>2
    <3>2. \/ i \in GivenAt(k)
          \/ /\ i = Len(lines) + 1
             /\ l.kind = "item" /\ l.key = k /\ curSec = Common
      BY <1>2, <3>1, GivenThen DEF ConfInv
    <3> QED
      BY <1>1, <3>2
  <2>3. ToSet(lines) \subseteq ToSet(lines')
    BY DEF Read
  <2> QED
    BY <2>1, <2>2, <2>3 DEF ConfInv, PlainOK, Loading
<1>9. ConfAsGiven' /\ PlainFileAccepted'
  BY DEF Loading, ConfAsGiven, PlainFileAccepted
<1> QED
  BY <1>3, <1>4, <1>5, <1>6, <1>7, <1>8, <1>9 DEF ConfInv

(* The header of a section.                                                *)
LEMMA SectionStep ==
  ASSUME ConfInv, NEW name \in Sections, ReadSection(name)
  PROVE  ConfInv'
<1> USE DEF mainVars, fileVars
<1> DEFINE l == SectionLine(name)
           sec == NewSection(name)
<1>1. /\ Loading
      /\ lines' = Append(lines, l) /\ curSec' = name
      /\ secs' = InsertSection(secs, name)
      /\ UNCHANGED <<phase, mainVars, fileVars>>
  BY DEF ReadSection, ReadLine, LineIs
<1>2. /\ l.kind = "section" /\ l.name = name /\ l \in AnyLine
      /\ sec.name = name /\ ToSet(sec.items) = {}
  BY DEF SectionLine, AnyLine, Lines, NewSection, ToSet
<1>3. Read(l)
  BY <1>1, <1>2, ReadOne, InvLines
<1>4. Tidy(secs)
  BY InvTidy
<1>5. /\ Tidy(secs')
      /\ sec \in ToSet(secs')
      /\ \A s \in ToSet(secs') : s \in ToSet(secs) \/ s = sec
      /\ (\A s \in ToSet(secs) : s.name # name) =>
           ToSet(secs) \subseteq ToSet(secs')
  BY <1>1, <1>4, SectionInserted
<1> HIDE DEF l, sec
<1>6. TypeOK'
  BY <1>1, <1>3, <1>5 DEF ConfInv, TypeOK, Read, AnyLine, Tidy
<1>7. NamesUnique'
  BY <1>5, NamesThen DEF Tidy
<1>8. PhaseOK'
  BY <1>1, <1>2, <1>3, <1>5 DEF ConfInv, PhaseOK, Loading, Read
<1>9. CurOK'
  BY <1>1, <1>2, <1>3, <1>5, CurNow DEF l
<1>10. GivenOK'
  <2>1. ASSUME NEW s \in ToSet(secs'), s.name = Common,
               NEW x \in ToSet(s.items)
        PROVE  LastGiven(x.name, x.value)'
    <3>1. s # sec /\ s \in ToSet(secs)
      BY <1>2, <1>5, <2>1
    <3>2. name # Common
      BY <1>2, <1>5, <2>1, <3>1, Same DEF Tidy
    <3>3. l # SectionLine(Common) /\ l.kind # "item"
      BY <1>2, <3>2 DEF SectionLine
    <3>4. LastGiven(x.name, x.value)
      BY <1>1, <2>1, <3>1 DEF ConfInv, GivenOK
    <3> QED
      BY <1>3, <3>3, <3>4, LastStays DEF ConfInv
  <2> QED
    BY <2>1 DEF GivenOK
<1>11. PlainOK'
  <2> SUFFICES ASSUME NoRepeats'
               PROVE  PlainOK'
    BY DEF PlainOK
  <2>1. NoRepeats /\ l \notin ToSet(lines)
    BY <1>2, <1>3, RepeatsThen
  <2>2. ToSet(lines) \subseteq ToSet(lines') /\ l \in ToSet(lines')
    BY <1>3 DEF Read
  <2>3. /\ \A s \in ToSet(secs) :
             /\ SectionLine(s.name) \in ToSet(lines)
             /\ \A x \in ToSet(s.items) :
                  \E m \in ToSet(lines) : m.kind = "item" /\ m.key = x.name
        /\ \A k \in Keys : GivenAt(k) # {} =>
             \E s \in ToSet(secs) :
               s.name = Common /\ \E x \in ToSet(s.items) : x.name = k
    BY <1>1, <2>1 DEF ConfInv, PlainOK
  <2>4. ToSet(secs) \subseteq ToSet(secs')
    BY <1>5, <2>1, <2>3 DEF l
  <2>5. ASSUME NEW s \in ToSet(secs')
        PROVE  /\ SectionLine(s.name) \in ToSet(lines')
               /\ \A x \in ToSet(s.items) :
                    \E m \in ToSet(lines') : m.kind = "item" /\ m.key = x.name
    BY <1>2, <1>5, <2>2, <2>3 DEF l
  <2>6. ASSUME NEW k \in Keys, GivenAt(k)' # {}
        PROVE  GivenAt(k) # {}
    <3>1. l # SectionLine(Common)
      BY <1>3, <2>6, GivenNone
    <3>2. PICK i : i \in GivenAt(k)'
      BY <2>6
    <3>3. \/ i \in GivenAt(k)
          \/ /\ i = Len(lines) + 1
             /\ l.kind = "item" /\ l.key = k /\ curSec = Common
      BY <1>3, <3>1, <3>2, GivenThen DEF ConfInv
    <3> QED
      BY <1>2, <3>3
  <2> QED
    BY <2>3, <2>4, <2>5, <2>6 DEF PlainOK
<1>12. ConfAsGiven' /\ PlainFileAccepted'
  BY <1>1 DEF Loading, ConfAsGiven, PlainFileAccepted
<1> QED
  BY <1>6, <1>7, <1>8, <1>9, <1>10, <1>11, <1>12 DEF ConfInv

(* An item, when there is a current section.                               *)
LEMMA ItemStep ==
  ASSUME ConfInv, NEW key \in FileKeys, NEW value \in Values,
         ReadItem(key, value), curSec # NoSection
  PROVE  ConfInv'
<1> USE DEF mainVars, fileVars
<1> DEFINE l == ItemLine(key, value)
           sec == GetSection(secs, curSec)
           item == NewItem(key, value)
           items == InsertItem(sec.items, key, value)
<1>1. /\ Loading
      /\ lines' = Append(lines, l) /\ curSec' = curSec
      /\ UNCHANGED <<mainVars, fileVars>>
      /\ \/ /\ InsertCrashes(sec.items, key)
            /\ phase' = "crash" /\ secs' = secs
         \/ /\ secs' = [secs EXCEPT ![FirstNamed(secs, curSec)].items =
                          InsertItem(@, key, value)]
            /\ phase' = phase
  BY DEF ReadItem, ReadLine, LineIs
<1>2. /\ l.kind = "item" /\ l.key = key /\ l.value = value /\ l \in AnyLine
      /\ item.name = key /\ item.value = value
      /\ l # SectionLine(Common) /\ ~IsHeader(l)
  BY DEF ItemLine, SectionLine, IsHeader, AnyLine, Lines, NewItem
<1>3. Read(l)
  BY <1>1, <1>2, ReadOne, InvLines
<1>4. /\ Tidy(secs)
      /\ Named(secs, curSec) # {}
  <2>1. Tidy(secs) /\ \E s \in ToSet(secs) : s.name = curSec
    BY InvTidy DEF ConfInv, CurOK
  <2> QED
    BY <2>1, SectionFound
<1>5. /\ sec \in ToSet(secs) /\ sec.name = curSec
      /\ sec.items \in Seq(Item) /\ Unique(sec.items)
  BY <1>4, SectionFound
<1> HIDE DEF l, sec, item
<1>6. ASSUME NoRepeats'
      PROVE  /\ NoRepeats
             /\ \A s \in ToSet(secs) : \A x \in ToSet(s.items) : x.name # key
  <2>1. /\ NoRepeats
        /\ \A m \in ToSet(lines) : m.kind = "item" => m.key # key
    BY <1>2, <1>3, <1>6, RepeatsThen
  <2>2. \A s \in ToSet(secs) : \A x \in ToSet(s.items) :
          \E m \in ToSet(lines) : m.kind = "item" /\ m.key = x.name
    BY <1>1, <2>1 DEF ConfInv, PlainOK
  <2> QED
    BY <2>1, <2>2
<1>7. Named(sec.items, key) # {} <=> \E x \in ToSet(sec.items) : x.name = key
  BY <1>5, Finds
<1>8. CASE InsertCrashes(sec.items, key) /\ phase' = "crash" /\ secs' = secs
  <2>1. TypeOK'
    BY <1>1, <1>3, <1>8 DEF ConfInv, TypeOK, Read, AnyLine
  <2>2. NamesUnique'
    BY <1>8 DEF ConfInv, NamesUnique
  <2>3. PhaseOK'
    BY <1>8 DEF PhaseOK, Loading
  <2>4. CurOK'
    BY <1>1, <1>2, <1>3, <1>8, CurStays DEF ConfInv
  <2>5. GivenOK' /\ PlainOK'
    BY <1>8 DEF GivenOK, PlainOK, Loading
  <2>6. ~NoRepeats'
    <3>1. \E x \in ToSet(sec.items) : x.name = key
      BY <1>7, <1>8 DEF InsertCrashes
    <3> QED
      BY <1>5, <1>6, <3>1
  <2>7. ConfAsGiven' /\ PlainFileAccepted'
    BY <1>8, <2>6 DEF ConfAsGiven, PlainFileAccepted, PlainFile
  <2> QED
    BY <2>1, <2>2, <2>3, <2>4, <2>5, <2>7 DEF ConfInv
<1>9. CASE secs' = WithItems(secs, curSec, items) /\ phase' = phase
  <2>1. /\ items \in Seq(Item)
        /\ Unique(items)
        /\ item \in ToSet(items)
        /\ \A x \in ToSet(items) : x \in ToSet(sec.items) \/ x = item
        /\ Named(sec.items, key) = {} =>
             ToSet(sec.items) \subseteq ToSet(items)
    BY <1>5, ItemInserted DEF item
  <2> HIDE DEF items
  <2> DEFINE new == [name |-> curSec, items |-> items]
  <2>2. new.name = curSec /\ new.items = items
    OBVIOUS
  <2>3. /\ Tidy(secs')
        /\ \A s : s \in ToSet(secs') <=>
                    (s \in ToSet(secs) /\ s # sec) \/ s = new
    BY <1>4, <1>9, <2>1, ItemsChanged DEF sec
  <2> HIDE DEF new
  <2>4. TypeOK'
    BY <1>1, <1>3, <1>9, <2>3 DEF ConfInv, TypeOK, Read, AnyLine, Tidy
  <2>5. NamesUnique'
    BY <2>3, NamesThen DEF Tidy
  <2>6. PhaseOK'
    <3>1. ASSUME NEW s \in ToSet(secs'), NEW x \in ToSet(s.items)
          PROVE  x.value \in Values
      <4>1. \A t \in ToSet(secs) : \A y \in ToSet(t.items) : y.value \in Values
        BY <1>1 DEF ConfInv, PhaseOK
      <4>2. CASE s \in ToSet(secs)
        BY <3>1, <4>1, <4>2
      <4>3. CASE s = new
        BY <1>2, <1>5, <2>1, <2>2, <3>1, <4>1, <4>3
      <4> QED
        BY <2>3, <4>2, <4>3
    <3> QED
      BY <1>1, <1>3, <1>9, <3>1 DEF ConfInv, PhaseOK, Loading, Read
  <2>7. CurOK'
    <3>1. \A s \in ToSet(secs) : \E t \in ToSet(secs') : t.name = s.name
      BY <1>5, <2>2, <2>3
    <3> QED
      BY <1>1, <1>2, <1>3, <3>1, CurStays DEF ConfInv
  <2>8. GivenOK'
    <3>1. ASSUME NEW s \in ToSet(secs'), s.name = Common,
                 NEW x \in ToSet(s.items)
          PROVE  LastGiven(x.name, x.value)'
      <4>1. \A t \in ToSet(secs) : t.name = Common =>
              \A y \in ToSet(t.items) : LastGiven(y.name, y.value)
        BY <1>1 DEF ConfInv, GivenOK
      <4>2. CASE curSec # Common
        <5>1. s \in ToSet(secs)
          BY <2>2, <2>3, <3>1, <4>2
        <5>2. LastGiven(x.name, x.value)
          BY <3>1, <4>1, <5>1
        <5> QED
          BY <1>2, <1>3, <4>2, <5>2, LastStays DEF ConfInv
      <4>3. CASE curSec = Common /\ x = item
        BY <1>2, <1>3, <4>3, LastNow DEF ConfInv
      <4>4. CASE curSec = Common /\ x # item
        <5>1. s = new
          BY <2>2, <2>3, <3>1, <4>4, Same DEF Tidy
        <5>2. x \in ToSet(sec.items) /\ x \in ToSet(items)
          BY <2>1, <2>2, <3>1, <4>4, <5>1
        <5>3. x.name # key
          BY <1>2, <2>1, <4>4, <5>2, Same
        <5>4. LastGiven(x.name, x.value)
          BY <1>5, <4>1, <4>4, <5>2
        <5> QED
          BY <1>2, <1>3, <5>3, <5>4, LastStays DEF ConfInv
      <4> QED
        BY <4>2, <4>3, <4>4
    <3> QED
      BY <3>1 DEF GivenOK
  <2>9. PlainOK'
    <3> SUFFICES ASSUME NoRepeats'
                 PROVE  PlainOK'
      BY DEF PlainOK
    <3>1. NoRepeats /\ Named(sec.items, key) = {}
      BY <1>5, <1>6, <1>7
    <3>2. ToSet(lines) \subseteq ToSet(lines') /\ l \in ToSet(lines')
      BY <1>3 DEF Read
    <3>3. /\ \A s \in ToSet(secs) :
               /\ SectionLine(s.name) \in ToSet(lines)
               /\ \A x \in ToSet(s.items) :
                    \E m \in ToSet(lines) : m.kind = "item" /\ m.key = x.name
          /\ \A k \in Keys : GivenAt(k) # {} =>
               \E s \in ToSet(secs) :
                 s.name = Common /\ \E x \in ToSet(s.items) : x.name = k
      BY <1>1, <3>1 DEF ConfInv, PlainOK
    <3>4. ASSUME NEW s \in ToSet(secs')
          PROVE  /\ SectionLine(s.name) \in ToSet(lines')
                 /\ \A x \in ToSet(s.items) :
                      \E m \in ToSet(lines') :
                        m.kind = "item" /\ m.key = x.name
      <4>1. CASE s \in ToSet(secs)
        BY <3>2, <3>3, <4>1
      <4>2. CASE s = new
        <5>1. SectionLine(s.name) \in ToSet(lines')
          BY <1>5, <2>2, <3>2, <3>3, <4>2
        <5>2. ASSUME NEW x \in ToSet(s.items)
              PROVE  \E m \in ToSet(lines') : m.kind = "item" /\ m.key = x.name
          <6>1. x \in ToSet(sec.items) \/ x = item
            BY <2>1, <2>2, <4>2
          <6> QED
            BY <1>2, <1>5, <3>2, <3>3, <6>1
        <5> QED
          BY <5>1, <5>2
      <4> QED
        BY <2>3, <4>1, <4>2
    <3>5. ASSUME NEW k \in Keys, GivenAt(k)' # {}
          PROVE  \E s \in ToSet(secs') :
                   s.name = Common /\ \E x \in ToSet(s.items) : x.name = k
      <4>1. PICK i : i \in GivenAt(k)'
        BY <3>5
      <4>2. \/ i \in GivenAt(k)
            \/ /\ i = Len(lines) + 1
               /\ l.kind = "item" /\ l.key = k /\ curSec = Common
        BY <1>2, <1>3, <4>1, GivenThen DEF ConfInv
      <4>3. CASE k = key /\ curSec = Common
        BY <1>2, <2>1, <2>2, <2>3, <4>3
      <4>4. CASE i \in GivenAt(k)
        <5>1. PICK s \in ToSet(secs) :
                s.name = Common /\ \E x \in ToSet(s.items) : x.name = k
          BY <3>3, <4>4
        <5>2. CASE s = sec
          BY <1>5, <2>1, <2>2, <2>3, <3>1, <5>1, <5>2
        <5>3. CASE s # sec
          BY <2>3, <5>1, <5>3
        <5> QED
          BY <5>2, <5>3
      <4> QED
        BY <1>2, <4>2, <4>3, <4>4
    <3> QED
      BY <3>4, <3>5 DEF PlainOK
  <2>10. ConfAsGiven' /\ PlainFileAccepted'
    BY <1>1, <1>9 DEF Loading, ConfAsGiven, PlainFileAccepted
  <2> QED
    BY <2>4, <2>5, <2>6, <2>7, <2>8, <2>9, <2>10 DEF ConfInv
<1> QED
  BY <1>1, <1>8, <1>9 DEF WithItems, GetSection, sec

(* Without a line nothing else is given.                                   *)
LEMMA SameLines ==
  ASSUME lines' = lines, NEW k, NEW v
  PROVE  /\ GivenAt(k)' = GivenAt(k)
         /\ LastGiven(k, v)' <=> LastGiven(k, v)
         /\ NoRepeats' <=> NoRepeats
<1>1. GivenAt(k)' = GivenAt(k)
  BY DEF GivenAt, CommonHeaders
<1>2. LastGiven(k, v)' <=> LastGiven(k, v)
  BY <1>1 DEF LastGiven
<1>3. NoRepeats' <=> NoRepeats
  BY DEF NoRepeats
<1> QED
  BY <1>1, <1>2, <1>3

LEMMA EndStep ==
  ASSUME ConfInv, EndOfFile
  PROVE  ConfInv'
<1> USE DEF mainVars, fileVars
<1>1. /\ Loading /\ phase' = "get"
      /\ UNCHANGED <<secs, curSec, mainVars, fileVars, lines>>
  BY DEF EndOfFile
<1>2. TypeOK' /\ NamesUnique'
  BY <1>1 DEF ConfInv, TypeOK, NamesUnique
<1>3. PhaseOK'
  BY <1>1 DEF ConfInv, PhaseOK, Loading
<1>4. CurOK'
  BY <1>1 DEF ConfInv, CurOK, CommonHeaders
<1>5. GivenOK'
  BY <1>1, SameLines DEF ConfInv, GivenOK
<1>6. PlainOK'
  BY <1>1, SameLines DEF ConfInv, PlainOK
<1>7. ConfAsGiven' /\ PlainFileAccepted'
  BY <1>1 DEF ConfAsGiven, PlainFileAccepted
<1> QED
  BY <1>2, <1>3, <1>4, <1>5, <1>6, <1>7 DEF ConfInv

(* What a field becomes is one of its values.                              *)
LEMMA FieldTyped ==
  ASSUME NEW k \in Keys, NEW v \in Values
  PROVE  FieldValue(k, v) \in FieldValues(k)
BY DEF FieldValue, FieldValues, LevelOf, Values

(* The keys are taken from the lists.                                      *)
LEMMA GetStep ==
  ASSUME ConfInv, GetConf
  PROVE  ConfInv'
<1> USE DEF mainVars, fileVars
<1> DEFINE found == Named(secs, Common) # {}
           items == IF found THEN GetSection(secs, Common).items ELSE << >>
           taken == {k \in Keys : \A i \in 1 .. Len(MustKeys) :
                       (\E j \in i .. Len(MustKeys) : MustKeys[j] = k)
                         => Named(items, MustKeys[i]) # {}}
<1>1. /\ phase = "get"
      /\ conf' = [k \in Keys |-> IF k \in taken
                                 THEN FieldValue(k, GetItem(items, k).value)
                                 ELSE conf[k]]
      /\ phase' = IF found /\ taken = Keys THEN "ok" ELSE "fail"
      /\ path' \in {DefPath, path}
      /\ UNCHANGED <<secs, curSec, fileVars, lines>>
  BY DEF GetConf
<1>2. /\ items \in Seq(Item) /\ Unique(items)
      /\ found => GetSection(secs, Common) \in ToSet(secs)
                    /\ GetSection(secs, Common).name = Common
      /\ \A s \in ToSet(secs) : s.name = Common =>
           found /\ ToSet(s.items) = ToSet(items)
  BY InvTidy, SectionFound, Nothing
<1> HIDE DEF items, found
<1>3. found => \A x \in ToSet(items) :
                 x.value \in Values /\ LastGiven(x.name, x.value)
  <2> SUFFICES ASSUME found
               PROVE  \A x \in ToSet(items) :
                        x.value \in Values /\ LastGiven(x.name, x.value)
    OBVIOUS
  <2>1. items = GetSection(secs, Common).items
    BY DEF items
  <2> QED
    BY <1>1, <1>2, <2>1 DEF ConfInv, PhaseOK, GivenOK
<1>4. ~found => ToSet(items) = {}
  BY Nothing DEF items
<1>5. ASSUME NEW k \in Keys, k \in taken
      PROVE  /\ GetItem(items, k).value \in Values
             /\ LastGiven(k, GetItem(items, k).value)
  <2>1. PICK i \in 1 .. Len(MustKeys) : MustKeys[i] = k
    BY ConfAssumption, SetOf DEF Keys
  <2>2. Len(MustKeys) \in Nat
    BY ConfAssumption
  <2>3. i \in i .. Len(MustKeys)
    BY <2>1, <2>2
  <2>4. Named(items, k) # {}
    BY <1>5, <2>1, <2>3
  <2>5. GetItem(items, k) \in ToSet(items) /\ GetItem(items, k).name = k
    BY <1>2, <2>4, Finds DEF GetItem
  <2> QED
    BY <1>3, <1>4, <2>5
<1>6. ASSUME NEW k \in Keys, Named(items, k) = {}
      PROVE  \A x \in ToSet(items) : x.name # k
  BY <1>2, <1>6, Finds
<1>7. TypeOK'
  <2>1. ASSUME NEW k \in Keys
        PROVE  conf'[k] \in FieldValues(k)
    <3>1. CASE k \in taken
      BY <1>1, <1>5, <3>1, FieldTyped
    <3>2. CASE k \notin taken
      BY <1>1, <3>2 DEF ConfInv, TypeOK
    <3> QED
      BY <3>1, <3>2
  <2> HIDE DEF taken
  <2> QED
    BY <1>1, <2>1 DEF ConfInv, TypeOK
<1>8. NamesUnique'
  BY <1>1 DEF ConfInv, NamesUnique
<1>9. PhaseOK'
  BY <1>1 DEF PhaseOK, Loading
<1>10. CurOK'
  BY <1>1 DEF ConfInv, CurOK, CommonHeaders
<1>11. GivenOK' /\ PlainOK'
  BY <1>1 DEF GivenOK, PlainOK, Loading
<1>12. ConfAsGiven'
  <2> SUFFICES ASSUME phase' = "ok", NEW k \in Keys
               PROVE  \E v \in Values :
                        LastGiven(k, v)' /\ conf'[k] = FieldValue(k, v)
    BY DEF ConfAsGiven
  <2>1. k \in taken
    BY <1>1
  <2>2. conf'[k] = FieldValue(k, GetItem(items, k).value)
    BY <1>1, <2>1
  <2>3. \A v : LastGiven(k, v)' <=> LastGiven(k, v)
    BY <1>1, SameLines
  <2> QED
    BY <1>5, <2>1, <2>2, <2>3
<1>13. PlainFileAccepted'
  <2>6. PlainFile' <=> PlainFile
    BY <1>1, SameLines DEF PlainFile
  <2> SUFFICES ASSUME phase' = "fail", PlainFile
               PROVE  FALSE
    BY <1>1, <2>6 DEF PlainFileAccepted
  <2>1. \A k \in Keys : \E s \in ToSet(secs) :
          s.name = Common /\ \E x \in ToSet(s.items) : x.name = k
    BY <1>1 DEF PlainFile, ConfInv, PlainOK
  <2>2. \A k \in Keys : found /\ Named(items, k) # {}
    BY <1>2, <1>6, <2>1
  <2>3. \A i \in 1 .. Len(MustKeys) : MustKeys[i] \in Keys
    BY ConfAssumption
  <2>4. MustKeys[1] \in Keys
    BY ConfAssumption
  <2>5. taken = Keys
    BY <2>2, <2>3
  <2> QED
    BY <1>1, <2>2, <2>4, <2>5
<1> QED
  BY <1>7, <1>8, <1>9, <1>10, <1>11, <1>12, <1>13 DEF ConfInv

-----------------------------------------------------------------------------
(* The theorems.                                                           *)

LEMMA InvStep ==
  ConfInv /\ [Next]_vars => ConfInv'
<1> SUFFICES ASSUME ConfInv, [Next]_vars
             PROVE  ConfInv'
  OBVIOUS
<1>1. CASE \/ \E s \in Sections : EditSection(s)
           \/ \E s \in Sections, k \in FileKeys, v \in Values \cup {""} :
                EditItem(s, k, v)
           \/ \E s \in Sections, k \in FileKeys : DropItem(s, k)
  BY <1>1, EditSteps
<1>2. CASE \/ SaveAny \/ SaveOver \/ MainExits \/ OptionsEnd \/ InitDefConf
           \/ \E p \in {NoPath, OtherPath} \cup
                         (IF file = NotSaved THEN {} ELSE {SavedPath}) :
                OptConf(p)
  BY <1>2, BeforeSteps
<1>3. CASE NoFile \/ ReadOpen
  BY <1>3, FailStep DEF NoFile, ReadOpen, LineIs
<1>4. CASE ReadOther
  <2> DEFINE l == [kind |-> "other"]
  <2>1. l \in AnyLine /\ ~IsHeader(l) /\ l.kind # "item"
    BY DEF AnyLine, Lines, IsHeader
  <2>2. /\ Loading /\ lines' = Append(lines, l)
        /\ UNCHANGED <<phase, secs, curSec, mainVars, fileVars>>
    BY <1>4 DEF ReadOther, ReadLine, LineIs
  <2> HIDE DEF l
  <2> QED
    BY <2>1, <2>2, InvLines, ReadOne, IgnoredStep
<1>5. ASSUME NEW s \in Sections, ReadSection(s)
      PROVE  ConfInv'
  BY <1>5, SectionStep
<1>6. ASSUME NEW k \in FileKeys, NEW v \in Values, ReadItem(k, v)
      PROVE  ConfInv'
  <2>1. CASE curSec # NoSection
    BY <1>6, <2>1, ItemStep
  <2>2. CASE curSec = NoSection
    <3> DEFINE l == ItemLine(k, v)
    <3>1. l \in AnyLine /\ ~IsHeader(l)
      BY DEF ItemLine, AnyLine, Lines, IsHeader
    <3>2. /\ Loading /\ lines' = Append(lines, l)
          /\ UNCHANGED <<phase, secs, curSec, mainVars, fileVars>>
      BY <1>6, <2>2 DEF ReadItem, ReadLine, LineIs
    <3> HIDE DEF l
    <3> QED
      BY <2>2, <3>1, <3>2, InvLines, ReadOne, IgnoredStep
  <2> QED
    BY <2>1, <2>2
<1>7. CASE EndOfFile
  BY <1>7, EndStep
<1>8. CASE GetConf
  BY <1>8, GetStep
<1>9. CASE UNCHANGED vars
  <2>1. UNCHANGED <<phase, secs, curSec, conf, path, edits, lines, kept>>
    BY <1>9 DEF vars
  <2>2. TypeOK' /\ NamesUnique'
    BY <2>1 DEF ConfInv, TypeOK, NamesUnique
  <2>5. PhaseOK'
    BY <2>1 DEF ConfInv, PhaseOK, Loading
  <2>6. CurOK'
    BY <2>1 DEF ConfInv, CurOK, CommonHeaders
  <2>3. GivenOK' /\ PlainOK'
    BY <2>1, SameLines DEF ConfInv, GivenOK, PlainOK, Loading
  <2>4. ConfAsGiven' /\ PlainFileAccepted'
    BY <2>1, SameLines DEF ConfInv, ConfAsGiven, PlainFileAccepted, PlainFile
  <2> QED
    BY <2>2, <2>3, <2>4, <2>5, <2>6 DEF ConfInv
<1> QED
  BY <1>1, <1>2, <1>3, <1>4, <1>5, <1>6, <1>7, <1>8, <1>9 DEF Next

(* The lists, the lines and the fields fit together at every moment of a   *)
(* load, whatever the lines are (ini_load_fd, jmm_init_conf).              *)
THEOREM ConfSafe == Spec => []ConfInv
BY InvStart, InvStep, PTL DEF Spec

(* Every field holds a value of its own kind, and the lists hold nodes.    *)
THEOREM ConfTypeCorrect == Spec => []TypeOK
<1>1. ConfInv => TypeOK
  BY DEF ConfInv
<1> QED
  BY <1>1, ConfSafe, PTL

(* No name comes twice in a list, by whatever calls of the library and     *)
(* whatever lines (ini_insert_section, section_insert_item and the         *)
(* deletes): a search that stops at the first finds the only one.          *)
THEOREM NamesStayUnique == Spec => []NamesUnique
<1>1. ConfInv => NamesUnique
  BY DEF ConfInv
<1> QED
  BY <1>1, ConfSafe, PTL

(* A configuration that is accepted is what the lines say: the last value  *)
(* of each key after the last header of COMMON, though a header that comes *)
(* again drops lists and a key that comes again drops the other items.     *)
THEOREM ConfFromLines == Spec => []ConfAsGiven
<1>1. ConfInv => ConfAsGiven
  BY DEF ConfInv
<1> QED
  BY <1>1, ConfSafe, PTL

(* A file without repetitions that gives every key is neither refused nor  *)
(* the end of the program.                                                 *)
THEOREM PlainAccepted == Spec => []PlainFileAccepted
<1>1. ConfInv => PlainFileAccepted
  BY DEF ConfInv
<1> QED
  BY <1>1, ConfSafe, PTL

-----------------------------------------------------------------------------
(***************************************************************************)
(* The saved file.  A list that is saved, and what is written of it, are   *)
(* made by FlattenSeq from what each of its nodes makes; what has been     *)
(* read of the file is what a part of the list makes (SavedOK).            *)
(***************************************************************************)

(* Every set of numbers that is not empty has a least one.                 *)
LEMMA LeastOf ==
  ASSUME NEW T \in SUBSET Nat, T # {}
  PROVE  \E m \in T : \A x \in T : m <= x
<1> DEFINE R == {p \in Nat \X Nat : p[1] < p[2]}
<1>1. IsWellFoundedOn(R, Nat)
  BY NatLessThanWellFounded DEF OpToRel
<1>2. PICK m \in T : \A y \in T : ~(<<y, m>> \in R)
  <2> HIDE DEF R
  <2> QED
    BY <1>1, WFMin
<1>3. \A x \in T : ~(x < m)
  BY <1>2 DEF R
<1> QED
  BY <1>3

-----------------------------------------------------------------------------
(* The place before one.                                                   *)
LEMMA Before ==
  ASSUME NEW L \in Nat, NEW m \in 1 .. L
  PROVE  m # 0 /\ m - 1 \in 0 .. L /\ m \in 0 .. L
OBVIOUS

LEMMA UpTo ==
  ASSUME NEW L \in Nat, NEW n \in 0 .. L
  PROVE  L \in n .. L /\ L \in 0 .. L
OBVIOUS

LEMMA UpFrom ==
  ASSUME NEW L \in Nat, NEW n \in 0 .. L, NEW j \in (n + 1) .. L
  PROVE  j \in 1 .. L /\ j \in 0 .. L
OBVIOUS

(* The beginnings of a sequence.                                           *)
Cut(s, n) == SubSeq(s, 1, n)

LEMMA Cuts ==
  ASSUME NEW S, NEW s \in Seq(S)
  PROVE  /\ Cut(s, 0) = << >>
         /\ Cut(s, Len(s)) = s
         /\ \A n \in 0 .. Len(s) :
              /\ Cut(s, n) \in Seq(S) /\ Len(Cut(s, n)) = n
              /\ \A i \in 1 .. n : Cut(s, n)[i] = s[i]
         /\ \A n \in 1 .. Len(s) :
              /\ s[n] \in S
              /\ Cut(s, n) = Append(Cut(s, n - 1), s[n])
<1>1. Len(s) \in Nat /\ \A i \in 1 .. Len(s) : s[i] \in S
  BY LenProperties, ElementOfSeq
<1>2. ASSUME NEW n \in 0 .. Len(s)
      PROVE  /\ SubSeq(s, 1, n) \in Seq(S) /\ Len(SubSeq(s, 1, n)) = n
             /\ \A i \in 1 .. n : SubSeq(s, 1, n)[i] = s[i]
  <2>1. 1 \in Int /\ n \in Int /\ \A i \in 1 .. n : s[i] \in S
    BY <1>1
  <2>2. /\ SubSeq(s, 1, n) \in Seq(S)
        /\ Len(SubSeq(s, 1, n)) = IF 1 <= n THEN n - 1 + 1 ELSE 0
        /\ \A i \in 1 .. n - 1 + 1 : SubSeq(s, 1, n)[i] = s[1 + i - 1]
    BY <1>1, <2>1, SubSeqProperties, Z3
  <2> QED
    BY <1>1, <2>2
<1>3. ASSUME NEW n \in 1 .. Len(s)
      PROVE  SubSeq(s, 1, n) = Append(SubSeq(s, 1, n - 1), s[n])
  <2> DEFINE a == SubSeq(s, 1, n)
             b == Append(SubSeq(s, 1, n - 1), s[n])
  <2>1. n \in 0 .. Len(s) /\ n - 1 \in 0 .. Len(s) /\ s[n] \in S /\ n \in Nat
    BY <1>1
  <2>2. a \in Seq(S) /\ Len(a) = n /\ \A i \in 1 .. n : a[i] = s[i]
    BY <1>2, <2>1
  <2>3. /\ b \in Seq(S) /\ Len(b) = n
        /\ \A i \in 1 .. n - 1 : b[i] = s[i]
        /\ b[n] = s[n]
    BY <1>2, <2>1, AppendProperties
  <2>4. \A i \in 1 .. n : a[i] = b[i]
    BY <2>1, <2>2, <2>3
  <2> HIDE DEF a, b
  <2> QED
    BY <2>2, <2>3, <2>4, SeqEqual DEF a, b
<1>4. SubSeq(s, 1, Len(s)) = s
  <2>1. Len(s) \in 0 .. Len(s)
    BY <1>1
  <2> QED
    BY <1>1, <1>2, <2>1, SeqEqual
<1>5. SubSeq(s, 1, 0) = << >>
  <2>1. 0 \in 0 .. Len(s)
    BY <1>1
  <2> QED
    BY <1>2, <2>1, EmptySeq
<1> QED
  BY <1>1, <1>2, <1>3, <1>4, <1>5 DEF Cut

-----------------------------------------------------------------------------
(* FlattenSeq puts one sequence behind the other.                          *)

(* The function FlattenSeq is the last value of.                           *)
Flattens(f, s, n) ==
  f = [i \in 1 .. n |-> IF i = 1 THEN s[i] ELSE f[i - 1] \o s[i]]

LEMMA FlattenExists ==
  ASSUME NEW s, NEW n \in Nat
  PROVE  \E f : Flattens(f, s, n)
<1> DEFINE T == {m \in Nat : ~\E f : Flattens(f, s, m)}
<1>1. ASSUME T # {} PROVE FALSE
  <2>1. T \in SUBSET Nat
    OBVIOUS
  <2>2. PICK m \in T : \A x \in T : m <= x
    <3> HIDE DEF T
    <3> QED
      BY <1>1, <2>1, LeastOf
  <2>3. CASE m = 0
    <3> DEFINE f == [i \in 1 .. 0 |-> << >>]
    <3>1. Flattens(f, s, 0)
      BY DEF Flattens
    <3> QED
      BY <2>2, <2>3, <3>1
  <2>4. CASE m # 0
    <3>1. m - 1 \in Nat /\ m - 1 \notin T
      BY <2>2, <2>4
    <3>2. PICK f : Flattens(f, s, m - 1)
      BY <3>1
    <3> DEFINE last == IF m = 1 THEN s[m] ELSE f[m - 1] \o s[m]
               g == [i \in 1 .. m |-> IF i = m THEN last ELSE f[i]]
    <3>3. \A i \in 1 .. m - 1 : f[i] = IF i = 1 THEN s[i] ELSE f[i - 1] \o s[i]
      BY <3>1, <3>2 DEF Flattens
    <3>4. \A i \in 1 .. m : g[i] = IF i = 1 THEN s[i] ELSE g[i - 1] \o s[i]
      BY <3>1, <3>3
    <3>5. g = [i \in 1 .. m |-> IF i = 1 THEN s[i] ELSE g[i - 1] \o s[i]]
      <4>1. g = [i \in 1 .. m |-> g[i]]
        OBVIOUS
      <4> HIDE DEF g
      <4> QED
        BY <3>4, <4>1
    <3> HIDE DEF g
    <3>6. Flattens(g, s, m)
      BY <3>5 DEF Flattens
    <3> QED
      BY <2>2, <3>6
  <2> QED
    BY <2>3, <2>4
<1> QED
  BY <1>1

LEMMA FlattenAt ==
  ASSUME NEW f, NEW s, NEW n \in Nat, Flattens(f, s, n), NEW i \in 1 .. n
  PROVE  f[i] = IF i = 1 THEN s[i] ELSE f[i - 1] \o s[i]
<1> DEFINE At(j) == IF j = 1 THEN s[j] ELSE f[j - 1] \o s[j]
<1>1. f = [j \in 1 .. n |-> At(j)]
  BY DEF Flattens
<1> HIDE DEF At
<1>2. f[i] = At(i)
  BY <1>1
<1> QED
  BY <1>2 DEF At

(* It is made of the first sequences only.                                 *)
LEMMA FlattenSame ==
  ASSUME NEW s, NEW t, NEW f, NEW g, NEW n \in Nat, NEW m \in Nat,
         n <= m, Flattens(f, s, n), Flattens(g, t, m),
         \A i \in 1 .. n : s[i] = t[i]
  PROVE  \A i \in 1 .. n : f[i] = g[i]
<1> DEFINE T == {i \in 1 .. n : f[i] # g[i]}
<1>1. ASSUME T # {} PROVE FALSE
  <2>1. T \in SUBSET Nat
    OBVIOUS
  <2>2. PICK i \in T : \A x \in T : i <= x
    <3> HIDE DEF T
    <3> QED
      BY <1>1, <2>1, LeastOf
  <2>3. /\ f[i] = IF i = 1 THEN s[i] ELSE f[i - 1] \o s[i]
        /\ g[i] = IF i = 1 THEN t[i] ELSE g[i - 1] \o t[i]
    BY <2>2, FlattenAt
  <2>4. i # 1 => f[i - 1] = g[i - 1]
    BY <2>2
  <2> QED
    BY <2>2, <2>3, <2>4
<1> QED
  BY <1>1

LEMMA FlattenIs ==
  ASSUME NEW S, NEW s \in Seq(Seq(S)), Len(s) # 0
  PROVE  \E f : Flattens(f, s, Len(s)) /\ FlattenSeq(s) = f[Len(s)]
<1> DEFINE F(f) == Flattens(f, s, Len(s))
<1>1. \E f : F(f)
  BY FlattenExists, LenProperties
<1>2. F(CHOOSE f : F(f))
  <2> HIDE DEF F
  <2> QED
    BY <1>1
<1>3. FlattenSeq(s) = (CHOOSE f : F(f))[Len(s)]
  BY DEF FlattenSeq, Flattens
<1> QED
  BY <1>2, <1>3

LEMMA FlattenNone == FlattenSeq(<< >>) = << >>
BY DEF FlattenSeq

(* One more.                                                               *)
LEMMA FlattenThen ==
  ASSUME NEW S, NEW s \in Seq(Seq(S)), NEW x \in Seq(S)
  PROVE  FlattenSeq(Append(s, x)) = FlattenSeq(s) \o x
<1> DEFINE t == Append(s, x)
<1>0. PICK n \in Nat : n = Len(s)
  BY LenProperties
<1>5. PICK m \in Nat : m = n + 1
  OBVIOUS
<1>1. /\ t \in Seq(Seq(S)) /\ Len(t) = m
      /\ \A i \in 1 .. n : t[i] = s[i]
      /\ t[m] = x
  BY <1>0, <1>5, AppendProperties
<1> HIDE DEF t
<1>2. PICK g : Flattens(g, t, m) /\ FlattenSeq(t) = g[m]
  <2>1. PICK g : Flattens(g, t, Len(t)) /\ FlattenSeq(t) = g[Len(t)]
    BY <1>1, <1>5, FlattenIs
  <2> QED
    BY <1>1, <2>1
<1>6. g[m] = IF m = 1 THEN t[m] ELSE g[m - 1] \o t[m]
  BY <1>2, <1>5, FlattenAt
<1>3. CASE n = 0
  <2>1. s = << >>
    BY <1>0, <1>3, EmptySeq
  <2>2. FlattenSeq(t) = x
    BY <1>1, <1>2, <1>3, <1>5, <1>6
  <2>3. << >> \o x = x
    BY ConcatEmptySeq
  <2> QED
    BY <2>1, <2>2, <2>3, FlattenNone DEF t
<1>4. CASE n # 0
  <2>1. PICK f : Flattens(f, s, n) /\ FlattenSeq(s) = f[n]
    BY <1>0, <1>4, FlattenIs
  <2>2. f[n] = g[n]
    <3>1. n <= m /\ n \in 1 .. n /\ \A i \in 1 .. n : s[i] = t[i]
      BY <1>1, <1>4, <1>5
    <3>2. \A i \in 1 .. n : f[i] = g[i]
      BY <1>2, <2>1, <3>1, FlattenSame
    <3> QED
      BY <3>1, <3>2
  <2>3. g[m] = g[n] \o x
    <3>1. m # 1 /\ m - 1 = n
      BY <1>4, <1>5
    <3> QED
      BY <1>1, <1>6, <3>1
  <2> QED
    BY <1>2, <2>1, <2>2, <2>3 DEF t
<1> QED
  BY <1>3, <1>4

LEMMA FlattenType ==
  ASSUME NEW S, NEW s \in Seq(Seq(S))
  PROVE  FlattenSeq(s) \in Seq(S)
<1> DEFINE Q(n) == FlattenSeq(Cut(s, n))
           T == {n \in 0 .. Len(s) : Q(n) \notin Seq(S)}
<1>0. Len(s) \in Nat
  BY LenProperties
<1>1. ASSUME T # {} PROVE FALSE
  <2>1. T \in SUBSET Nat
    BY <1>0
  <2>2. PICK n \in T : \A x \in T : n <= x
    <3> HIDE DEF T
    <3> QED
      BY <1>1, <2>1, LeastOf
  <2>3. n # 0
    <3>1. Q(0) = << >>
      BY Cuts, FlattenNone
    <3>2. << >> \in Seq(S)
      BY EmptySeq
    <3> HIDE DEF Q
    <3> QED
      BY <2>2, <3>1, <3>2
  <2>4. n \in 1 .. Len(s) /\ n - 1 \in 0 .. Len(s)
    BY <2>2, <2>3, <1>0
  <2>5. PICK a : a = Cut(s, n - 1)
    OBVIOUS
  <2>6. PICK b : b = Cut(s, n)
    OBVIOUS
  <2>7. PICK x : x = s[n]
    OBVIOUS
  <2>8. a \in Seq(Seq(S)) /\ x \in Seq(S) /\ b = Append(a, x)
    <3>1. PICK R : R = Seq(S)
      OBVIOUS
    <3>2. s \in Seq(R)
      BY <3>1
    <3>3. a \in Seq(R) /\ x \in R /\ b = Append(a, x)
      <4>1. /\ \A k \in 0 .. Len(s) :
                  /\ Cut(s, k) \in Seq(R) /\ Len(Cut(s, k)) = k
                  /\ \A h \in 1 .. k : Cut(s, k)[h] = s[h]
            /\ \A k \in 1 .. Len(s) :
                  s[k] \in R /\ Cut(s, k) = Append(Cut(s, k - 1), s[k])
        BY <3>2, Cuts, Zenon
      <4> HIDE DEF T, Q
      <4> QED
        BY <2>4, <2>5, <2>6, <2>7, <4>1
    <3> QED
      BY <3>1, <3>3
  <2>9. FlattenSeq(b) = FlattenSeq(a) \o x
    BY <2>8, FlattenThen
  <2>10. FlattenSeq(a) \in Seq(S)
    BY <2>2, <2>4, <2>5
  <2>11. FlattenSeq(b) \in Seq(S)
    BY <2>8, <2>9, <2>10, ConcatProperties
  <2> QED
    BY <2>2, <2>6, <2>11
<1>2. Q(Len(s)) \in Seq(S)
  BY <1>0, <1>1
<1> QED
  BY <1>2, Cuts

-----------------------------------------------------------------------------
(* What a save makes of a list: something of each node, g of it, one       *)
(* behind the other.                                                       *)
(* g makes sequences of things of S of things of T.                        *)
Makes(g, T, S) == g \in [T -> Seq(S)]

Flat(g, s) == FlattenSeq([i \in 1 .. Len(s) |-> g[s[i]]])

LEMMA FlatType ==
  ASSUME NEW T, NEW S, NEW g, Makes(g, T, S), NEW s \in Seq(T)
  PROVE  Flat(g, s) \in Seq(S)
<1> DEFINE m == [i \in 1 .. Len(s) |-> g[s[i]]]
<1>1. m \in Seq(Seq(S))
  <2>1. Len(s) \in Nat /\ \A i \in 1 .. Len(s) : g[s[i]] \in Seq(S)
    BY LenProperties, ElementOfSeq DEF Makes
  <2>2. m \in [1 .. Len(s) -> Seq(S)]
    BY <2>1
  <2> QED
    BY <2>1, <2>2, SeqDef
<1> QED
  BY <1>1, FlattenType DEF Flat

LEMMA FlatNone ==
  ASSUME NEW g
  PROVE  Flat(g, << >>) = << >>
<1>1. Len(<< >>) = 0
  BY EmptySeq
<1>2. [i \in 1 .. Len(<< >>) |-> g[<< >>[i]]] = << >>
  BY <1>1
<1> QED
  BY <1>2, FlattenNone DEF Flat

LEMMA FlatThen ==
  ASSUME NEW T, NEW S, NEW g, Makes(g, T, S), NEW s \in Seq(T), NEW x \in T
  PROVE  Flat(g, Append(s, x)) = Flat(g, s) \o g[x] /\ g[x] \in Seq(S)
<1> DEFINE t == Append(s, x)
           a == [i \in 1 .. Len(s) |-> g[s[i]]]
           b == [i \in 1 .. Len(t) |-> g[t[i]]]
<1>1. /\ Len(s) \in Nat /\ \A i \in 1 .. Len(s) : s[i] \in T
      /\ t \in Seq(T) /\ Len(t) = Len(s) + 1
      /\ \A i \in 1 .. Len(s) : t[i] = s[i]
      /\ t[Len(s) + 1] = x
  BY LenProperties, ElementOfSeq, AppendProperties
<1> HIDE DEF t
<1>2. g[x] \in Seq(S) /\ \A i \in 1 .. Len(s) : g[s[i]] \in Seq(S)
  BY <1>1 DEF Makes
<1>3. a \in Seq(Seq(S)) /\ Len(a) = Len(s)
  <2>1. a \in [1 .. Len(s) -> Seq(S)]
    BY <1>2
  <2>2. a \in Seq(Seq(S))
    BY <1>1, <2>1, SeqDef
  <2>3. Len(a) \in Nat /\ DOMAIN a = 1 .. Len(a)
    BY <2>2, LenProperties
  <2> QED
    BY <1>1, <2>1, <2>2, <2>3
<1>4. \A i \in 1 .. Len(s) : a[i] = g[s[i]]
  OBVIOUS
<1>5. b = Append(a, g[x])
  <2> DEFINE c == Append(a, g[x])
  <2>1. /\ c \in Seq(Seq(S)) /\ Len(c) = Len(s) + 1
        /\ \A i \in 1 .. Len(s) : c[i] = a[i]
        /\ c[Len(s) + 1] = g[x]
    BY <1>2, <1>3, AppendProperties
  <2>2. c = [i \in 1 .. Len(s) + 1 |-> c[i]]
    BY <2>1, LenProperties
  <2> HIDE DEF a, c
  <2>3. \A i \in 1 .. Len(s) + 1 : c[i] = g[t[i]]
    <3>1. ASSUME NEW i \in 1 .. Len(s) PROVE c[i] = g[t[i]]
      BY <1>1, <1>4, <2>1
    <3>2. \A i \in 1 .. Len(s) + 1 : i \in 1 .. Len(s) \/ i = Len(s) + 1
      BY <1>1
    <3> QED
      BY <1>1, <2>1, <3>1, <3>2
  <2> QED
    BY <1>1, <2>2, <2>3 DEF c
<1>6. FlattenSeq(Append(a, g[x])) = FlattenSeq(a) \o g[x]
  BY <1>2, <1>3, FlattenThen
<1> QED
  BY <1>2, <1>5, <1>6 DEF Flat, t

(* What the first nodes make, as a function of their number.               *)
Stages(g, s) == [n \in 0 .. Len(s) |-> Flat(g, Cut(s, n))]

AreStages(F, g, s, S) ==
  /\ Len(s) \in Nat
  /\ F[0] = << >>
  /\ F[Len(s)] = Flat(g, s)
  /\ \A n \in 0 .. Len(s) : F[n] = Flat(g, Cut(s, n)) /\ F[n] \in Seq(S)
  /\ \A n \in 1 .. Len(s) :
       /\ n - 1 \in 0 .. Len(s)
       /\ F[n] = F[n - 1] \o g[s[n]]
       /\ g[s[n]] \in Seq(S)

LEMMA StagesAre ==
  ASSUME NEW T, NEW S, NEW g, Makes(g, T, S), NEW s \in Seq(T)
  PROVE  AreStages(Stages(g, s), g, s, S)
<1> DEFINE F == Stages(g, s)
<1>0. Len(s) \in Nat
  BY LenProperties
<1>1. \A n \in 0 .. Len(s) : F[n] = Flat(g, Cut(s, n))
  BY DEF Stages
<1> HIDE DEF F
<1>2. \A n \in 0 .. Len(s) : F[n] \in Seq(S)
  BY <1>1, Cuts, FlatType
<1>3. F[0] = << >>
  BY <1>0, <1>1, Cuts, FlatNone
<1>4. F[Len(s)] = Flat(g, s)
  BY <1>0, <1>1, Cuts
<1>5. ASSUME NEW n \in 1 .. Len(s)
      PROVE  n - 1 \in 0 .. Len(s) /\ F[n] = F[n - 1] \o g[s[n]]
               /\ g[s[n]] \in Seq(S)
  <2>1. n - 1 \in 0 .. Len(s) /\ n \in 0 .. Len(s)
    BY <1>0
  <2>2. PICK a : a = Cut(s, n - 1)
    OBVIOUS
  <2>3. PICK b : b = Cut(s, n)
    OBVIOUS
  <2>4. PICK x : x = s[n]
    OBVIOUS
  <2>5. a \in Seq(T) /\ x \in T /\ b = Append(a, x)
    BY <2>1, <2>2, <2>3, <2>4, Cuts
  <2>6. Flat(g, b) = Flat(g, a) \o g[x] /\ g[x] \in Seq(S)
    BY <2>5, FlatThen
  <2>7. F[n] = Flat(g, b) /\ F[n - 1] = Flat(g, a)
    BY <1>1, <2>1, <2>2, <2>3
  <2> QED
    BY <2>1, <2>4, <2>6, <2>7
<1> QED
  BY <1>0, <1>1, <1>2, <1>3, <1>4, <1>5 DEF AreStages, F

(* t begins with s.                                                        *)
Begins(t, s) == Len(s) <= Len(t) /\ \A i \in 1 .. Len(s) : s[i] = t[i]

LEMMA PrefixIs ==
  ASSUME NEW S, NEW s \in Seq(S), NEW t \in Seq(S)
  PROVE  IsPrefix(s, t) <=> Begins(t, s)
<1>0. Len(s) \in Nat /\ Len(t) \in Nat
  BY LenProperties
<1>1. SubSeq(s, 1, Len(s)) = s
  BY Cuts DEF Cut
<1>2. ASSUME Len(s) <= Len(t)
      PROVE  SubSeq(t, 1, Len(s)) = s <=> \A i \in 1 .. Len(s) : s[i] = t[i]
  <2>1. Len(s) \in 0 .. Len(t)
    BY <1>0, <1>2
  <2>2. PICK b : b = SubSeq(t, 1, Len(s))
    OBVIOUS
  <2>3. /\ b \in Seq(S) /\ Len(b) = Len(s)
        /\ \A i \in 1 .. Len(s) : b[i] = t[i]
    BY <2>1, <2>2, Cuts DEF Cut
  <2>4. ASSUME \A i \in 1 .. Len(s) : s[i] = t[i] PROVE b = s
    BY <2>3, <2>4, SeqEqual
  <2> QED
    BY <2>2, <2>3, <2>4
<1> QED
  BY <1>1, <1>2 DEF IsPrefix, Begins

LEMMA BeginsAll ==
  ASSUME NEW S, NEW r \in Seq(S), NEW s \in Seq(S), NEW t \in Seq(S)
  PROVE  /\ Begins(s, s)
         /\ Begins(s \o t, s)
         /\ Begins(t, s) /\ Begins(s, r) => Begins(t, r)
         /\ Begins(t, s) /\ Len(s) = Len(t) => s = t
<1>0. Len(s) \in Nat /\ Len(t) \in Nat /\ Len(r) \in Nat
  BY LenProperties
<1>1. Begins(s, s)
  BY <1>0 DEF Begins
<1>2. Begins(s \o t, s)
  BY <1>0, ConcatProperties DEF Begins
<1>3. Begins(t, s) /\ Begins(s, r) => Begins(t, r)
  BY <1>0 DEF Begins
<1>4. Begins(t, s) /\ Len(s) = Len(t) => s = t
  BY SeqEqual DEF Begins
<1> QED
  BY <1>1, <1>2, <1>3, <1>4

(* The first j nodes make what the first i make, and more.                 *)
LEMMA FlatBegins ==
  ASSUME NEW T, NEW S, NEW g, Makes(g, T, S), NEW s \in Seq(T),
         NEW i \in 0 .. Len(s), NEW j \in i .. Len(s)
  PROVE  Begins(Flat(g, Cut(s, j)), Flat(g, Cut(s, i)))
<1>1. PICK F : AreStages(F, g, s, S)
  BY StagesAre
<1>0. Len(s) \in Nat /\ i \in Nat
  BY LenProperties
<1>4. /\ \A n \in 0 .. Len(s) : F[n] = Flat(g, Cut(s, n)) /\ F[n] \in Seq(S)
      /\ \A n \in 1 .. Len(s) :
           F[n] = F[n - 1] \o g[s[n]] /\ g[s[n]] \in Seq(S)
  BY <1>1 DEF AreStages
<1>2. /\ Len(s) \in Nat /\ i \in Nat
      /\ \A n \in 0 .. Len(s) : F[n] = Flat(g, Cut(s, n)) /\ F[n] \in Seq(S)
      /\ \A n \in 1 .. Len(s) :
           F[n] = F[n - 1] \o g[s[n]] /\ g[s[n]] \in Seq(S)
  BY <1>0, <1>4, Zenon
<1> DEFINE U == {n \in i .. Len(s) : ~Begins(F[n], F[i])}
<1>3. ASSUME U # {} PROVE FALSE
  <2>1. U \in SUBSET Nat
    BY <1>2
  <2>2. PICK n \in U : \A x \in U : n <= x
    <3> HIDE DEF U
    <3> QED
      BY <1>3, <2>1, LeastOf
  <2>3. n # i
    BY <1>2, <2>2, BeginsAll
  <2>4. /\ n \in 1 .. Len(s) /\ n - 1 \in i .. Len(s)
        /\ n - 1 \in 0 .. Len(s) /\ n \in 0 .. Len(s)
    BY <1>2, <2>2, <2>3
  <2>5. Begins(F[n - 1], F[i])
    BY <2>2, <2>4
  <2>6. Begins(F[n], F[n - 1])
    <3>1. PICK a : a = F[n - 1]
      OBVIOUS
    <3>2. PICK b : b = g[s[n]]
      OBVIOUS
    <3>3. a \in Seq(S) /\ b \in Seq(S) /\ F[n] = a \o b
      BY <1>2, <2>4, <3>1, <3>2
    <3>4. Begins(a \o b, a)
      BY <3>3, BeginsAll
    <3> QED
      BY <3>1, <3>3, <3>4
  <2>7. Begins(F[n], F[i])
    <3>1. PICK a : a = F[n - 1]
      OBVIOUS
    <3>2. a \in Seq(S) /\ F[n] \in Seq(S) /\ F[i] \in Seq(S)
      BY <1>2, <2>4, <3>1
    <3> QED
      BY <2>5, <2>6, <3>1, <3>2, BeginsAll
  <2> QED
    BY <2>2, <2>7
<1> QED
  BY <1>2, <1>3

(* What the nodes behind the first i make: nothing at all, or something of *)
(* one of them, before which there is nothing.                             *)
Nothings(g, s, i, j) == \A k \in (i + 1) .. j : g[s[k]] = << >>

Goes(g, s, i, j) ==
  /\ g[s[j]] # << >>
  /\ Flat(g, Cut(s, j - 1)) = Flat(g, Cut(s, i))
  /\ Flat(g, Cut(s, j)) = Flat(g, Cut(s, i)) \o g[s[j]]
  /\ Nothings(g, s, i, j - 1)

Ends(g, s, i) ==
  /\ Flat(g, s) = Flat(g, Cut(s, i))
  /\ Nothings(g, s, i, Len(s))

LEMMA FlatSkips ==
  ASSUME NEW T, NEW S, NEW g, Makes(g, T, S), NEW s \in Seq(T),
         NEW i \in 0 .. Len(s), NEW j \in i .. Len(s),
         Nothings(g, s, i, j)
  PROVE  Flat(g, Cut(s, j)) = Flat(g, Cut(s, i))
<1>1. PICK F : AreStages(F, g, s, S)
  BY StagesAre
<1>2. /\ Len(s) \in Nat
      /\ \A n \in 0 .. Len(s) : F[n] = Flat(g, Cut(s, n)) /\ F[n] \in Seq(S)
      /\ \A n \in 1 .. Len(s) : F[n] = F[n - 1] \o g[s[n]]
  BY <1>1 DEF AreStages
<1>3. i \in Nat /\ j \in Nat /\ j \in i .. j /\ j \in 0 .. Len(s)
  BY <1>2
<1> DEFINE U == {n \in i .. j : F[n] # F[i]}
<1>4. ASSUME U # {} PROVE FALSE
  <2>1. U \in SUBSET Nat
    BY <1>3
  <2>2. PICK n \in U : \A x \in U : n <= x
    <3> HIDE DEF U
    <3> QED
      BY <1>4, <2>1, LeastOf
  <2>3. /\ n \in 1 .. Len(s) /\ n - 1 \in i .. j /\ n \in (i + 1) .. j
        /\ n - 1 \in 0 .. Len(s)
    BY <1>2, <1>3, <2>2
  <2>4. F[n - 1] = F[i] /\ g[s[n]] = << >>
    BY <2>2, <2>3 DEF Nothings
  <2>5. F[n] = F[n - 1] \o << >> /\ F[n - 1] \in Seq(S)
    BY <1>2, <2>3, <2>4
  <2>6. F[n] = F[n - 1]
    BY <2>5, ConcatEmptySeq
  <2> QED
    BY <2>2, <2>4, <2>6
<1> QED
  BY <1>2, <1>3, <1>4

LEMMA FlatNext ==
  ASSUME NEW T, NEW S, NEW g, Makes(g, T, S), NEW s \in Seq(T),
         NEW i \in 0 .. Len(s)
  PROVE  Ends(g, s, i) \/ \E j \in (i + 1) .. Len(s) : Goes(g, s, i, j)
<1>1. PICK F : AreStages(F, g, s, S)
  BY StagesAre
<1>0. Len(s) \in Nat /\ i \in Nat /\ Cut(s, Len(s)) = s
  BY LenProperties, Cuts
<1>5. /\ \A n \in 0 .. Len(s) : F[n] = Flat(g, Cut(s, n))
      /\ \A n \in 1 .. Len(s) : F[n] = F[n - 1] \o g[s[n]]
  BY <1>1 DEF AreStages
<1>2. /\ Len(s) \in Nat /\ i \in Nat /\ Cut(s, Len(s)) = s
      /\ \A n \in 0 .. Len(s) : F[n] = Flat(g, Cut(s, n))
      /\ \A n \in 1 .. Len(s) : F[n] = F[n - 1] \o g[s[n]]
  BY <1>0, <1>5, Zenon
<1> DEFINE U == {n \in (i + 1) .. Len(s) : g[s[n]] # << >>}
<1>3. CASE U = {}
  <2>1. Nothings(g, s, i, Len(s))
    BY <1>3 DEF Nothings
  <2>2. Len(s) \in i .. Len(s)
    BY <1>2
  <2>3. Flat(g, Cut(s, Len(s))) = Flat(g, Cut(s, i))
    BY <2>1, <2>2, FlatSkips
  <2> QED
    BY <1>2, <2>1, <2>3 DEF Ends
<1>4. CASE U # {}
  <2>1. U \in SUBSET Nat
    BY <1>2
  <2>2. PICK j \in U : \A x \in U : j <= x
    <3> HIDE DEF U
    <3> QED
      BY <1>4, <2>1, LeastOf
  <2>3. /\ j \in (i + 1) .. Len(s) /\ j \in 1 .. Len(s)
        /\ j - 1 \in i .. Len(s) /\ g[s[j]] # << >>
        /\ j \in 0 .. Len(s) /\ j - 1 \in 0 .. Len(s)
    BY <1>2, <2>2
  <2>4. PICK p : p = j - 1
    OBVIOUS
  <2>5. \A k \in (i + 1) .. p : g[s[k]] = << >>
    <3>1. ASSUME NEW k \in (i + 1) .. p PROVE k \in (i + 1) .. Len(s) /\ ~(j <= k)
      BY <1>2, <2>3, <2>4
    <3> QED
      BY <2>2, <3>1
  <2>6. Flat(g, Cut(s, p)) = Flat(g, Cut(s, i))
    <3>1. Nothings(g, s, i, p) /\ p \in i .. Len(s)
      BY <2>3, <2>4, <2>5 DEF Nothings
    <3> QED
      BY <3>1, FlatSkips
  <2>7. F[j] = F[p] \o g[s[j]] /\ F[p] = F[i]
    BY <1>2, <2>3, <2>4, <2>6
  <2>8. Flat(g, Cut(s, j)) = Flat(g, Cut(s, i)) \o g[s[j]]
    BY <1>2, <2>3, <2>7
  <2>9. Goes(g, s, i, j)
    BY <2>3, <2>4, <2>5, <2>6, <2>8 DEF Goes, Nothings
  <2> QED
    BY <2>3, <2>9
<1> QED
  BY <1>3, <1>4

(* Whatever is there comes from one of the nodes.                          *)
ComesFrom(f, g, s, n) ==
  \A i \in 1 .. Len(f) :
    \E k \in 1 .. n : \E h \in 1 .. Len(g[s[k]]) : f[i] = g[s[k]][h]

LEMMA FlatFrom ==
  ASSUME NEW T, NEW S, NEW g, Makes(g, T, S), NEW s \in Seq(T),
         NEW n \in 0 .. Len(s)
  PROVE  ComesFrom(Flat(g, Cut(s, n)), g, s, n)
<1>1. PICK F : AreStages(F, g, s, S)
  BY StagesAre
<1>2. /\ Len(s) \in Nat /\ F[0] = << >>
      /\ \A m \in 0 .. Len(s) : F[m] = Flat(g, Cut(s, m)) /\ F[m] \in Seq(S)
      /\ \A m \in 1 .. Len(s) :
           F[m] = F[m - 1] \o g[s[m]] /\ g[s[m]] \in Seq(S)
  BY <1>1 DEF AreStages
<1> DEFINE U == {m \in 0 .. n : ~ComesFrom(F[m], g, s, m)}
<1>3. ASSUME U # {} PROVE FALSE
  <2>1. U \in SUBSET Nat
    BY <1>2
  <2>2. PICK m \in U : \A x \in U : m <= x
    <3> HIDE DEF U
    <3> QED
      BY <1>3, <2>1, LeastOf
  <2>3. m # 0
    <3>1. ComesFrom(F[0], g, s, 0)
      BY <1>2, EmptySeq DEF ComesFrom
    <3> QED
      BY <2>2, <3>1
  <2>4. /\ m \in 1 .. Len(s) /\ m - 1 \in 0 .. n /\ m \in Nat
        /\ m - 1 \in 0 .. Len(s)
    BY <1>2, <2>2, <2>3
  <2>5. PICK p : p = m - 1
    OBVIOUS
  <2>6. ComesFrom(F[p], g, s, p)
    BY <2>2, <2>4, <2>5
  <2>7. PICK a : a = F[p]
    OBVIOUS
  <2>8. PICK b : b = g[s[m]]
    OBVIOUS
  <2>9. PICK f : f = F[m]
    OBVIOUS
  <2>10. a \in Seq(S) /\ b \in Seq(S) /\ f = a \o b
    BY <1>2, <2>4, <2>5, <2>7, <2>8, <2>9
  <2>11. /\ Len(a) \in Nat /\ Len(b) \in Nat /\ Len(f) = Len(a) + Len(b)
         /\ \A i \in 1 .. Len(f) :
              f[i] = IF i <= Len(a) THEN a[i] ELSE b[i - Len(a)]
    BY <2>10, LenProperties, ConcatProperties
  <2>12. ASSUME NEW i \in 1 .. Len(f)
         PROVE  \E k \in 1 .. m : \E h \in 1 .. Len(g[s[k]]) :
                  f[i] = g[s[k]][h]
    <3>1. CASE i <= Len(a)
      <4>1. i \in 1 .. Len(a) /\ 1 .. p \subseteq 1 .. m
        BY <2>4, <2>5, <2>11, <3>1
      <4>2. PICK k \in 1 .. p : \E h \in 1 .. Len(g[s[k]]) :
              a[i] = g[s[k]][h]
        BY <2>6, <2>7, <4>1 DEF ComesFrom
      <4> QED
        BY <2>11, <3>1, <4>1, <4>2
    <3>2. CASE ~(i <= Len(a))
      <4>1. m \in 1 .. m /\ i - Len(a) \in 1 .. Len(b)
        BY <2>4, <2>11, <3>2
      <4>2. f[i] = b[i - Len(a)]
        BY <2>11, <3>2
      <4> QED
        BY <2>8, <4>1, <4>2
    <3> QED
      BY <3>1, <3>2
  <2>13. ComesFrom(F[m], g, s, m)
    BY <2>9, <2>12 DEF ComesFrom
  <2> QED
    BY <2>2, <2>13
<1> QED
  BY <1>2, <1>3

-----------------------------------------------------------------------------
(* The four lists that a save and what is written of it are made of.       *)
LinesOf == [x \in Section |-> SectionLines(x)]

WrittenOf ==
  [x \in Section |-> IF x.name = "" THEN << >>
                     ELSE <<[x EXCEPT !.items = WrittenItems(@)]>>]

ItemLinesOf ==
  [x \in Item |-> IF IsWritten(x) THEN <<ItemLine(x.name, x.value)>>
                  ELSE << >>]

WrittenItem == [x \in Item |-> IF IsWritten(x) THEN <<x>> ELSE << >>]

LEMMA One ==
  ASSUME NEW S, NEW x \in S
  PROVE  /\ <<x>> \in Seq(S) /\ Len(<<x>>) = 1 /\ <<x>>[1] = x
         /\ << >> \in Seq(S)
         /\ <<x>> # << >>
         /\ \A s \in Seq(S) : s \o <<x>> = Append(s, x)
<1>1. /\ <<x>> \in Seq(S) /\ Len(<<x>>) = 1 /\ <<x>>[1] = x
      /\ << >> \in Seq(S) /\ <<x>> # << >>
  BY EmptySeq
<1>2. ASSUME NEW s \in Seq(S) PROVE s \o <<x>> = Append(s, x)
  BY AppendIsConcat
<1> QED
  BY <1>1, <1>2

LEMMA ItemsAre ==
  /\ Makes(ItemLinesOf, Item, Lines) /\ Makes(WrittenItem, Item, Item)
  /\ \A s \in Seq(Item) : /\ ItemLines(s) = Flat(ItemLinesOf, s)
                          /\ WrittenItems(s) = Flat(WrittenItem, s)
<1>1. Makes(ItemLinesOf, Item, Lines)
  <2>1. ASSUME NEW x \in Item PROVE ItemLinesOf[x] \in Seq(Lines)
    <3>1. CASE IsWritten(x)
      <4>1. ItemLine(x.name, x.value) \in Lines
        BY <3>1 DEF Item, Lines, ItemLine, IsWritten
      <4> QED
        BY <3>1, <4>1, One DEF ItemLinesOf
    <3>2. CASE ~IsWritten(x)
      BY <3>2, EmptySeq DEF ItemLinesOf
    <3> QED
      BY <3>1, <3>2
  <2>2. ItemLinesOf = [x \in Item |-> ItemLinesOf[x]]
    BY DEF ItemLinesOf
  <2> QED
    BY <2>1, <2>2 DEF Makes
<1>2. Makes(WrittenItem, Item, Item)
  <2>1. ASSUME NEW x \in Item PROVE WrittenItem[x] \in Seq(Item)
    <3>1. CASE IsWritten(x)
      BY <3>1, One DEF WrittenItem
    <3>2. CASE ~IsWritten(x)
      BY <3>2, EmptySeq DEF WrittenItem
    <3> QED
      BY <3>1, <3>2
  <2>2. WrittenItem = [x \in Item |-> WrittenItem[x]]
    BY DEF WrittenItem
  <2> QED
    BY <2>1, <2>2 DEF Makes
<1>3. ASSUME NEW s \in Seq(Item)
      PROVE  ItemLines(s) = Flat(ItemLinesOf, s)
  <2>1. \A i \in 1 .. Len(s) : s[i] \in Item
    BY ElementOfSeq
  <2>2. \A i \in 1 .. Len(s) :
          ItemLinesOf[s[i]]
            = IF IsWritten(s[i]) THEN <<ItemLine(s[i].name, s[i].value)>>
              ELSE << >>
    BY <2>1 DEF ItemLinesOf
  <2>3. [i \in 1 .. Len(s) |-> ItemLinesOf[s[i]]]
          = [i \in 1 .. Len(s) |->
               IF IsWritten(s[i]) THEN <<ItemLine(s[i].name, s[i].value)>>
               ELSE << >>]
    BY <2>2, Zenon
  <2> QED
    BY <2>3 DEF ItemLines, Flat
<1>4. ASSUME NEW s \in Seq(Item)
      PROVE  WrittenItems(s) = Flat(WrittenItem, s)
  <2>1. \A i \in 1 .. Len(s) : s[i] \in Item
    BY ElementOfSeq
  <2>2. \A i \in 1 .. Len(s) :
          WrittenItem[s[i]] = IF IsWritten(s[i]) THEN <<s[i]>> ELSE << >>
    BY <2>1 DEF WrittenItem
  <2>3. [i \in 1 .. Len(s) |-> WrittenItem[s[i]]]
          = [i \in 1 .. Len(s) |->
               IF IsWritten(s[i]) THEN <<s[i]>> ELSE << >>]
    BY <2>2, Zenon
  <2> QED
    BY <2>3 DEF WrittenItems, Flat
<1> QED
  BY <1>1, <1>2, <1>3, <1>4

LEMMA SectionsAre ==
  /\ Makes(LinesOf, Section, Lines) /\ Makes(WrittenOf, Section, Section)
  /\ \A s \in Seq(Section) : /\ SavedLines(s) = Flat(LinesOf, s)
                             /\ WrittenPart(s) = Flat(WrittenOf, s)
<1>1. Makes(LinesOf, Section, Lines)
  <2>1. ASSUME NEW x \in Section PROVE LinesOf[x] \in Seq(Lines)
    <3>1. CASE x.name = ""
      BY <3>1, EmptySeq DEF LinesOf, SectionLines
    <3>2. CASE x.name # ""
      <4>1. x.name \in Sections /\ x.items \in Seq(Item)
        BY DEF Section
      <4>2. SectionLine(x.name) \in Lines
        BY <4>1 DEF Lines, SectionLine
      <4>3. ItemLines(x.items) \in Seq(Lines)
        BY <4>1, ItemsAre, FlatType
      <4>4. <<SectionLine(x.name)>> \o ItemLines(x.items) \in Seq(Lines)
        BY <4>2, <4>3, One, ConcatProperties
      <4> QED
        BY <3>2, <4>4 DEF LinesOf, SectionLines
    <3> QED
      BY <3>1, <3>2
  <2>2. LinesOf = [x \in Section |-> LinesOf[x]]
    BY DEF LinesOf
  <2> QED
    BY <2>1, <2>2 DEF Makes
<1>2. Makes(WrittenOf, Section, Section)
  <2>1. ASSUME NEW x \in Section PROVE WrittenOf[x] \in Seq(Section)
    <3>1. CASE x.name = ""
      BY <3>1, EmptySeq DEF WrittenOf
    <3>2. CASE x.name # ""
      <4>1. x.items \in Seq(Item)
        BY DEF Section
      <4>2. WrittenItems(x.items) \in Seq(Item)
        BY <4>1, ItemsAre, FlatType
      <4>3. [x EXCEPT !.items = WrittenItems(@)] \in Section
        BY <4>2 DEF Section
      <4> QED
        BY <3>2, <4>3, One DEF WrittenOf
    <3> QED
      BY <3>1, <3>2
  <2>2. WrittenOf = [x \in Section |-> WrittenOf[x]]
    BY DEF WrittenOf
  <2> QED
    BY <2>1, <2>2 DEF Makes
<1>3. ASSUME NEW s \in Seq(Section)
      PROVE  SavedLines(s) = Flat(LinesOf, s)
  <2>1. \A i \in 1 .. Len(s) : s[i] \in Section
    BY ElementOfSeq
  <2>2. \A i \in 1 .. Len(s) : LinesOf[s[i]] = SectionLines(s[i])
    BY <2>1 DEF LinesOf
  <2>3. [i \in 1 .. Len(s) |-> LinesOf[s[i]]]
          = [i \in 1 .. Len(s) |-> SectionLines(s[i])]
    BY <2>2, Zenon
  <2> QED
    BY <2>3 DEF SavedLines, Flat
<1>4. ASSUME NEW s \in Seq(Section)
      PROVE  WrittenPart(s) = Flat(WrittenOf, s)
  <2>1. \A i \in 1 .. Len(s) : s[i] \in Section
    BY ElementOfSeq
  <2>2. \A i \in 1 .. Len(s) :
          WrittenOf[s[i]]
            = IF s[i].name = "" THEN << >>
              ELSE <<[s[i] EXCEPT !.items = WrittenItems(@)]>>
    BY <2>1 DEF WrittenOf
  <2>3. [i \in 1 .. Len(s) |-> WrittenOf[s[i]]]
          = [i \in 1 .. Len(s) |->
               IF s[i].name = "" THEN << >>
               ELSE <<[s[i] EXCEPT !.items = WrittenItems(@)]>>]
    BY <2>2, Zenon
  <2> QED
    BY <2>3 DEF WrittenPart, Flat
<1> QED
  BY <1>1, <1>2, <1>3, <1>4

-----------------------------------------------------------------------------
(* The part of kept up to an item.                                         *)
ItemsShown(x, n) == Flat(ItemLinesOf, Cut(x.items, n))
ItemsLoaded(x, n) == Flat(WrittenItem, Cut(x.items, n))

(* A section with a name in a list that is saved.                          *)
LEMMA SectionThen ==
  ASSUME NEW a \in Seq(Section), NEW y \in Section, y.name # ""
  PROVE  /\ SavedLines(Append(a, y))
              = SavedLines(a)
                  \o (<<SectionLine(y.name)>> \o Flat(ItemLinesOf, y.items))
         /\ WrittenPart(Append(a, y))
              = Append(WrittenPart(a),
                       [y EXCEPT !.items = Flat(WrittenItem, y.items)])
         /\ SavedLines(a) \in Seq(Lines) /\ WrittenPart(a) \in Seq(Section)
<1>1. Append(a, y) \in Seq(Section) /\ y.items \in Seq(Item)
  BY AppendProperties DEF Section
<1>2. /\ SavedLines(a) = Flat(LinesOf, a) /\ WrittenPart(a) = Flat(WrittenOf, a)
      /\ SavedLines(Append(a, y)) = Flat(LinesOf, Append(a, y))
      /\ WrittenPart(Append(a, y)) = Flat(WrittenOf, Append(a, y))
  BY <1>1, SectionsAre
<1>0. Makes(LinesOf, Section, Lines) /\ Makes(WrittenOf, Section, Section)
  BY SectionsAre
<1>3. /\ Flat(LinesOf, Append(a, y)) = Flat(LinesOf, a) \o LinesOf[y]
      /\ LinesOf[y] \in Seq(Lines)
  BY <1>0, FlatThen
<1>4. /\ Flat(WrittenOf, Append(a, y)) = Flat(WrittenOf, a) \o WrittenOf[y]
      /\ WrittenOf[y] \in Seq(Section)
  BY <1>0, FlatThen
<1>5. Flat(LinesOf, a) \in Seq(Lines) /\ Flat(WrittenOf, a) \in Seq(Section)
  BY SectionsAre, FlatType
<1>6. /\ ItemLines(y.items) = Flat(ItemLinesOf, y.items)
      /\ WrittenItems(y.items) = Flat(WrittenItem, y.items)
  BY <1>1, ItemsAre
<1>7. LinesOf[y] = <<SectionLine(y.name)>> \o Flat(ItemLinesOf, y.items)
  BY <1>6 DEF LinesOf, SectionLines
<1> DEFINE z == [y EXCEPT !.items = Flat(WrittenItem, y.items)]
<1>8. WrittenOf[y] = <<z>> /\ z \in Section
  <2>1. Flat(WrittenItem, y.items) \in Seq(Item)
    BY <1>1, ItemsAre, FlatType
  <2>2. z \in Section
    BY <2>1 DEF Section
  <2>3. WrittenOf[y] = <<z>>
    BY <1>6 DEF WrittenOf
  <2> QED
    BY <2>2, <2>3
<1> HIDE DEF z
<1>9. Flat(WrittenOf, a) \o <<z>> = Append(Flat(WrittenOf, a), z)
  BY <1>5, <1>8, One
<1> QED
  BY <1>2, <1>3, <1>4, <1>5, <1>7, <1>8, <1>9 DEF z

LEMMA PartIs ==
  ASSUME kept \in Seq(Section), NEW m \in 1 .. Len(kept),
         NEW n \in 0 .. Len(kept[m].items), kept[m].name # ""
  PROVE  /\ Part(m, n) \in Seq(Section)
         /\ SavedLines(Part(m, n))
              = SavedLines(Cut(kept, m - 1))
                  \o (<<SectionLine(kept[m].name)>> \o ItemsShown(kept[m], n))
         /\ WrittenPart(Part(m, n))
              = Append(WrittenPart(Cut(kept, m - 1)),
                       [kept[m] EXCEPT !.items = ItemsLoaded(kept[m], n)])
         /\ SavedLines(Cut(kept, m - 1)) \in Seq(Lines)
         /\ WrittenPart(Cut(kept, m - 1)) \in Seq(Section)
         /\ ItemsShown(kept[m], n) \in Seq(Lines)
         /\ ItemsLoaded(kept[m], n) \in Seq(Item)
<1>0. Len(kept) \in Nat
  BY LenProperties
<1>1. PICK x : x = kept[m]
  OBVIOUS
<1>2. PICK a : a = Cut(kept, m - 1)
  OBVIOUS
<1>3. a \in Seq(Section) /\ x \in Section
  <2>1. m - 1 \in 0 .. Len(kept)
    BY <1>0, Before, Zenon
  <2> QED
    BY <1>1, <1>2, <2>1, Cuts
<1>4. x.items \in Seq(Item) /\ x.name = kept[m].name /\ n \in 0 .. Len(x.items)
  BY <1>1, <1>3 DEF Section
<1>5. PICK c : c = Cut(x.items, n)
  OBVIOUS
<1>6. c \in Seq(Item)
  BY <1>4, <1>5, Cuts
<1>7. PICK y : y = [x EXCEPT !.items = c]
  OBVIOUS
<1>8. y \in Section /\ y.name = x.name /\ y.items = c
  BY <1>3, <1>6, <1>7 DEF Section
<1>9. [y EXCEPT !.items = Flat(WrittenItem, y.items)]
        = [x EXCEPT !.items = Flat(WrittenItem, c)]
  BY <1>3, <1>7, <1>8 DEF Section
<1>10. Part(m, n) = Append(a, y)
  BY <1>1, <1>2, <1>5, <1>7 DEF Part, Cut
<1>11. Append(a, y) \in Seq(Section)
  BY <1>3, <1>8, AppendProperties
<1>12. /\ SavedLines(Append(a, y))
            = SavedLines(a)
                \o (<<SectionLine(y.name)>> \o Flat(ItemLinesOf, y.items))
       /\ WrittenPart(Append(a, y))
            = Append(WrittenPart(a),
                     [y EXCEPT !.items = Flat(WrittenItem, y.items)])
       /\ SavedLines(a) \in Seq(Lines) /\ WrittenPart(a) \in Seq(Section)
  BY <1>3, <1>4, <1>8, SectionThen
<1>13. Flat(ItemLinesOf, c) \in Seq(Lines) /\ Flat(WrittenItem, c) \in Seq(Item)
  BY <1>6, ItemsAre, FlatType
<1> QED
  BY <1>1, <1>2, <1>5, <1>8, <1>9, <1>10, <1>11, <1>12, <1>13
     DEF ItemsShown, ItemsLoaded

(* All items.                                                              *)
LEMMA PartAll ==
  ASSUME kept \in Seq(Section), NEW m \in 1 .. Len(kept)
  PROVE  Part(m, Len(kept[m].items)) = Cut(kept, m)
<1>1. PICK x : x = kept[m]
  OBVIOUS
<1>2. x \in Section /\ Cut(kept, m) = Append(Cut(kept, m - 1), x)
  BY <1>1, Cuts
<1>3. x.items \in Seq(Item)
  BY <1>2 DEF Section
<1>4. Cut(x.items, Len(x.items)) = x.items
  BY <1>3, Cuts
<1>5. [x EXCEPT !.items = x.items] = x
  BY <1>2 DEF Section
<1> QED
  BY <1>1, <1>2, <1>4, <1>5 DEF Part, Cut

(* The rest of the items make nothing, or there is a next one.             *)
NextItem(x, n, j) ==
  /\ IsWritten(x.items[j])
  /\ ItemsShown(x, j)
       = Append(ItemsShown(x, n), ItemLine(x.items[j].name, x.items[j].value))
  /\ ItemsLoaded(x, j) = Append(ItemsLoaded(x, n), x.items[j])

LEMMA ItemsNext ==
  ASSUME NEW x \in Section, NEW n \in 0 .. Len(x.items)
  PROVE  \/ /\ ItemsShown(x, n) = ItemsShown(x, Len(x.items))
            /\ ItemsLoaded(x, n) = ItemsLoaded(x, Len(x.items))
         \/ \E j \in (n + 1) .. Len(x.items) : NextItem(x, n, j)
<1>1. PICK s : s = x.items
  OBVIOUS
<1>2. s \in Seq(Item) /\ n \in 0 .. Len(s)
  BY <1>1 DEF Section
<1>3. /\ Len(s) \in Nat /\ n \in Nat /\ Cut(s, Len(s)) = s
      /\ \A i \in 1 .. Len(s) : s[i] \in Item
  BY <1>2, LenProperties, Cuts
<1>4. \A i \in 1 .. Len(s) :
        /\ ItemLinesOf[s[i]] = (IF IsWritten(s[i])
                                THEN <<ItemLine(s[i].name, s[i].value)>>
                                ELSE << >>)
        /\ WrittenItem[s[i]] = (IF IsWritten(s[i]) THEN <<s[i]>> ELSE << >>)
        /\ <<ItemLine(s[i].name, s[i].value)>> # << >>
  BY <1>3 DEF ItemLinesOf, WrittenItem
<1>5. Makes(ItemLinesOf, Item, Lines) /\ Makes(WrittenItem, Item, Item)
  BY ItemsAre
<1>6. \A i \in 1 .. Len(s) : ItemLinesOf[s[i]] = << >> => WrittenItem[s[i]] = << >>
  BY <1>4
<1>7. CASE Ends(ItemLinesOf, s, n)
  <2>1. Nothings(WrittenItem, s, n, Len(s))
    BY <1>3, <1>6, <1>7 DEF Ends, Nothings
  <2>2. Len(s) \in n .. Len(s)
    BY <1>2, <1>3
  <2>3. Flat(WrittenItem, Cut(s, Len(s))) = Flat(WrittenItem, Cut(s, n))
    BY <1>2, <1>5, <2>1, <2>2, FlatSkips
  <2> QED
    BY <1>1, <1>3, <1>7, <2>3 DEF Ends, ItemsShown, ItemsLoaded
<1>8. ASSUME NEW j \in (n + 1) .. Len(s), Goes(ItemLinesOf, s, n, j)
      PROVE  NextItem(x, n, j)
  <2>1. /\ j \in 1 .. Len(s) /\ j - 1 \in n .. Len(s) /\ s[j] \in Item
        /\ j - 1 \in 0 .. Len(s)
    BY <1>2, <1>3
  <2>2. IsWritten(s[j])
    BY <1>4, <1>8, <2>1 DEF Goes
  <2>3. PICK a : a = Cut(s, n)
    OBVIOUS
  <2>4. a \in Seq(Item)
    BY <1>2, <2>3, Cuts
  <2>5. Flat(ItemLinesOf, a) \in Seq(Lines) /\ Flat(WrittenItem, a) \in Seq(Item)
    BY <1>5, <2>4, FlatType
  <2>6. PICK l : l = ItemLine(s[j].name, s[j].value)
    OBVIOUS
  <2>7. l \in Lines
    BY <2>1, <2>2, <2>6 DEF Item, Lines, ItemLine, IsWritten
  <2>8. Flat(ItemLinesOf, Cut(s, j)) = Append(Flat(ItemLinesOf, a), l)
    <3>1. Flat(ItemLinesOf, Cut(s, j)) = Flat(ItemLinesOf, a) \o <<l>>
      BY <1>4, <1>8, <2>1, <2>2, <2>3, <2>6 DEF Goes
    <3> QED
      BY <2>5, <2>7, <3>1, One
  <2>9. PICK p : p = j - 1
    OBVIOUS
  <2>10. Flat(WrittenItem, Cut(s, p)) = Flat(WrittenItem, a)
    <3>1. p \in n .. Len(s) /\ Nothings(ItemLinesOf, s, n, p)
      BY <1>8, <2>1, <2>9 DEF Goes
    <3>2. Nothings(WrittenItem, s, n, p)
      BY <1>3, <1>6, <3>1 DEF Nothings
    <3> QED
      BY <1>2, <1>5, <2>3, <3>1, <3>2, FlatSkips
  <2>11. Flat(WrittenItem, Cut(s, j)) = Append(Flat(WrittenItem, a), s[j])
    <3>1. PICK b : b = Cut(s, p)
      OBVIOUS
    <3>2. b \in Seq(Item) /\ Cut(s, j) = Append(b, s[j])
      BY <1>2, <2>1, <2>9, <3>1, Cuts
    <3>5. PICK w : w = s[j]
      OBVIOUS
    <3>6. w \in Item /\ Cut(s, j) = Append(b, w)
      BY <2>1, <3>2, <3>5
    <3>7. Flat(WrittenItem, Append(b, w)) = Flat(WrittenItem, b) \o WrittenItem[w]
      BY <1>5, <3>2, <3>6, FlatThen
    <3>3. Flat(WrittenItem, Cut(s, j)) = Flat(WrittenItem, b) \o WrittenItem[s[j]]
      BY <3>5, <3>6, <3>7
    <3>4. Flat(WrittenItem, Cut(s, j)) = Flat(WrittenItem, a) \o <<s[j]>>
      BY <1>4, <2>1, <2>2, <2>10, <3>1, <3>3
    <3> QED
      BY <2>1, <2>5, <3>4, One
  <2> QED
    BY <1>1, <2>2, <2>3, <2>6, <2>8, <2>11 DEF NextItem, ItemsShown, ItemsLoaded
<1> QED
  <2>1. Ends(ItemLinesOf, s, n) \/ \E j \in (n + 1) .. Len(s) : Goes(ItemLinesOf, s, n, j)
    BY <1>2, <1>5, FlatNext
  <2> QED
    BY <1>1, <1>7, <1>8, <2>1

(* All the nodes make what the list makes; what a section without a name   *)
(* makes is nothing in both.                                               *)
NextSection(m, k) ==
  /\ kept[k].name # ""
  /\ SavedLines(Cut(kept, k - 1)) = SavedLines(Cut(kept, m))
  /\ WrittenPart(Cut(kept, k - 1)) = WrittenPart(Cut(kept, m))

LEMMA SectionsNext ==
  ASSUME kept \in Seq(Section), NEW m \in 0 .. Len(kept)
  PROVE  \/ /\ SavedLines(Cut(kept, m)) = SavedLines(kept)
            /\ WrittenPart(Cut(kept, m)) = WrittenPart(kept)
         \/ \E k \in (m + 1) .. Len(kept) : NextSection(m, k)
<1>1. PICK s : s = kept
  OBVIOUS
<1>2. s \in Seq(Section) /\ m \in 0 .. Len(s)
  BY <1>1
<1>3. /\ Len(s) \in Nat /\ m \in Nat /\ Cut(s, Len(s)) = s
      /\ \A i \in 1 .. Len(s) : s[i] \in Section
  BY <1>2, LenProperties, Cuts
<1>4. \A i \in 1 .. Len(s) :
        /\ s[i].name # "" => LinesOf[s[i]] # << >>
        /\ s[i].name = "" => LinesOf[s[i]] = << >> /\ WrittenOf[s[i]] = << >>
  <2> SUFFICES ASSUME NEW i \in 1 .. Len(s)
               PROVE  /\ s[i].name # "" => LinesOf[s[i]] # << >>
                      /\ s[i].name = "" =>
                           LinesOf[s[i]] = << >> /\ WrittenOf[s[i]] = << >>
    OBVIOUS
  <2>1. PICK x : x = s[i]
    OBVIOUS
  <2>2. x \in Section /\ x.items \in Seq(Item) /\ x.name \in Sections
    BY <1>3, <2>1 DEF Section
  <2>3. x.name = "" => LinesOf[x] = << >> /\ WrittenOf[x] = << >>
    BY <2>2 DEF LinesOf, WrittenOf, SectionLines
  <2>4. ASSUME x.name # "" PROVE LinesOf[x] # << >>
    <3>1. PICK l : l = SectionLine(x.name)
      OBVIOUS
    <3>2. PICK r : r = ItemLines(x.items)
      OBVIOUS
    <3>3. LinesOf[x] = <<l>> \o r
      BY <2>2, <2>4, <3>1, <3>2 DEF LinesOf, SectionLines
    <3>4. r \in Seq(Lines)
      BY <2>2, <3>2, ItemsAre, FlatType
    <3>5. l \in Lines
      BY <2>2, <3>1 DEF Lines, SectionLine
    <3>6. /\ <<l>> \in Seq(Lines) /\ Len(<<l>>) = 1
          /\ Len(r) \in Nat /\ Len(<<l>> \o r) = Len(<<l>>) + Len(r)
      BY <3>4, <3>5, One, LenProperties, ConcatProperties
    <3>7. Len(<< >>) = 0
      BY EmptySeq
    <3> QED
      BY <3>3, <3>6, <3>7
  <2> QED
    BY <2>1, <2>3, <2>4
<1>9. \A i \in 1 .. Len(s) : LinesOf[s[i]] = << >> => WrittenOf[s[i]] = << >>
  BY <1>4, Zenon
<1>5. Makes(LinesOf, Section, Lines) /\ Makes(WrittenOf, Section, Section)
  BY SectionsAre
<1>6. \A n \in 0 .. Len(s) :
        /\ SavedLines(Cut(s, n)) = Flat(LinesOf, Cut(s, n))
        /\ WrittenPart(Cut(s, n)) = Flat(WrittenOf, Cut(s, n))
  BY <1>2, Cuts, SectionsAre
<1>7. CASE Ends(LinesOf, s, m)
  <2>1. Nothings(WrittenOf, s, m, Len(s))
    BY <1>3, <1>9, <1>7 DEF Ends, Nothings
  <2>2. Len(s) \in m .. Len(s) /\ Len(s) \in 0 .. Len(s)
    BY <1>2, <1>3
  <2>3. Flat(WrittenOf, Cut(s, Len(s))) = Flat(WrittenOf, Cut(s, m))
    BY <1>2, <1>5, <2>1, <2>2, FlatSkips
  <2> QED
    BY <1>1, <1>2, <1>3, <1>6, <1>7, <2>2, <2>3 DEF Ends
<1>8. ASSUME NEW k \in (m + 1) .. Len(s), Goes(LinesOf, s, m, k)
      PROVE  NextSection(m, k)
  <2>1. /\ k \in 1 .. Len(s) /\ k - 1 \in m .. Len(s)
        /\ k - 1 \in 0 .. Len(s)
    BY <1>2, <1>3
  <2>2. s[k].name # ""
    BY <1>4, <1>8, <2>1 DEF Goes
  <2>3. PICK p : p = k - 1
    OBVIOUS
  <2>4. /\ p \in m .. Len(s) /\ Nothings(LinesOf, s, m, p) /\ p \in 0 .. Len(s)
        /\ Flat(LinesOf, Cut(s, p)) = Flat(LinesOf, Cut(s, m))
    BY <1>8, <2>1, <2>3 DEF Goes
  <2>5. Nothings(WrittenOf, s, m, p)
    BY <1>3, <1>9, <2>4 DEF Nothings
  <2>6. Flat(WrittenOf, Cut(s, p)) = Flat(WrittenOf, Cut(s, m))
    BY <1>2, <1>5, <2>4, <2>5, FlatSkips
  <2> QED
    BY <1>1, <1>2, <1>6, <2>2, <2>3, <2>4, <2>6 DEF NextSection
<1> QED
  <2>1. \/ Ends(LinesOf, s, m)
        \/ \E k \in (m + 1) .. Len(s) : Goes(LinesOf, s, m, k)
    BY <1>2, <1>5, FlatNext
  <2> QED
    BY <1>1, <1>7, <1>8, <2>1

(* The file begins with what any part makes.                               *)
LEMMA CutBegins ==
  ASSUME kept \in Seq(Section), NEW m \in 0 .. Len(kept)
  PROVE  /\ Begins(SavedLines(kept), SavedLines(Cut(kept, m)))
         /\ SavedLines(kept) \in Seq(Lines)
         /\ SavedLines(Cut(kept, m)) \in Seq(Lines)
         /\ WrittenPart(Cut(kept, m)) \in Seq(Section)
         /\ Cut(kept, m) \in Seq(Section)
<1>1. PICK s : s = kept
  OBVIOUS
<1>2. s \in Seq(Section) /\ m \in 0 .. Len(s)
  BY <1>1
<1>3. Len(s) \in Nat /\ Len(s) \in m .. Len(s) /\ Cut(s, Len(s)) = s
  <2>1. Len(s) \in Nat /\ Cut(s, Len(s)) = s
    BY <1>2, LenProperties, Cuts
  <2> QED
    BY <1>2, <2>1
<1>4. PICK a : a = Cut(s, m)
  OBVIOUS
<1>5. a \in Seq(Section)
  BY <1>2, <1>4, Cuts
<1>6. /\ Makes(LinesOf, Section, Lines) /\ Makes(WrittenOf, Section, Section)
      /\ SavedLines(a) = Flat(LinesOf, a) /\ SavedLines(s) = Flat(LinesOf, s)
      /\ WrittenPart(a) = Flat(WrittenOf, a)
  BY <1>2, <1>5, SectionsAre
<1>7. /\ Flat(LinesOf, a) \in Seq(Lines) /\ Flat(LinesOf, s) \in Seq(Lines)
      /\ Flat(WrittenOf, a) \in Seq(Section)
  BY <1>2, <1>5, <1>6, FlatType
<1>8. Begins(Flat(LinesOf, Cut(s, Len(s))), Flat(LinesOf, Cut(s, m)))
  BY <1>2, <1>3, <1>6, FlatBegins
<1> QED
  BY <1>1, <1>3, <1>4, <1>5, <1>6, <1>7, <1>8

LEMMA BeginsBehind ==
  ASSUME NEW S, NEW a \in Seq(S), NEW b \in Seq(S), NEW c \in Seq(S),
         Begins(c, b)
  PROVE  /\ Begins(a \o c, a \o b)
         /\ Len(b) = Len(c) => b = c
<1>1. Len(a) \in Nat /\ Len(b) \in Nat /\ Len(c) \in Nat
  BY LenProperties
<1>2. PICK x : x = a \o b
  OBVIOUS
<1>3. PICK y : y = a \o c
  OBVIOUS
<1>4. /\ Len(x) = Len(a) + Len(b) /\ Len(y) = Len(a) + Len(c)
      /\ \A i \in 1 .. Len(x) :
           x[i] = IF i <= Len(a) THEN a[i] ELSE b[i - Len(a)]
      /\ \A i \in 1 .. Len(y) :
           y[i] = IF i <= Len(a) THEN a[i] ELSE c[i - Len(a)]
  BY <1>2, <1>3, ConcatProperties
<1>5. Len(b) <= Len(c) /\ \A i \in 1 .. Len(b) : b[i] = c[i]
  BY DEF Begins
<1>6. \A i \in 1 .. Len(x) : x[i] = y[i]
  <2> SUFFICES ASSUME NEW i \in 1 .. Len(x) PROVE x[i] = y[i]
    OBVIOUS
  <2>1. i \in 1 .. Len(y)
    BY <1>1, <1>4, <1>5
  <2>2. CASE i <= Len(a)
    BY <1>4, <2>1, <2>2
  <2>3. CASE ~(i <= Len(a))
    <3>1. i - Len(a) \in 1 .. Len(b)
      BY <1>1, <1>4, <2>3
    <3> QED
      BY <1>4, <1>5, <2>1, <2>3, <3>1
  <2> QED
    BY <2>2, <2>3
<1>7. Begins(a \o c, a \o b)
  BY <1>1, <1>2, <1>3, <1>4, <1>5, <1>6 DEF Begins
<1> QED
  BY <1>7, BeginsAll

LEMMA AppendBehind ==
  ASSUME NEW S, NEW b \in Seq(S), NEW h \in Seq(S), NEW v \in Seq(S),
         NEW l \in S
  PROVE  /\ b \o (h \o Append(v, l)) = Append(b \o (h \o v), l)
         /\ Append(b \o (h \o v), l) \in Seq(S)
<1>1. PICK z : z = <<l>>
  OBVIOUS
<1>2. z \in Seq(S) /\ Append(v, l) = v \o z
  BY <1>1, One
<1>3. PICK c : c = h \o v
  OBVIOUS
<1>4. c \in Seq(S) /\ b \o c \in Seq(S)
  BY <1>3, ConcatProperties
<1>8. \A s, t, u \in Seq(S) : (s \o t) \o u = s \o (t \o u)
  BY ConcatAssociative, SMTT(30)
<1>5. h \o (v \o z) = c \o z
  <2>1. (h \o v) \o z = h \o (v \o z)
    BY <1>2, <1>8, Zenon
  <2> QED
    BY <1>3, <2>1
<1>6. b \o (c \o z) = (b \o c) \o z
  BY <1>2, <1>4, <1>8, Zenon
<1>7. (b \o c) \o z = Append(b \o c, l)
  BY <1>1, <1>4, One
<1>9. Append(b \o c, l) \in Seq(S)
  BY <1>4, AppendProperties
<1> QED
  BY <1>2, <1>3, <1>5, <1>6, <1>7, <1>9

LEMMA PartBegins ==
  ASSUME kept \in Seq(Section), NEW m \in 1 .. Len(kept),
         NEW n \in 0 .. Len(kept[m].items), kept[m].name # ""
  PROVE  Begins(SavedLines(kept), SavedLines(Part(m, n)))
<1>0. Len(kept) \in Nat
  BY LenProperties
<1>1. PICK x : x = kept[m]
  OBVIOUS
<1>2. x \in Section /\ x.items \in Seq(Item)
  <2>1. kept[m] \in Section
    BY ElementOfSeq
  <2> QED
    BY <1>1, <2>1 DEF Section
<1>3. PICK N : N = Len(x.items)
  OBVIOUS
<1>4. N \in Nat /\ n \in 0 .. N /\ N \in n .. N /\ N \in 0 .. N
  <2>1. N \in Nat
    BY <1>2, <1>3, LenProperties
  <2>2. n \in 0 .. N
    BY <1>1, <1>3
  <2> QED
    BY <2>1, <2>2, UpTo, Zenon
<1>5. PICK a : a = SavedLines(Cut(kept, m - 1))
  OBVIOUS
<1>6. PICK h : h = <<SectionLine(x.name)>>
  OBVIOUS
<1>7. /\ SavedLines(Part(m, n)) = a \o (h \o ItemsShown(x, n))
      /\ a \in Seq(Lines) /\ ItemsShown(x, n) \in Seq(Lines)
  BY <1>1, <1>5, <1>6, PartIs
<1>8. /\ SavedLines(Part(m, N)) = a \o (h \o ItemsShown(x, N))
      /\ ItemsShown(x, N) \in Seq(Lines)
  <2>1. N \in 0 .. Len(kept[m].items)
    BY <1>1, <1>3, <1>4
  <2> QED
    BY <2>1, <1>1, <1>5, <1>6, PartIs
<1>9. h \in Seq(Lines)
  <2>1. SectionLine(x.name) \in Lines
    BY <1>2 DEF Section, Lines, SectionLine
  <2> QED
    BY <1>6, <2>1, One
<1>10. Begins(ItemsShown(x, N), ItemsShown(x, n))
  <2>1. Makes(ItemLinesOf, Item, Lines)
    BY ItemsAre
  <2>2. n \in 0 .. Len(x.items) /\ N \in n .. Len(x.items)
    BY <1>3, <1>4
  <2>3. Begins(Flat(ItemLinesOf, Cut(x.items, N)), Flat(ItemLinesOf, Cut(x.items, n)))
    BY <1>2, <2>1, <2>2, FlatBegins
  <2> QED
    BY <2>3 DEF ItemsShown
<1>11. PICK b : b = h \o ItemsShown(x, n)
  OBVIOUS
<1>12. PICK c : c = h \o ItemsShown(x, N)
  OBVIOUS
<1>13. b \in Seq(Lines) /\ c \in Seq(Lines) /\ Begins(c, b)
  BY <1>7, <1>8, <1>9, <1>10, <1>11, <1>12, BeginsBehind, ConcatProperties
<1>14. Begins(a \o c, a \o b)
  BY <1>7, <1>13, BeginsBehind
<1>15. SavedLines(Part(m, N)) = SavedLines(Cut(kept, m))
  BY <1>1, <1>3, PartAll
<1>16. /\ Begins(SavedLines(kept), SavedLines(Cut(kept, m)))
       /\ SavedLines(kept) \in Seq(Lines)
       /\ SavedLines(Cut(kept, m)) \in Seq(Lines)
  <2>1. m \in 0 .. Len(kept)
    BY <1>0, Before, Zenon
  <2> QED
    BY <2>1, CutBegins
<1>17. a \o b \in Seq(Lines) /\ a \o c \in Seq(Lines)
  BY <1>7, <1>13, ConcatProperties
<1> DEFINE r == a \o b
           q == a \o c
           t == SavedLines(kept)
<1>18. r = SavedLines(Part(m, n)) /\ q = SavedLines(Cut(kept, m))
  BY <1>7, <1>8, <1>11, <1>12, <1>15
<1> HIDE DEF r, q, t
<1>19. r \in Seq(Lines) /\ q \in Seq(Lines) /\ t \in Seq(Lines)
  BY <1>16, <1>17 DEF r, q, t
<1>20. Begins(q, r) /\ Begins(t, q)
  BY <1>14, <1>16, <1>18 DEF r, q, t
<1>21. Begins(t, r)
  BY <1>19, <1>20, BeginsAll
<1> QED
  BY <1>18, <1>21 DEF t

(* The names of what is loaded are those of what was saved so far.         *)
LEMMA LoadedNames ==
  ASSUME NEW x \in Section, NEW n \in 0 .. Len(x.items), Unique(x.items),
         NEW j \in (n + 1) .. Len(x.items)
  PROVE  Named(ItemsLoaded(x, n), x.items[j].name) = {}
<1>1. PICK s : s = x.items
  OBVIOUS
<1>2. s \in Seq(Item) /\ n \in 0 .. Len(s) /\ Unique(s) /\ Len(s) \in Nat
  BY <1>1, LenProperties DEF Section
<1>3. PICK f : f = ItemsLoaded(x, n)
  OBVIOUS
<1>4. ComesFrom(f, WrittenItem, s, n)
  <2>1. Makes(WrittenItem, Item, Item)
    BY ItemsAre
  <2>2. ComesFrom(Flat(WrittenItem, Cut(s, n)), WrittenItem, s, n)
    BY <1>2, <2>1, FlatFrom
  <2> QED
    BY <1>1, <1>3, <2>2 DEF ItemsLoaded
<1>5. ASSUME NEW i \in 1 .. Len(f) PROVE f[i].name # s[j].name
  <2>1. PICK k \in 1 .. n : \E h \in 1 .. Len(WrittenItem[s[k]]) :
          f[i] = WrittenItem[s[k]][h]
    BY <1>4 DEF ComesFrom
  <2>2. k \in 1 .. Len(s) /\ j \in 1 .. Len(s) /\ k # j /\ s[k] \in Item
    BY <1>1, <1>2
  <2>3. PICK y : y = s[k]
    OBVIOUS
  <2>4. y \in Item /\ WrittenItem[y] = IF IsWritten(y) THEN <<y>> ELSE << >>
    BY <2>2, <2>3 DEF WrittenItem
  <2>5. f[i] = y
    <3>1. Len(<< >>) = 0 /\ Len(<<y>>) = 1 /\ <<y>>[1] = y
      BY EmptySeq
    <3> QED
      BY <2>1, <2>3, <2>4, <3>1
  <2> QED
    BY <1>2, <2>2, <2>3, <2>5 DEF Unique
<1> QED
  BY <1>1, <1>3, <1>5 DEF Named

LEMMA WrittenNames ==
  ASSUME kept \in Seq(Section), Unique(kept), NEW m \in 0 .. Len(kept),
         NEW k \in (m + 1) .. Len(kept)
  PROVE  Named(WrittenPart(Cut(kept, m)), kept[k].name) = {}
<1>1. PICK s : s = kept
  OBVIOUS
<1>2. s \in Seq(Section) /\ m \in 0 .. Len(s) /\ Unique(s) /\ Len(s) \in Nat
  BY <1>1, LenProperties
<1>3. PICK f : f = WrittenPart(Cut(s, m))
  OBVIOUS
<1>4. ComesFrom(f, WrittenOf, s, m)
  <2>1. Makes(WrittenOf, Section, Section)
    BY SectionsAre
  <2>2. ComesFrom(Flat(WrittenOf, Cut(s, m)), WrittenOf, s, m)
    BY <1>2, <2>1, FlatFrom
  <2>3. WrittenPart(Cut(s, m)) = Flat(WrittenOf, Cut(s, m))
    BY <1>2, Cuts, SectionsAre
  <2> QED
    BY <1>3, <2>2, <2>3
<1>5. ASSUME NEW i \in 1 .. Len(f) PROVE f[i].name # s[k].name
  <2>1. PICK g \in 1 .. m : \E h \in 1 .. Len(WrittenOf[s[g]]) :
          f[i] = WrittenOf[s[g]][h]
    BY <1>4 DEF ComesFrom
  <2>2. g \in 1 .. Len(s) /\ k \in 1 .. Len(s) /\ g # k /\ s[g] \in Section
    BY <1>1, <1>2
  <2>3. PICK y : y = s[g]
    OBVIOUS
  <2>4. PICK z : z = [y EXCEPT !.items = WrittenItems(@)]
    OBVIOUS
  <2>5. /\ y \in Section /\ z.name = y.name
        /\ WrittenOf[y] = IF y.name = "" THEN << >> ELSE <<z>>
    BY <2>2, <2>3, <2>4 DEF WrittenOf, Section
  <2>6. f[i] = z
    <3>1. Len(<< >>) = 0 /\ Len(<<z>>) = 1 /\ <<z>>[1] = z
      BY EmptySeq
    <3>2. PICK w : w = WrittenOf[y]
      OBVIOUS
    <3>3. w = << >> \/ w = <<z>>
      BY <2>5, <3>2, Zenon
    <3>4. PICK h \in 1 .. Len(w) : f[i] = w[h]
      BY <2>1, <2>3, <3>2
    <3>5. w # << >>
      BY <3>1, <3>4
    <3>6. w = <<z>>
      BY <3>3, <3>5
    <3>7. h = 1
      BY <3>1, <3>4, <3>6
    <3> QED
      BY <3>1, <3>4, <3>6, <3>7
  <2> QED
    BY <1>2, <2>2, <2>3, <2>5, <2>6 DEF Unique
<1> QED
  BY <1>1, <1>3, <1>5 DEF Named

-----------------------------------------------------------------------------
(* What comes next in a saved file that has been read up to some part.     *)
AllRead == lines = SavedLines(kept) /\ secs = WrittenPart(kept)

SectionComes(k) ==
  /\ kept[k].name # ""
  /\ SavedLines(Part(k, 0)) = Append(lines, SectionLine(kept[k].name))
  /\ WrittenPart(Part(k, 0)) = Append(secs, NewSection(kept[k].name))
  /\ Named(secs, kept[k].name) = {}
  /\ Begins(SavedLines(kept), SavedLines(Part(k, 0)))

ItemComes(m, j, a, x) ==
  LET item == kept[m].items[j]
  IN /\ IsWritten(item)
     /\ curSec = kept[m].name /\ curSec # ""
     /\ SavedLines(Part(m, j)) = Append(lines, ItemLine(item.name, item.value))
     /\ secs = Append(a, [kept[m] EXCEPT !.items = x])
     /\ WrittenPart(Part(m, j))
          = Append(a, [kept[m] EXCEPT !.items = Append(x, item)])
     /\ Named(x, item.name) = {}
     /\ Begins(SavedLines(kept), SavedLines(Part(m, j)))

KeptOK ==
  /\ kept \in Seq(Section)
  /\ Unique(kept) /\ \A i \in 1 .. Len(kept) : Unique(kept[i].items)

LEMMA SectionNext ==
  ASSUME KeptOK, NEW m \in 0 .. Len(kept),
         lines = SavedLines(Cut(kept, m)), secs = WrittenPart(Cut(kept, m))
  PROVE  AllRead \/ \E k \in 1 .. Len(kept) : SectionComes(k)
<1>1. kept \in Seq(Section) /\ Unique(kept) /\ Len(kept) \in Nat
  BY LenProperties DEF KeptOK
<1>2. CASE /\ SavedLines(Cut(kept, m)) = SavedLines(kept)
           /\ WrittenPart(Cut(kept, m)) = WrittenPart(kept)
  BY <1>2 DEF AllRead
<1>3. ASSUME NEW k \in (m + 1) .. Len(kept), NextSection(m, k)
      PROVE  k \in 1 .. Len(kept) /\ SectionComes(k)
  <2>1. k \in 1 .. Len(kept)
    BY <1>1
  <2>2. PICK x : x = kept[k]
    OBVIOUS
  <2>3. x \in Section /\ x.items \in Seq(Item)
    <3>1. kept[k] \in Section
      BY <1>1, <2>1, ElementOfSeq
    <3> QED
      BY <2>2, <3>1 DEF Section
  <2>4. x.name # ""
    BY <1>3, <2>2 DEF NextSection
  <2>5. 0 \in 0 .. Len(x.items)
    BY <2>3, LenProperties
  <2>6. /\ SavedLines(Part(k, 0))
             = SavedLines(Cut(kept, k - 1))
                 \o (<<SectionLine(x.name)>> \o ItemsShown(x, 0))
        /\ WrittenPart(Part(k, 0))
             = Append(WrittenPart(Cut(kept, k - 1)),
                      [x EXCEPT !.items = ItemsLoaded(x, 0)])
        /\ SavedLines(Cut(kept, k - 1)) \in Seq(Lines)
    BY <1>1, <2>1, <2>2, <2>4, <2>5, PartIs
  <2>7. ItemsShown(x, 0) = << >> /\ ItemsLoaded(x, 0) = << >>
    <3>1. Cut(x.items, 0) = << >>
      BY <2>3, Cuts
    <3> QED
      BY <3>1, FlatNone DEF ItemsShown, ItemsLoaded
  <2>8. [x EXCEPT !.items = << >>] = NewSection(x.name)
    BY <2>3 DEF Section, NewSection
  <2>9. PICK h : h = SectionLine(x.name)
    OBVIOUS
  <2>10. h \in Lines
    BY <2>3, <2>9 DEF Section, Lines, SectionLine
  <2>11. /\ SavedLines(Cut(kept, k - 1)) = lines
         /\ WrittenPart(Cut(kept, k - 1)) = secs
    BY <1>3 DEF NextSection
  <2>12. lines \in Seq(Lines)
    BY <2>6, <2>11
  <2>13. <<h>> \o << >> = <<h>> /\ lines \o <<h>> = Append(lines, h)
    BY <2>10, <2>12, One, ConcatEmptySeq
  <2>14. SavedLines(Part(k, 0)) = Append(lines, h)
    BY <2>6, <2>7, <2>9, <2>11, <2>13
  <2>15. WrittenPart(Part(k, 0)) = Append(secs, NewSection(x.name))
    BY <2>6, <2>7, <2>8, <2>11
  <2>16. Named(secs, x.name) = {}
    BY <1>1, <2>2, WrittenNames
  <2>17. Begins(SavedLines(kept), SavedLines(Part(k, 0)))
    BY <1>1, <2>1, <2>2, <2>4, <2>5, PartBegins
  <2> QED
    BY <2>1, <2>2, <2>4, <2>9, <2>14, <2>15, <2>16, <2>17 DEF SectionComes
<1> QED
  <2>1. \/ /\ SavedLines(Cut(kept, m)) = SavedLines(kept)
           /\ WrittenPart(Cut(kept, m)) = WrittenPart(kept)
        \/ \E k \in (m + 1) .. Len(kept) : NextSection(m, k)
    BY <1>1, SectionsNext
  <2> QED
    BY <1>2, <1>3, <2>1

LEMMA NextLine ==
  ASSUME KeptOK,
         \/ NothingRead
         \/ \E m \in 1 .. Len(kept) :
              \E n \in 0 .. Len(kept[m].items) : PartRead(m, n)
  PROVE  \/ AllRead
         \/ \E k \in 1 .. Len(kept) : SectionComes(k)
         \/ \E m \in 1 .. Len(kept) : \E j \in 1 .. Len(kept[m].items) :
              \E a \in Seq(Section), x \in Seq(Item) : ItemComes(m, j, a, x)
<1>1. kept \in Seq(Section) /\ Len(kept) \in Nat
  BY LenProperties DEF KeptOK
<1>2. CASE NothingRead
  <2>1. 0 \in 0 .. Len(kept) /\ Cut(kept, 0) = << >>
    BY <1>1, Cuts
  <2>2. SavedLines(<< >>) = << >> /\ WrittenPart(<< >>) = << >>
    <3>1. << >> \in Seq(Section)
      BY EmptySeq
    <3> QED
      BY <3>1, SectionsAre, FlatNone
  <2>3. lines = SavedLines(Cut(kept, 0)) /\ secs = WrittenPart(Cut(kept, 0))
    BY <1>2, <2>1, <2>2 DEF NothingRead
  <2> QED
    BY <2>1, <2>3, SectionNext
<1>3. ASSUME NEW m \in 1 .. Len(kept), NEW n \in 0 .. Len(kept[m].items),
             PartRead(m, n)
      PROVE  \/ AllRead
             \/ \E k \in 1 .. Len(kept) : SectionComes(k)
             \/ \E j \in 1 .. Len(kept[m].items) :
                  \E a \in Seq(Section), x \in Seq(Item) :
                    ItemComes(m, j, a, x)
  <2>1. PICK y : y = kept[m]
    OBVIOUS
  <2>2. y \in Section /\ y.items \in Seq(Item) /\ Unique(y.items)
    <3>1. kept[m] \in Section
      BY <1>1, ElementOfSeq
    <3> QED
      BY <2>1, <3>1 DEF Section, KeptOK
  <2>3. y.name # "" /\ n \in 0 .. Len(y.items)
    BY <1>3, <2>1 DEF PartRead
  <2>4. PICK b : b = SavedLines(Cut(kept, m - 1))
    OBVIOUS
  <2>5. PICK a : a = WrittenPart(Cut(kept, m - 1))
    OBVIOUS
  <2>6. PICK h : h = <<SectionLine(y.name)>>
    OBVIOUS
  <2>7. \A i \in 0 .. Len(y.items) :
          /\ SavedLines(Part(m, i)) = b \o (h \o ItemsShown(y, i))
          /\ WrittenPart(Part(m, i))
               = Append(a, [y EXCEPT !.items = ItemsLoaded(y, i)])
          /\ b \in Seq(Lines) /\ a \in Seq(Section)
          /\ ItemsShown(y, i) \in Seq(Lines) /\ ItemsLoaded(y, i) \in Seq(Item)
    BY <1>1, <2>1, <2>3, <2>4, <2>5, <2>6, PartIs
  <2>8. /\ lines = SavedLines(Part(m, n)) /\ secs = WrittenPart(Part(m, n))
        /\ curSec = y.name /\ curSec # ""
    BY <1>3, <2>1 DEF PartRead
  <2>9. CASE /\ ItemsShown(y, n) = ItemsShown(y, Len(y.items))
             /\ ItemsLoaded(y, n) = ItemsLoaded(y, Len(y.items))
    <3>1. Len(y.items) \in 0 .. Len(y.items)
      BY <2>2, LenProperties
    <3>2. Part(m, Len(y.items)) = Cut(kept, m)
      BY <1>1, <2>1, PartAll
    <3>3. lines = SavedLines(Cut(kept, m)) /\ secs = WrittenPart(Cut(kept, m))
      BY <2>3, <2>7, <2>8, <2>9, <3>1, <3>2
    <3>4. m \in 0 .. Len(kept)
      BY <1>1, Before, Zenon
    <3> QED
      BY <3>3, <3>4, SectionNext
  <2>10. ASSUME NEW j \in (n + 1) .. Len(y.items), NextItem(y, n, j)
         PROVE  \E i \in 1 .. Len(kept[m].items) :
                  \E c \in Seq(Section), x \in Seq(Item) : ItemComes(m, i, c, x)
    <3>1. Len(y.items) \in Nat
      BY <2>2, LenProperties
    <3>2. j \in 1 .. Len(y.items) /\ j \in 0 .. Len(y.items)
      BY <2>3, <3>1, UpFrom, Zenon
    <3>3. PICK w : w = y.items[j]
      OBVIOUS
    <3>4. PICK x : x = ItemsLoaded(y, n)
      OBVIOUS
    <3>5. PICK v : v = ItemsShown(y, n)
      OBVIOUS
    <3>6. PICK l : l = ItemLine(w.name, w.value)
      OBVIOUS
    <3>7. /\ IsWritten(w) /\ ItemsShown(y, j) = Append(v, l)
          /\ ItemsLoaded(y, j) = Append(x, w)
      BY <2>10, <3>3, <3>4, <3>5, <3>6 DEF NextItem
    <3>8. /\ b \in Seq(Lines) /\ a \in Seq(Section) /\ v \in Seq(Lines)
          /\ x \in Seq(Item)
      BY <2>3, <2>7, <3>4, <3>5
    <3>9. l \in Lines /\ h \in Seq(Lines)
      <4>1. w \in Item
        BY <2>2, <3>2, <3>3, ElementOfSeq
      <4>2. l \in Lines
        BY <3>6, <3>7, <4>1 DEF Item, Lines, ItemLine, IsWritten
      <4>3. SectionLine(y.name) \in Lines
        BY <2>2 DEF Section, Lines, SectionLine
      <4> QED
        BY <2>6, <4>2, <4>3, One
    <3>10. /\ b \o (h \o Append(v, l)) = Append(b \o (h \o v), l)
           /\ Append(b \o (h \o v), l) \in Seq(Lines)
      BY <3>8, <3>9, AppendBehind
    <3>11. SavedLines(Part(m, j)) = Append(lines, l)
      BY <2>3, <2>7, <2>8, <3>2, <3>5, <3>7, <3>10
    <3>12. /\ secs = Append(a, [y EXCEPT !.items = x])
           /\ WrittenPart(Part(m, j))
                = Append(a, [y EXCEPT !.items = Append(x, w)])
      BY <2>3, <2>7, <2>8, <3>2, <3>4, <3>7
    <3>13. Named(x, w.name) = {}
      BY <2>2, <2>3, <3>3, <3>4, LoadedNames
    <3>14. Begins(SavedLines(kept), SavedLines(Part(m, j)))
      <4>1. j \in 0 .. Len(kept[m].items) /\ kept[m].name # ""
        BY <2>1, <2>3, <3>2
      <4> QED
        BY <1>1, <4>1, PartBegins
    <3>15. ItemComes(m, j, a, x)
      BY <2>1, <2>8, <3>3, <3>6, <3>7, <3>11, <3>12, <3>13, <3>14 DEF ItemComes
    <3> QED
      BY <2>1, <3>2, <3>8, <3>15
  <2>11. \/ /\ ItemsShown(y, n) = ItemsShown(y, Len(y.items))
            /\ ItemsLoaded(y, n) = ItemsLoaded(y, Len(y.items))
         \/ \E j \in (n + 1) .. Len(y.items) : NextItem(y, n, j)
    BY <2>2, <2>3, ItemsNext
  <2> QED
    BY <2>9, <2>10, <2>11
<1> QED
  BY <1>2, <1>3

-----------------------------------------------------------------------------
(* The steps.                                                              *)

(* A line of the file that has not been read.                              *)
LEMMA LineThen ==
  ASSUME NEW S, NEW s \in Seq(S), NEW f \in Seq(S), NEW l \in Seq(S),
         Begins(s, f), Begins(f, l), Len(l) < Len(f), NEW y,
         Append(l, y) \in Seq(S), Begins(s, Append(l, y))
  PROVE  f[Len(l) + 1] = y /\ Begins(f, Append(l, y))
<1>1. Len(s) \in Nat /\ Len(f) \in Nat /\ Len(l) \in Nat
  BY LenProperties
<1>2. PICK t : t = Append(l, y)
  OBVIOUS
<1>3. /\ Len(t) = Len(l) + 1 /\ t[Len(l) + 1] = y
      /\ \A i \in 1 .. Len(l) : t[i] = l[i]
  <2>1. y \in S \cup {y} /\ l \in Seq(S \cup {y})
    BY ElementOfSeq, SeqDef
  <2> QED
    BY <1>2, <2>1, AppendProperties
<1>4. PICK p : p = Len(l) + 1
  OBVIOUS
<1>5. p \in 1 .. Len(t) /\ p \in 1 .. Len(f)
  BY <1>1, <1>3, <1>4
<1>6. t[p] = s[p] /\ f[p] = s[p]
  BY <1>2, <1>5 DEF Begins
<1>7. \A i \in 1 .. Len(t) : t[i] = f[i]
  <2> SUFFICES ASSUME NEW i \in 1 .. Len(t) PROVE t[i] = f[i]
    OBVIOUS
  <2>1. i \in 1 .. Len(f)
    BY <1>1, <1>3
  <2> QED
    BY <1>2, <2>1 DEF Begins
<1> QED
  BY <1>1, <1>2, <1>3, <1>4, <1>6, <1>7 DEF Begins

LEMMA SavedKept ==
  SavedOK /\ TypeOK /\ file # NotSaved =>
    /\ KeptOK /\ file \in Seq(Lines)
    /\ SavedLines(kept) \in Seq(Lines)
    /\ Begins(SavedLines(kept), file)
    /\ phase \in {"first", "get"} => lines \in Seq(Lines) /\ Begins(file, lines)
<1> SUFFICES ASSUME SavedOK, TypeOK, file # NotSaved
             PROVE  /\ KeptOK /\ file \in Seq(Lines)
                    /\ SavedLines(kept) \in Seq(Lines)
                    /\ Begins(SavedLines(kept), file)
                    /\ phase \in {"first", "get"} =>
                         lines \in Seq(Lines) /\ Begins(file, lines)
  OBVIOUS
<1>1. KeptOK /\ file \in Seq(Lines)
  BY DEF SavedOK, TypeOK, KeptOK
<1>2. SavedLines(kept) \in Seq(Lines)
  BY <1>1, SectionsAre, FlatType DEF KeptOK
<1>3. Begins(SavedLines(kept), file)
  BY <1>1, <1>2, PrefixIs DEF SavedOK
<1>4. ASSUME phase \in {"first", "get"}
      PROVE  lines \in Seq(Lines) /\ Begins(file, lines)
  <2>1. SavedLines(secs) = lines /\ IsPrefix(lines, file)
    BY <1>4 DEF SavedOK
  <2>2. lines \in Seq(Lines)
    BY <2>1, SectionsAre, FlatType DEF TypeOK
  <2> QED
    BY <1>1, <2>1, <2>2, PrefixIs
<1> QED
  BY <1>1, <1>2, <1>3, <1>4

(* The file and the phase do not change, or nothing is being loaded.       *)
LEMMA SavedStays ==
  ASSUME SavedOK, UNCHANGED <<file, kept>>,
         \/ UNCHANGED <<phase, secs, curSec, path, lines>>
         \/ phase' \in {"edit", "args", "ok", "fail", "exit", "crash"}
  PROVE  SavedOK'
<1>1. CASE UNCHANGED <<phase, secs, curSec, path, lines>>
  BY <1>1 DEF SavedOK, NothingRead, PartRead, Part, Unique
<1>2. CASE phase' \in {"edit", "args", "ok", "fail", "exit", "crash"}
  BY <1>2 DEF SavedOK, Unique
<1> QED
  BY <1>1, <1>2

(* The file that is saved has the beginning of the lines of its list.      *)
LEMMA SaveStep ==
  ASSUME ConfInv, SaveAny
  PROVE  SavedOK'
<1>1. secs \in Seq(Section) /\ Unique(secs)
      /\ \A i \in 1 .. Len(secs) : Unique(secs[i].items)
  <2>1. Tidy(secs)
    BY InvTidy
  <2> QED
    BY <2>1, SetOf DEF Tidy
<1>2. PICK part \in {secs} \cup {<<secs[i]>> : i \in 1 .. Len(secs)},
           n \in 0 .. MaxEdits : Save(part, n)
  BY DEF SaveAny
<1>3. /\ part \in Seq(Section) /\ Unique(part)
      /\ \A i \in 1 .. Len(part) : Unique(part[i].items)
  <2>1. CASE part = secs
    BY <1>1, <2>1
  <2>2. ASSUME NEW i \in 1 .. Len(secs), part = <<secs[i]>>
        PROVE  /\ part \in Seq(Section) /\ Unique(part)
               /\ \A j \in 1 .. Len(part) : Unique(part[j].items)
    <3>1. PICK x : x = secs[i]
      OBVIOUS
    <3>2. x \in Section /\ Unique(x.items)
      BY <1>1, <3>1, ElementOfSeq
    <3>3. part = <<x>> /\ Len(part) = 1 /\ part[1] = x
      BY <2>2, <3>1
    <3>4. part \in Seq(Section) /\ Unique(part)
      BY <3>2, <3>3, Single
    <3> QED
      BY <3>2, <3>3, <3>4
  <2> QED
    BY <2>1, <2>2
<1>4. PICK s : s = SavedLines(part)
  OBVIOUS
<1>5. s \in Seq(Lines) /\ Len(s) \in Nat
  BY <1>3, <1>4, SectionsAre, FlatType, LenProperties
<1>6. n \in 0 .. Len(s) /\ file' = Cut(s, n) /\ kept' = part /\ phase' = "args"
  <2>1. n \in Nat
    BY ConfAssumption
  <2> QED
    BY <1>2, <1>4, <1>5, <2>1 DEF Save, Cut
<1>7. /\ file' \in Seq(Lines) /\ Len(file') = n
      /\ \A i \in 1 .. n : file'[i] = s[i]
  BY <1>5, <1>6, Cuts
<1>8. IsPrefix(file', s)
  <2>1. Begins(s, file')
    BY <1>5, <1>6, <1>7 DEF Begins
  <2> QED
    BY <1>5, <1>7, <2>1, PrefixIs
<1> QED
  BY <1>3, <1>4, <1>6, <1>7, <1>8 DEF SavedOK, Unique

LEMMA OptionsStep ==
  ASSUME ConfInv, SavedOK, OptionsEnd
  PROVE  SavedOK'
<1>1. CASE path = SavedPath
  <2>1. /\ phase' = "first" /\ lines' = << >> /\ secs' = << >>
        /\ curSec' = NoSection /\ path' = path
        /\ UNCHANGED <<file, kept>>
    BY <1>1 DEF OptionsEnd, ConfInv, PhaseOK, mainVars, fileVars
  <2>2. SavedLines(<< >>) = << >>
    <3>1. << >> \in Seq(Section)
      BY EmptySeq
    <3> QED
      BY <3>1, SectionsAre, FlatNone
  <2>3. file # NotSaved => IsPrefix(<< >>, file)
    <3> SUFFICES ASSUME file # NotSaved PROVE IsPrefix(<< >>, file)
      OBVIOUS
    <3>1. file \in Seq(Lines) /\ << >> \in Seq(Lines)
      BY EmptySeq DEF SavedOK
    <3>2. Begins(file, << >>)
      BY <3>1, EmptySeq, LenProperties DEF Begins
    <3> QED
      BY <3>1, <3>2, PrefixIs
  <2> QED
    BY <1>1, <2>1, <2>2, <2>3 DEF SavedOK, NothingRead, Unique
<1>2. CASE path # SavedPath
  BY <1>2 DEF OptionsEnd, ForgetSaved, SavedOK
<1> QED
  BY <1>1, <1>2

LEMMA EndOfSaved ==
  ASSUME ConfInv, SavedOK, EndOfFile
  PROVE  SavedOK'
<1> SUFFICES ASSUME file' # NotSaved
             PROVE  SavedOK'
  BY DEF SavedOK
<1>1. /\ UNCHANGED <<file, kept, lines, secs, curSec, path>>
      /\ phase' = "get" /\ Loading /\ Len(lines) >= Len(Known)
  BY DEF EndOfFile, mainVars, fileVars
<1>2. file # NotSaved
  BY <1>1
<1>3. phase = "first" /\ path = SavedPath /\ Known = file
  BY <1>1, <1>2 DEF SavedOK, Loading, Known
<1>4. /\ file \in Seq(Lines) /\ lines \in Seq(Lines) /\ Begins(file, lines)
  BY <1>2, <1>3, SavedKept DEF ConfInv
<1>5. lines = file
  <2>1. Len(lines) = Len(file)
    BY <1>1, <1>3, <1>4, LenProperties DEF Begins
  <2> QED
    BY <1>4, <2>1, BeginsAll
<1>6. /\ IsPrefix(lines, file) /\ SavedLines(secs) = lines
      /\ \/ NothingRead
         \/ \E m \in 1 .. Len(kept) :
              \E n \in 0 .. Len(kept[m].items) : PartRead(m, n)
  BY <1>2, <1>3 DEF SavedOK
<1>7. \/ NothingRead'
      \/ \E m \in 1 .. Len(kept') :
           \E n \in 0 .. Len(kept'[m].items) : PartRead(m, n)'
  BY <1>1, <1>6 DEF NothingRead, PartRead, Part
<1> QED
  BY <1>1, <1>2, <1>5, <1>6, <1>7 DEF SavedOK, Unique

(* The line that is read is the one that comes.                            *)
LEMMA KnownLine ==
  ASSUME ConfInv, SavedOK, file # NotSaved, NEW l, LineIs(l)
  PROVE  /\ phase = "first" /\ path = SavedPath
         /\ KeptOK /\ lines \in Seq(Lines) /\ file \in Seq(Lines)
         /\ SavedLines(secs) = lines
         /\ \/ \E k \in 1 .. Len(kept) :
                 /\ SectionComes(k) /\ l = SectionLine(kept[k].name)
                 /\ IsPrefix(Append(lines, l), file)
            \/ \E m \in 1 .. Len(kept) : \E j \in 1 .. Len(kept[m].items) :
                 \E a \in Seq(Section), x \in Seq(Item) :
                   /\ ItemComes(m, j, a, x)
                   /\ l = ItemLine(kept[m].items[j].name, kept[m].items[j].value)
                   /\ IsPrefix(Append(lines, l), file)
<1>1. phase = "first" /\ path = SavedPath /\ Known = file
  BY DEF SavedOK, Loading, Known, LineIs
<1>2. PICK s : s = SavedLines(kept)
  OBVIOUS
<1>3. /\ KeptOK /\ lines \in Seq(Lines) /\ file \in Seq(Lines)
      /\ s \in Seq(Lines) /\ Begins(s, file) /\ Begins(file, lines)
  BY <1>1, <1>2, SavedKept DEF ConfInv
<1>4. Len(lines) \in Nat /\ Len(file) \in Nat /\ Len(s) \in Nat
  BY <1>3, LenProperties
<1>5. Len(lines) < Len(file) /\ l = file[Len(lines) + 1]
  BY <1>1, <1>4 DEF LineIs, Open
<1>6. SavedLines(secs) = lines
  BY <1>1 DEF SavedOK
<1>7. ~AllRead
  BY <1>2, <1>3, <1>4, <1>5 DEF AllRead, Begins
<1>8. ASSUME NEW y, Append(lines, y) \in Seq(Lines), Begins(s, Append(lines, y))
      PROVE  l = y /\ IsPrefix(Append(lines, l), file)
  <2>1. file[Len(lines) + 1] = y /\ Begins(file, Append(lines, y))
    BY <1>3, <1>5, <1>8, LineThen
  <2> QED
    BY <1>3, <1>5, <1>8, <2>1, PrefixIs
<1>9. \/ \E k \in 1 .. Len(kept) : SectionComes(k)
      \/ \E m \in 1 .. Len(kept) : \E j \in 1 .. Len(kept[m].items) :
           \E a \in Seq(Section), x \in Seq(Item) : ItemComes(m, j, a, x)
  BY <1>1, <1>3, <1>7, NextLine DEF SavedOK
<1>10. \A y \in Lines : Append(lines, y) \in Seq(Lines)
  BY <1>3, AppendProperties
<1>11. ASSUME NEW k \in 1 .. Len(kept), SectionComes(k)
       PROVE  /\ l = SectionLine(kept[k].name)
              /\ IsPrefix(Append(lines, l), file)
  <2>1. kept[k] \in Section
    BY <1>3, ElementOfSeq DEF KeptOK
  <2>2. SectionLine(kept[k].name) \in Lines
    BY <2>1 DEF Section, Lines, SectionLine
  <2>3. Begins(s, Append(lines, SectionLine(kept[k].name)))
    BY <1>2, <1>11 DEF SectionComes
  <2> QED
    BY <1>8, <1>10, <2>2, <2>3
<1>12. ASSUME NEW m \in 1 .. Len(kept), NEW j \in 1 .. Len(kept[m].items),
              NEW a \in Seq(Section), NEW x \in Seq(Item), ItemComes(m, j, a, x)
       PROVE  /\ l = ItemLine(kept[m].items[j].name, kept[m].items[j].value)
              /\ IsPrefix(Append(lines, l), file)
  <2>1. PICK w : w = kept[m].items[j]
    OBVIOUS
  <2>2. w \in Item
    <3>1. kept[m] \in Section
      BY <1>3, ElementOfSeq DEF KeptOK
    <3>2. kept[m].items \in Seq(Item)
      BY <3>1 DEF Section
    <3> QED
      BY <2>1, <3>2, ElementOfSeq
  <2>3. /\ IsWritten(w)
        /\ Begins(s, Append(lines, ItemLine(w.name, w.value)))
    BY <1>2, <1>12, <2>1 DEF ItemComes
  <2>4. ItemLine(w.name, w.value) \in Lines
    BY <2>2, <2>3 DEF Item, Lines, ItemLine, IsWritten
  <2> QED
    BY <1>8, <1>10, <2>1, <2>3, <2>4
<1> QED
  BY <1>1, <1>3, <1>6, <1>9, <1>11, <1>12

(* A new section has its header in what a save would make.                 *)
LEMMA SectionSaved ==
  ASSUME ConfInv, SavedOK, file # NotSaved, NEW name, ReadSection(name)
  PROVE  SavedOK'
<1>1. PICK l : l = SectionLine(name)
  OBVIOUS
<1>2. /\ LineIs(l) /\ lines' = Append(lines, l)
      /\ UNCHANGED <<phase, path, file, kept>>
      /\ secs' = InsertSection(secs, name) /\ curSec' = name
  BY <1>1 DEF ReadSection, ReadLine, mainVars, fileVars
<1>3. /\ phase = "first" /\ path = SavedPath
      /\ KeptOK /\ lines \in Seq(Lines) /\ file \in Seq(Lines)
      /\ SavedLines(secs) = lines
  BY <1>2, KnownLine
<1>4. PICK k \in 1 .. Len(kept) :
        /\ SectionComes(k) /\ l = SectionLine(kept[k].name)
        /\ IsPrefix(Append(lines, l), file)
  BY <1>1, <1>2, KnownLine DEF SectionLine, ItemLine
<1>5. kept[k].name = name
  BY <1>1, <1>4 DEF SectionLine
<1>6. /\ name # "" /\ Named(secs, name) = {}
      /\ SavedLines(Part(k, 0)) = lines'
      /\ WrittenPart(Part(k, 0)) = Append(secs, NewSection(name))
  BY <1>1, <1>2, <1>4, <1>5 DEF SectionComes
<1>7. secs' = Append(secs, NewSection(name))
  BY <1>2, <1>6 DEF InsertSection
<1>8. SavedLines(secs') = lines'
  <2>1. secs \in Seq(Section)
    BY DEF ConfInv, TypeOK
  <2>2. PICK y : y = NewSection(name)
    OBVIOUS
  <2>3. y \in Section /\ y.name = name /\ y.items = << >>
    <3>1. kept[k] \in Section
      BY <1>3, ElementOfSeq DEF KeptOK
    <3>2. name \in Sections /\ << >> \in Seq(Item)
      BY <1>5, <3>1, EmptySeq DEF Section
    <3> QED
      BY <2>2, <3>2 DEF NewSection, Section
  <2>4. SavedLines(Append(secs, y))
          = SavedLines(secs)
              \o (<<SectionLine(y.name)>> \o Flat(ItemLinesOf, y.items))
    BY <1>6, <2>1, <2>3, SectionThen
  <2>5. l \in Lines
    BY <1>1, <2>3 DEF Section, Lines, SectionLine
  <2>6. Flat(ItemLinesOf, << >>) = << >>
    BY FlatNone
  <2>7. <<l>> \o << >> = <<l>> /\ lines \o <<l>> = Append(lines, l)
    BY <1>3, <2>5, One, ConcatEmptySeq
  <2> QED
    BY <1>1, <1>2, <1>3, <1>7, <2>2, <2>3, <2>4, <2>6, <2>7
<1>9. PartRead(k, 0)'
  BY <1>2, <1>5, <1>6, <1>7 DEF PartRead, Part
<1>10. 0 \in 0 .. Len(kept[k].items)
  <2>1. kept[k] \in Section
    BY <1>3, ElementOfSeq DEF KeptOK
  <2>2. kept[k].items \in Seq(Item)
    BY <2>1 DEF Section
  <2>3. Len(kept[k].items) \in Nat
    BY <2>2, LenProperties
  <2> QED
    BY <2>3
<1>11. \E m \in 1 .. Len(kept') :
         \E n \in 0 .. Len(kept'[m].items) : PartRead(m, n)'
  BY <1>2, <1>9, <1>10
<1>12. IsPrefix(lines', file')
  BY <1>2, <1>4
<1> QED
  BY <1>2, <1>3, <1>8, <1>11, <1>12 DEF SavedOK, Unique

(* The current section is the last of the list.                            *)
LEMMA LastFound ==
  ASSUME NEW a \in Seq(Section), NEW y \in Section, Unique(Append(a, y))
  PROVE  /\ FirstNamed(Append(a, y), y.name) = Len(a) + 1
         /\ Append(a, y)[Len(a) + 1] = y
         /\ \A z : [Append(a, y) EXCEPT ![Len(a) + 1] = z] = Append(a, z)
<1>1. PICK s : s = Append(a, y)
  OBVIOUS
<1>2. PICK p : p = Len(a) + 1
  OBVIOUS
<1>3. /\ s \in Seq(Section) /\ Len(s) = p /\ s[p] = y
      /\ \A i \in 1 .. Len(a) : s[i] = a[i]
      /\ Len(a) \in Nat /\ p \in 1 .. p
  BY <1>1, <1>2, AppendProperties, LenProperties
<1>4. FirstNamed(s, y.name) = p
  <2>1. Named(s, y.name) = {p}
    BY <1>1, <1>3 DEF Named, Unique
  <2> QED
    BY <1>3, <2>1 DEF FirstNamed
<1>5. ASSUME NEW z
      PROVE  [s EXCEPT ![p] = z] = Append(a, z)
  <2>1. a \in Seq(Section \cup {z}) /\ s \in Seq(Section \cup {z})
    BY <1>3, ElementOfSeq, SeqDef
  <2>2. PICK c : c = Append(a, z)
    OBVIOUS
  <2>3. /\ c \in Seq(Section \cup {z}) /\ Len(c) = p /\ c[p] = z
        /\ \A i \in 1 .. Len(a) : c[i] = a[i]
    BY <1>2, <2>1, <2>2, AppendProperties
  <2>4. DOMAIN s = 1 .. p /\ DOMAIN c = 1 .. p
    BY <1>3, <2>3, LenProperties
  <2>5. s = [i \in 1 .. p |-> s[i]] /\ c = [i \in 1 .. p |-> c[i]]
    BY <1>3, <2>3, LenProperties
  <2>6. PICK d : d = [s EXCEPT ![p] = z]
    OBVIOUS
  <2>7. d = [i \in 1 .. p |-> d[i]] /\ \A i \in 1 .. p : d[i] = c[i]
    <3>1. \A i \in 1 .. p : d[i] = IF i = p THEN z ELSE s[i]
      BY <2>4, <2>6
    <3>2. \A i \in 1 .. p : i = p \/ i \in 1 .. Len(a)
      BY <1>2, <1>3
    <3>3. d = [i \in 1 .. p |-> d[i]]
      BY <2>4, <2>6
    <3> QED
      BY <1>3, <2>3, <3>1, <3>2, <3>3
  <2> QED
    BY <2>2, <2>5, <2>6, <2>7, Zenon
<1> QED
  BY <1>1, <1>2, <1>3, <1>4, <1>5

LEMMA ItemSaved ==
  ASSUME ConfInv, SavedOK, file # NotSaved,
         NEW key, NEW value, ReadItem(key, value)
  PROVE  SavedOK'
<1>1. PICK l : l = ItemLine(key, value)
  OBVIOUS
<1>2. /\ LineIs(l) /\ lines' = Append(lines, l)
      /\ UNCHANGED <<path, file, kept, curSec>>
  BY <1>1 DEF ReadItem, ReadLine, mainVars, fileVars
<1>3. /\ phase = "first" /\ path = SavedPath
      /\ KeptOK /\ lines \in Seq(Lines) /\ file \in Seq(Lines)
      /\ SavedLines(secs) = lines
  BY <1>2, KnownLine
<1>0. PICK m \in 1 .. Len(kept) :
        \E j \in 1 .. Len(kept[m].items) :
          \E a \in Seq(Section), x \in Seq(Item) :
            /\ ItemComes(m, j, a, x)
            /\ l = ItemLine(kept[m].items[j].name, kept[m].items[j].value)
            /\ IsPrefix(Append(lines, l), file)
  BY <1>1, <1>2, KnownLine DEF SectionLine, ItemLine
<1>4. PICK j \in 1 .. Len(kept[m].items),
           a \in Seq(Section), x \in Seq(Item) :
        /\ ItemComes(m, j, a, x)
        /\ l = ItemLine(kept[m].items[j].name, kept[m].items[j].value)
        /\ IsPrefix(Append(lines, l), file)
  BY <1>0
<1>5. PICK q : q = kept[m]
  OBVIOUS
<1>6. PICK w : w = q.items[j]
  OBVIOUS
<1>7. q \in Section /\ q.items \in Seq(Item) /\ w \in Item
  <2>1. kept[m] \in Section
    BY <1>3, ElementOfSeq DEF KeptOK
  <2>2. q \in Section /\ q.items \in Seq(Item)
    BY <1>5, <2>1 DEF Section
  <2> QED
    BY <1>5, <1>6, <2>2, ElementOfSeq
<1>8. key = w.name /\ value = w.value /\ w = NewItem(key, value)
  <2>1. key = w.name /\ value = w.value
    BY <1>1, <1>4, <1>5, <1>6 DEF ItemLine
  <2> QED
    BY <1>7, <2>1 DEF Item, NewItem
<1>9. PICK y : y = [q EXCEPT !.items = x]
  OBVIOUS
<1>10. PICK z : z = [q EXCEPT !.items = Append(x, w)]
  OBVIOUS
<1>11. /\ Append(x, w) \in Seq(Item)
       /\ y \in Section /\ y.name = q.name /\ y.items = x
       /\ z \in Section /\ z.name = q.name /\ z.items = Append(x, w)
       /\ [y EXCEPT !.items = Append(x, w)] = z
  <2>1. Append(x, w) \in Seq(Item)
    BY <1>7, AppendProperties
  <2> QED
    BY <1>7, <1>9, <1>10, <2>1 DEF Section
<1>12. /\ curSec = q.name /\ curSec # "" /\ IsWritten(w)
       /\ secs = Append(a, y) /\ Named(x, key) = {}
       /\ SavedLines(Part(m, j)) = Append(lines, l)
       /\ WrittenPart(Part(m, j)) = Append(a, z)
  BY <1>4, <1>5, <1>6, <1>8, <1>9, <1>10 DEF ItemComes
<1>13. curSec # NoSection
  BY <1>7, <1>12, ConfAssumption DEF Section
<1>14. Unique(secs)
  BY InvTidy DEF Tidy
<1>15. PICK p : p = Len(a) + 1
  OBVIOUS
<1>16. /\ FirstNamed(secs, curSec) = p /\ secs[p] = y
       /\ [secs EXCEPT ![p] = z] = Append(a, z)
  <2>1. Unique(Append(a, y))
    BY <1>12, <1>14
  <2>2. /\ FirstNamed(Append(a, y), y.name) = Len(a) + 1
        /\ Append(a, y)[Len(a) + 1] = y
        /\ \A e : [Append(a, y) EXCEPT ![Len(a) + 1] = e] = Append(a, e)
    BY <1>11, <2>1, LastFound, Zenon
  <2>3. [Append(a, y) EXCEPT ![Len(a) + 1] = z] = Append(a, z)
    BY <2>2, Zenon
  <2> QED
    BY <1>11, <1>12, <1>15, <2>2, <2>3
<1>17. ~InsertCrashes(x, key) /\ InsertItem(x, key, value) = Append(x, w)
  BY <1>8, <1>12 DEF InsertCrashes, InsertItem
<1>18. GetSection(secs, curSec) = y
  BY <1>16 DEF GetSection
<1>19. /\ secs' = [secs EXCEPT ![p].items = InsertItem(@, key, value)]
       /\ phase' = phase
  BY <1>11, <1>13, <1>16, <1>17, <1>18 DEF ReadItem
<1>20. secs' = Append(a, z)
  BY <1>11, <1>16, <1>17, <1>19
<1>21. SavedLines(secs') = lines'
  <2>1. q.name # ""
    BY <1>12
  <2>2. PICK h : h = <<SectionLine(q.name)>>
    OBVIOUS
  <2>3. PICK b : b = SavedLines(a)
    OBVIOUS
  <2>4. PICK v : v = Flat(ItemLinesOf, x)
    OBVIOUS
  <2>5. SavedLines(Append(a, y)) = b \o (h \o v) /\ b \in Seq(Lines)
    BY <1>11, <2>1, <2>2, <2>3, <2>4, SectionThen
  <2>6. SavedLines(Append(a, z)) = b \o (h \o Flat(ItemLinesOf, Append(x, w)))
    BY <1>11, <2>1, <2>2, <2>3, SectionThen
  <2>7. l \in Lines /\ h \in Seq(Lines) /\ v \in Seq(Lines)
    <3>1. l \in Lines
      BY <1>1, <1>7, <1>8, <1>12 DEF Item, Lines, ItemLine, IsWritten
    <3>2. SectionLine(q.name) \in Lines
      BY <1>7 DEF Section, Lines, SectionLine
    <3>3. v \in Seq(Lines)
      BY <2>4, ItemsAre, FlatType
    <3> QED
      BY <2>2, <3>1, <3>2, <3>3, One
  <2>8. Flat(ItemLinesOf, Append(x, w)) = Append(v, l)
    <3>1. Makes(ItemLinesOf, Item, Lines)
      BY ItemsAre
    <3>2. /\ Flat(ItemLinesOf, Append(x, w))
               = Flat(ItemLinesOf, x) \o ItemLinesOf[w]
          /\ ItemLinesOf[w] \in Seq(Lines)
      BY <1>7, <3>1, FlatThen
    <3>3. ItemLinesOf[w] = <<l>>
      BY <1>1, <1>7, <1>8, <1>12 DEF ItemLinesOf
    <3>4. v \o <<l>> = Append(v, l)
      BY <2>7, One
    <3> QED
      BY <2>4, <3>2, <3>3, <3>4
  <2>9. /\ b \o (h \o Append(v, l)) = Append(b \o (h \o v), l)
        /\ Append(b \o (h \o v), l) \in Seq(Lines)
    BY <2>5, <2>7, AppendBehind
  <2> QED
    BY <1>2, <1>3, <1>12, <1>20, <2>5, <2>6, <2>8, <2>9
<1>22. PartRead(m, j)'
  BY <1>2, <1>5, <1>12, <1>20 DEF PartRead, Part
<1>23. j \in 0 .. Len(kept[m].items)
  <2>1. Len(q.items) \in Nat
    BY <1>7, LenProperties
  <2>2. j \in 1 .. Len(q.items)
    BY <1>5
  <2> QED
    BY <1>5, <2>1, <2>2, Before, Zenon
<1>24. \E n \in 1 .. Len(kept') :
         \E i \in 0 .. Len(kept'[n].items) : PartRead(n, i)'
  BY <1>2, <1>22, <1>23
<1>25. IsPrefix(lines', file')
  BY <1>2, <1>4
<1> QED
  BY <1>2, <1>3, <1>19, <1>21, <1>24, <1>25 DEF SavedOK, Unique

LEMMA SavedStart ==
  Init => SavedOK
BY DEF Init, SavedOK

LEMMA SavedStep ==
  ConfInv /\ SavedOK /\ [Next]_vars => SavedOK'
<1> SUFFICES ASSUME ConfInv, SavedOK, [Next]_vars
             PROVE  SavedOK'
  OBVIOUS
<1> USE DEF mainVars, fileVars
<1>1. CASE \/ \E s \in Sections : EditSection(s)
           \/ \E s \in Sections, k \in FileKeys, v \in Values \cup {""} :
                EditItem(s, k, v)
           \/ \E s \in Sections, k \in FileKeys : DropItem(s, k)
  <2>1. UNCHANGED <<file, kept>> /\ phase' \in {"edit", "crash"}
    BY <1>1 DEF EditSection, EditItem, DropItem, Edit
  <2> QED
    BY <2>1, SavedStays
<1>2. CASE SaveAny
  BY <1>2, SaveStep
<1>3. CASE \/ SaveOver \/ MainExits \/ InitDefConf \/ GetConf
           \/ \E p \in {NoPath, OtherPath} \cup
                         (IF file = NotSaved THEN {} ELSE {SavedPath}) :
                OptConf(p)
  <2>1. UNCHANGED <<file, kept>> /\ phase' \in {"args", "exit", "ok", "fail"}
    BY <1>3 DEF SaveOver, MainExits, InitDefConf, GetConf, OptConf
  <2> QED
    BY <2>1, SavedStays
<1>4. CASE OptionsEnd
  BY <1>4, OptionsStep
<1>5. CASE NoFile \/ ReadOpen
  <2>1. LoadFails
    BY <1>5 DEF NoFile, ReadOpen
  <2>2. CASE phase = "first"
    BY <2>1, <2>2 DEF LoadFails, ForgetSaved, SavedOK
  <2>3. CASE phase # "first"
    <3>1. UNCHANGED <<file, kept>> /\ phase' = "fail"
      BY <2>1, <2>3 DEF LoadFails
    <3> QED
      BY <3>1, SavedStays
  <2> QED
    BY <2>2, <2>3
<1>6. ASSUME file = NotSaved, file' = file
      PROVE  SavedOK'
  BY <1>6 DEF SavedOK
<1>7. CASE ReadOther
  <2>1. file' = file /\ LineIs([kind |-> "other"])
    BY <1>7 DEF ReadOther, ReadLine
  <2>2. ASSUME file # NotSaved PROVE FALSE
    BY <2>1, <2>2, KnownLine DEF SectionLine, ItemLine
  <2> QED
    BY <1>6, <2>1, <2>2
<1>8. ASSUME NEW s \in Sections, ReadSection(s)
      PROVE  SavedOK'
  <2>1. file' = file
    BY <1>8 DEF ReadSection, ReadLine
  <2> QED
    BY <1>6, <1>8, <2>1, SectionSaved
<1>9. ASSUME NEW k \in FileKeys, NEW v \in Values, ReadItem(k, v)
      PROVE  SavedOK'
  <2>1. file' = file
    BY <1>9 DEF ReadItem, ReadLine
  <2> QED
    BY <1>6, <1>9, <2>1, ItemSaved
<1>10. CASE EndOfFile
  BY <1>10, EndOfSaved
<1>11. CASE UNCHANGED vars
  BY <1>11, SavedStays DEF vars
<1> QED
  BY <1>1, <1>2, <1>3, <1>4, <1>5, <1>7, <1>8, <1>9, <1>10, <1>11 DEF Next

(* What was saved and loaded again is what was saved, as far as a file     *)
(* holds it and the disk took it (ini_save_fd, section_save_fd,            *)
(* ini_load_fd).                                                           *)
THEOREM SavedReloaded == Spec => []SavedIsLoaded
<1>1. Init => ConfInv /\ SavedOK
  BY InvStart, SavedStart
<1>2. (ConfInv /\ SavedOK) /\ [Next]_vars => (ConfInv /\ SavedOK)'
  BY InvStep, SavedStep
<1>3. ConfInv /\ SavedOK => SavedIsLoaded
  <2> SUFFICES ASSUME ConfInv, SavedOK, file # NotSaved
               PROVE  /\ ToSet(file) \subseteq Lines
                      /\ phase = "get" =>
                           /\ IsPrefix(SavedLines(secs), SavedLines(kept))
                           /\ file = SavedLines(kept) =>
                                secs = WrittenPart(kept)
    BY DEF SavedIsLoaded
  <2>1. /\ KeptOK /\ file \in Seq(Lines) /\ SavedLines(kept) \in Seq(Lines)
        /\ Begins(SavedLines(kept), file)
    BY SavedKept DEF ConfInv
  <2>2. ToSet(file) \subseteq Lines
    BY <2>1, SetOf
  <2>3. ASSUME phase = "get"
        PROVE  /\ IsPrefix(SavedLines(secs), SavedLines(kept))
               /\ file = SavedLines(kept) => secs = WrittenPart(kept)
    <3>1. SavedLines(secs) = file /\ lines = file
      BY <2>3 DEF SavedOK
    <3>2. IsPrefix(SavedLines(secs), SavedLines(kept))
      BY <3>1 DEF SavedOK
    <3>3. ASSUME file = SavedLines(kept) PROVE AllRead
      <4>1. Len(lines) \in Nat /\ lines = SavedLines(kept) /\ lines \in Seq(Lines)
        BY <2>1, <3>1, <3>3, LenProperties
      <4>2. \A y : Len(Append(lines, y)) = Len(lines) + 1
        <5> TAKE y
        <5>1. lines \in Seq(Lines \cup {y}) /\ y \in Lines \cup {y}
          BY <4>1, ElementOfSeq, SeqDef
        <5> QED
          BY <5>1, AppendProperties
      <4>3. \A y : ~Begins(SavedLines(kept), Append(lines, y))
        BY <4>1, <4>2 DEF Begins
      <4>4. \/ AllRead
            \/ \E k \in 1 .. Len(kept) : SectionComes(k)
            \/ \E m \in 1 .. Len(kept) : \E j \in 1 .. Len(kept[m].items) :
                 \E a \in Seq(Section), x \in Seq(Item) : ItemComes(m, j, a, x)
        BY <2>1, <2>3, NextLine DEF SavedOK
      <4>5. \A k : ~SectionComes(k)
        BY <4>3 DEF SectionComes
      <4>6. \A m, j, a, x : ~ItemComes(m, j, a, x)
        BY <4>3 DEF ItemComes
      <4> QED
        BY <4>4, <4>5, <4>6
    <3> QED
      BY <3>2, <3>3 DEF AllRead
  <2> QED
    BY <2>2, <2>3
<1> QED
  BY <1>1, <1>2, <1>3, PTL DEF Spec
=============================================================================
