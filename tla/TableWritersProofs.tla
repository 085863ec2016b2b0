------------------------- MODULE TableWritersProofs -------------------------
(***************************************************************************)
(* Proofs about TableWriters.tla, for any topic, table, writers, requests  *)
(* and bounds.                                                             *)
(***************************************************************************)
EXTENDS TableWriters, TLAPS, WellFoundedInduction

(* ApplyStreamJsonObject stores rows that the schema can hold.             *)
LEMMA DocOfType ==
    ASSUME NEW old \in Row \cup {Absent}, NEW it \in Item
    PROVE  DocOf(old, it) \in Row
<1>1. NewDoc \in Row
  BY MergeAssumption DEF NewDoc, Row
<1>2. CopyDocFromSchema(old) \in Row
  BY <1>1 DEF CopyDocFromSchema
<1>3. ASSUME NEW d \in Row PROVE MergeJsonIntoDoc(d, it) \in Row
  <2>1. it.tags \in Seq(Values) /\ it.a \in Values \cup {Keep}
    BY DEF Item
  <2>2. d.tags \in Seq(Values) /\ d.a \in Values
    BY DEF Row
  <2>3. d.tags \o it.tags \in Seq(Values)
    BY <2>1, <2>2
  <2> QED BY <2>1, <2>2, <2>3 DEF MergeJsonIntoDoc, Row
<1> QED BY <1>1, <1>2, <1>3 DEF DocOf

(* A payload is the text of a message, or none.                            *)
LEMMA PayloadsType ==
    ASSUME TypeOK, next < produced
    PROVE  Payloads(next) \subseteq Seq(Item)
<1>1. ASSUME NEW o \in 0 .. produced - 1 PROVE Message(o) \in Seq(Item)
  <2>1. o + 1 \in 1 .. Len(Topic)
    BY <1>1, WritersAssumption DEF TypeOK
  <2> QED BY <2>1, WritersAssumption DEF Message
<1>2. next \in 0 .. produced - 1
  BY WritersAssumption DEF TypeOK
<1>3. <<>> \in Seq(Item)
  OBVIOUS
<1> QED BY <1>1, <1>2, <1>3 DEF Payloads

(* While there is an item, it is one.                                      *)
LEMMA ThisType ==
    ASSUME TypeOK, item <= Len(items)
    PROVE  This \in Item /\ Old \in Row \cup {Absent}
<1>1. item \in 1 .. Len(items)
  BY DEF TypeOK
<1>2. This \in Item
  BY <1>1 DEF This, TypeOK
<1>3. This.pk \in Pks
  BY <1>2 DEF Item
<1> QED BY <1>2, <1>3 DEF Old, TypeOK, Table
-----------------------------------------------------------------------------
(* Induction over the numbers, as a least counterexample in a set.         *)
LEMMA LeastNumber ==
    ASSUME NEW S, S \subseteq Nat, S # {}
    PROVE  \E m \in S : \A n \in S : m <= n
<1>1. PICK m \in S : \A n \in S : <<n, m>> \notin OpToRel(<, Nat)
  BY NatLessThanWellFounded, WFMin
<1>2. \A n \in S : ~(n < m)
  BY <1>1 DEF OpToRel
<1> QED BY <1>2

(* Recursions over 0 .. N: they have a solution, and only one.             *)
Steps(T, N) == [T \X (1 .. N) -> T]

Recurs(g, b, step, N) ==
    g[0] = b /\ \A k \in 1 .. N : g[k] = step[<<g[k - 1], k>>]

Agree(f, g, N) ==
    f[0] = g[0] /\ \A k \in 1 .. N : f[k - 1] = g[k - 1] => f[k] = g[k]

LEMMA RecursionExists ==
    ASSUME NEW N \in Nat, NEW T, NEW b \in T, NEW step \in Steps(T, N)
    PROVE  \E g \in [0 .. N -> T] : Recurs(g, b, step, N)
<1> DEFINE Solves(g, n) == Recurs(g, b, step, n)
           Without == {n \in 0 .. N : ~\E g \in [0 .. n -> T] : Solves(g, n)}
<1>1. ASSUME Without # {} PROVE FALSE
  <2>1. PICK m \in Without : \A n \in Without : m <= n
    <3>1. Without \subseteq Nat
      OBVIOUS
    <3> HIDE DEF Without
    <3> QED BY <1>1, <3>1, LeastNumber
  <2>2. m \in 0 .. N
    OBVIOUS
  <2>3. CASE m = 0
    <3>1. [i \in 0 .. 0 |-> b] \in [0 .. m -> T]
      BY <2>3
    <3>2. Solves([i \in 0 .. 0 |-> b], m)
      BY <2>3 DEF Recurs
    <3> QED BY <2>1, <3>1, <3>2
  <2>4. CASE m # 0
    <3>1. m - 1 \in 0 .. N /\ m - 1 \notin Without
      BY <2>1, <2>2, <2>4
    <3>2. PICK g \in [0 .. m - 1 -> T] : Solves(g, m - 1)
      BY <3>1
    <3> DEFINE h == [i \in 0 .. m |-> IF i = m THEN step[<<g[m - 1], m>>]
                                      ELSE g[i]]
    <3>3. h \in [0 .. m -> T]
      <4>1. <<g[m - 1], m>> \in T \X (1 .. N) /\ \A i \in 0 .. m - 1 : g[i] \in T
        BY <2>2, <2>4
      <4>2. step[<<g[m - 1], m>>] \in T
        BY <4>1 DEF Steps
      <4>3. \A i \in 0 .. m : i # m => i \in 0 .. m - 1
        BY <2>2, <2>4
      <4> QED BY <4>1, <4>2, <4>3
    <3>4. h[0] = b
      BY <2>2, <2>4, <3>2 DEF Recurs
    <3>5. ASSUME NEW k \in 1 .. m PROVE h[k] = step[<<h[k - 1], k>>]
      <4>1. h[k - 1] = g[k - 1] /\ m \in 0 .. m
        BY <2>2, <2>4
      <4>2. CASE k = m
        <5>1. h[m] = step[<<g[m - 1], m>>]
          BY <4>1
        <5> HIDE DEF h
        <5> QED BY <4>1, <4>2, <5>1
      <4>3. CASE k # m
        <5>1. k \in 1 .. m - 1 /\ h[k] = g[k]
          BY <4>3, <2>2
        <5> QED BY <3>2, <4>1, <5>1 DEF Recurs
      <4> QED BY <4>2, <4>3
    <3>6. Solves(h, m)
      BY <3>4, <3>5 DEF Recurs
    <3> QED BY <2>1, <3>3, <3>6
  <2> QED BY <2>3, <2>4
<1>2. N \notin Without
  BY <1>1
<1>3. N \in 0 .. N
  OBVIOUS
<1> QED BY <1>2, <1>3

LEMMA RecursionUnique ==
    ASSUME NEW N \in Nat, NEW f, NEW g, Agree(f, g, N)
    PROVE  \A k \in 0 .. N : f[k] = g[k]
<1> DEFINE Apart == {k \in 0 .. N : f[k] # g[k]}
<1>1. ASSUME Apart # {} PROVE FALSE
  <2>1. PICK m \in Apart : \A n \in Apart : m <= n
    <3>1. Apart \subseteq Nat
      OBVIOUS
    <3> HIDE DEF Apart
    <3> QED BY <1>1, <3>1, LeastNumber
  <2>2. m \in 1 .. N /\ m - 1 \in 0 .. N /\ f[m] # g[m]
    <3>1. m \in 0 .. N /\ f[m] # g[m] /\ m # 0
      BY DEF Agree
    <3> QED BY <3>1
  <2>3. m - 1 \notin Apart
    BY <2>1, <2>2
  <2> QED BY <2>2, <2>3 DEF Agree
<1> QED BY <1>1
-----------------------------------------------------------------------------
(* The items of the topic and what they make of the table.                 *)

(* The part of a message that is applied: no item of it throws, and the    *)
(* one behind it, if there is one, does.                                   *)
LEMMA EffectivePart ==
    ASSUME NEW m \in Seq(Item)
    PROVE  LET e == Effective(m) IN
           /\ e \in Seq(Item) /\ Len(e) \in Nat /\ Len(e) <= Len(m)
           /\ \A i \in 1 .. Len(e) : e[i] = m[i] /\ m[i].op # "throw"
           /\ Len(e) < Len(m) => m[Len(e) + 1].op = "throw"
<1> DEFINE throws == {i \in DOMAIN m : m[i].op = "throw"}
<1>1. CASE throws = {}
  <2>1. Effective(m) = m
    BY <1>1 DEF Effective
  <2>2. \A i \in 1 .. Len(m) : m[i].op # "throw"
    BY <1>1
  <2> QED BY <2>1, <2>2
<1>2. CASE throws # {}
  <2>1. throws \subseteq Nat
    OBVIOUS
  <2>2. \E f \in throws : \A j \in throws : f <= j
    <3> HIDE DEF throws
    <3> QED BY <1>2, <2>1, LeastNumber
  <2> DEFINE f == CHOOSE i \in throws : \A j \in throws : i <= j
  <2>3. f \in throws /\ \A j \in throws : f <= j
    <3> HIDE DEF throws
    <3> QED BY <2>2
  <2>4. Effective(m) = SubSeq(m, 1, f - 1)
    BY <1>2 DEF Effective
  <2> HIDE DEF f
  <2>5. f \in 1 .. Len(m) /\ m[f].op = "throw"
    BY <2>3
  <2>6. \A i \in 1 .. f - 1 : i \in 1 .. Len(m) /\ m[i].op # "throw"
    BY <2>3, <2>5
  <2>7. /\ SubSeq(m, 1, f - 1) \in Seq(Item)
        /\ Len(SubSeq(m, 1, f - 1)) = f - 1
        /\ \A i \in 1 .. f - 1 : SubSeq(m, 1, f - 1)[i] = m[i]
    BY <2>5
  <2>8. f - 1 \in Nat /\ f - 1 <= Len(m) /\ (f - 1) + 1 = f
    BY <2>5
  <2> QED BY <2>4, <2>5, <2>6, <2>7, <2>8
<1> QED BY <1>1, <1>2

(* The recursions of AppliedItems and RowsAfter, with their types.         *)
LEMMA AppliedItemsRecursion ==
    /\ AppliedItems \in [0 .. Len(Topic) -> Seq(Item)]
    /\ AppliedItems[0] = <<>>
    /\ \A n \in 1 .. Len(Topic) :
           AppliedItems[n] = AppliedItems[n - 1] \o Effective(Topic[n])
<1> DEFINE N == Len(Topic)
           T == Seq(Item)
           step == [x \in T \X (1 .. N) |-> x[1] \o Effective(Topic[x[2]])]
           Unfolds(f) == f = [n \in 0 .. N |-> IF n = 0 THEN <<>>
                                  ELSE f[n - 1] \o Effective(Topic[n])]
<1>1. N \in Nat /\ \A n \in 1 .. N : Topic[n] \in Seq(Item)
  BY WritersAssumption
<1>2. step \in Steps(T, N)
  <2>1. ASSUME NEW x \in T \X (1 .. N)
        PROVE  x[1] \o Effective(Topic[x[2]]) \in T
    <3>1. x[1] \in T /\ Effective(Topic[x[2]]) \in T
      BY <1>1, EffectivePart
    <3> QED BY <3>1
  <2> QED BY <2>1 DEF Steps
<1>3. <<>> \in T
  OBVIOUS
<1>4. PICK g \in [0 .. N -> T] : Recurs(g, <<>>, step, N)
  <2>1. N \in Nat
    BY <1>1
  <2> HIDE DEF N, T, step
  <2> QED BY <1>2, <1>3, <2>1, RecursionExists
<1>5. \A k \in 1 .. N : g[k] = g[k - 1] \o Effective(Topic[k])
  <2> SUFFICES ASSUME NEW k \in 1 .. N
               PROVE  g[k] = g[k - 1] \o Effective(Topic[k])
    OBVIOUS
  <2>1. k - 1 \in 0 .. N
    BY <1>1
  <2>2. <<g[k - 1], k>> \in T \X (1 .. N)
    BY <2>1
  <2> QED BY <1>4, <2>1, <2>2 DEF Recurs
<1>6. ASSUME NEW f, Unfolds(f)
      PROVE  /\ f = [n \in DOMAIN f |-> f[n]]
             /\ DOMAIN f = 0 .. N
             /\ f[0] = <<>>
             /\ \A n \in 1 .. N : f[n] = f[n - 1] \o Effective(Topic[n])
  <2>1. 0 \in 0 .. N /\ \A n \in 1 .. N : n \in 0 .. N /\ n # 0
    BY <1>1
  <2>2. \A n \in 0 .. N : f[n] = IF n = 0 THEN <<>>
                                 ELSE f[n - 1] \o Effective(Topic[n])
    BY <1>6, Zenon
  <2>3. DOMAIN f = 0 .. N /\ f = [n \in DOMAIN f |-> f[n]]
    BY <1>6, Zenon
  <2> HIDE DEF N
  <2> QED BY <2>1, <2>2, <2>3
<1>7. Unfolds(g)
  <2>1. ASSUME NEW n \in 0 .. N
        PROVE  g[n] = IF n = 0 THEN <<>> ELSE g[n - 1] \o Effective(Topic[n])
    <3>1. CASE n = 0
      BY <1>4, <3>1 DEF Recurs
    <3>2. CASE n # 0
      <4>1. n \in 1 .. N
        BY <1>1, <3>2
      <4> QED BY <1>5, <3>2, <4>1
    <3> QED BY <3>1, <3>2
  <2> QED BY <2>1
<1>8. Unfolds(AppliedItems)
  BY <1>7, Zenon DEF AppliedItems
<1>9. \A n \in 0 .. N : AppliedItems[n] = g[n]
  <2>1. Agree(AppliedItems, g, N)
    BY <1>5, <1>6, <1>7, <1>8 DEF Agree
  <2>2. N \in Nat
    BY <1>1
  <2> HIDE DEF N
  <2> QED BY <2>1, <2>2, RecursionUnique
<1> HIDE DEF Unfolds
<1>10. AppliedItems \in [0 .. N -> T]
  BY <1>4, <1>6, <1>8, <1>9
<1> QED BY <1>6, <1>8, <1>10

LEMMA ApplyItemType ==
    ASSUME NEW t \in Table, NEW it \in Item
    PROVE  ApplyItem(t, it) \in Table
<1>1. it.pk \in Pks
  BY DEF Item
<1>2. t[it.pk] \in Row \cup {Absent}
  BY <1>1 DEF Table
<1>3. DocOf(t[it.pk], it) \in Row
  BY <1>2, DocOfType
<1>4. ASSUME NEW r \in Row \cup {Absent} PROVE [t EXCEPT ![it.pk] = r] \in Table
  BY <1>1 DEF Table
<1> QED BY <1>3, <1>4 DEF ApplyItem

(* All items that are ever applied, and where message n + 1 begins.        *)
All == AppliedItems[Len(Topic)]
Reached(n) == Len(AppliedItems[n])

LEMMA AllType == All \in Seq(Item) /\ Len(All) \in Nat
<1>1. Len(Topic) \in 0 .. Len(Topic)
  BY WritersAssumption
<1>2. All \in Seq(Item)
  BY <1>1, AppliedItemsRecursion DEF All
<1> QED BY <1>2

LEMMA RowsAfterRecursion ==
    /\ RowsAfter \in [0 .. Len(All) -> Table]
    /\ RowsAfter[0] = Before
    /\ \A i \in 1 .. Len(All) :
           RowsAfter[i] = ApplyItem(RowsAfter[i - 1], All[i])
<1> DEFINE N == Len(All)
           step == [x \in Table \X (1 .. N) |-> ApplyItem(x[1], All[x[2]])]
           Unfolds(f) == f = [i \in 0 .. N |-> IF i = 0 THEN Before
                                  ELSE ApplyItem(f[i - 1], All[i])]
<1>1. N \in Nat /\ \A i \in 1 .. N : All[i] \in Item
  BY AllType
<1>2. step \in Steps(Table, N)
  <2>1. ASSUME NEW x \in Table \X (1 .. N)
        PROVE  ApplyItem(x[1], All[x[2]]) \in Table
    <3>1. x[1] \in Table /\ All[x[2]] \in Item
      BY <1>1
    <3> QED BY <3>1, ApplyItemType
  <2> QED BY <2>1 DEF Steps
<1>3. Before \in Table
  BY WritersAssumption
<1>4. PICK g \in [0 .. N -> Table] : Recurs(g, Before, step, N)
  <2>1. N \in Nat
    BY <1>1
  <2> HIDE DEF N, step
  <2> QED BY <1>2, <1>3, <2>1, RecursionExists
<1>5. \A k \in 1 .. N : g[k] = ApplyItem(g[k - 1], All[k])
  <2> SUFFICES ASSUME NEW k \in 1 .. N
               PROVE  g[k] = ApplyItem(g[k - 1], All[k])
    OBVIOUS
  <2>1. k - 1 \in 0 .. N
    BY <1>1
  <2>2. <<g[k - 1], k>> \in Table \X (1 .. N)
    BY <2>1
  <2> QED BY <1>4, <2>1, <2>2 DEF Recurs
<1>6. ASSUME NEW f, Unfolds(f)
      PROVE  /\ f = [i \in DOMAIN f |-> f[i]]
             /\ DOMAIN f = 0 .. N
             /\ f[0] = Before
             /\ \A i \in 1 .. N : f[i] = ApplyItem(f[i - 1], All[i])
  <2>1. 0 \in 0 .. N /\ \A i \in 1 .. N : i \in 0 .. N /\ i # 0
    BY <1>1
  <2>2. \A i \in 0 .. N : f[i] = IF i = 0 THEN Before
                                 ELSE ApplyItem(f[i - 1], All[i])
    BY <1>6, Zenon
  <2>3. DOMAIN f = 0 .. N /\ f = [i \in DOMAIN f |-> f[i]]
    BY <1>6, Zenon
  <2> HIDE DEF N
  <2> QED BY <2>1, <2>2, <2>3
<1>7. Unfolds(g)
  <2>1. ASSUME NEW i \in 0 .. N
        PROVE  g[i] = IF i = 0 THEN Before ELSE ApplyItem(g[i - 1], All[i])
    <3>1. CASE i = 0
      BY <1>4, <3>1 DEF Recurs
    <3>2. CASE i # 0
      <4>1. i \in 1 .. N
        BY <1>1, <3>2
      <4> QED BY <1>5, <3>2, <4>1
    <3> QED BY <3>1, <3>2
  <2> QED BY <2>1
<1>8. Unfolds(RowsAfter)
  BY <1>7, Zenon DEF RowsAfter, All
<1>9. \A i \in 0 .. N : RowsAfter[i] = g[i]
  <2>1. Agree(RowsAfter, g, N)
    BY <1>5, <1>6, <1>7, <1>8 DEF Agree
  <2>2. N \in Nat
    BY <1>1
  <2> HIDE DEF N
  <2> QED BY <2>1, <2>2, RecursionUnique
<1> HIDE DEF Unfolds
<1>10. RowsAfter \in [0 .. N -> Table]
  BY <1>4, <1>6, <1>8, <1>9
<1> QED BY <1>6, <1>8, <1>10

(* A message is applied behind the ones before it.                         *)
LEMMA OneMessage ==
    ASSUME NEW n \in 1 .. Len(Topic)
    PROVE  LET e == Effective(Topic[n]) IN
           /\ Topic[n] \in Seq(Item) /\ Len(e) \in Nat
           /\ Reached(n - 1) \in Nat /\ Reached(n) = Reached(n - 1) + Len(e)
           /\ \A i \in 1 .. Reached(n - 1) :
                  AppliedItems[n][i] = AppliedItems[n - 1][i]
           /\ \A i \in 1 .. Len(e) :
                  AppliedItems[n][Reached(n - 1) + i] = e[i]
<1> DEFINE e == Effective(Topic[n])
           s == AppliedItems[n - 1]
<1>1. Topic[n] \in Seq(Item) /\ e \in Seq(Item)
  BY WritersAssumption, EffectivePart
<1>2. n - 1 \in 0 .. Len(Topic)
  BY WritersAssumption
<1>3. s \in Seq(Item) /\ AppliedItems[n] = s \o e
  BY <1>2, AppliedItemsRecursion
<1> HIDE DEF e, s
<1>4. /\ Len(s) \in Nat /\ Len(e) \in Nat /\ Len(s \o e) = Len(s) + Len(e)
      /\ \A i \in 1 .. Len(s) : (s \o e)[i] = s[i]
      /\ \A i \in 1 .. Len(e) : (s \o e)[Len(s) + i] = e[i]
  BY <1>1, <1>3
<1> QED BY <1>1, <1>3, <1>4 DEF Reached, e, s

(* What the first m messages apply is the beginning of what the first n    *)
(* apply.                                                                  *)
LEMMA MessagesInOrder ==
    ASSUME NEW m \in 0 .. Len(Topic), NEW n \in 0 .. Len(Topic), m <= n
    PROVE  /\ Reached(m) \in Nat /\ Reached(m) <= Reached(n)
           /\ \A i \in 1 .. Reached(m) : AppliedItems[n][i] = AppliedItems[m][i]
<1> DEFINE Good(k) == /\ Reached(m) <= Reached(k)
                      /\ \A i \in 1 .. Reached(m) :
                             AppliedItems[k][i] = AppliedItems[m][i]
           Worse == {k \in m .. Len(Topic) : ~Good(k)}
<1>0. \A k \in 0 .. Len(Topic) : Reached(k) \in Nat
  BY AppliedItemsRecursion DEF Reached
<1>1. ASSUME Worse # {} PROVE FALSE
  <2>1. PICK k \in Worse : \A j \in Worse : k <= j
    <3>1. Worse \subseteq Nat
      BY WritersAssumption
    <3> HIDE DEF Worse
    <3> QED BY <1>1, <3>1, LeastNumber
  <2>2. k \in m .. Len(Topic) /\ ~Good(k) /\ k # m
    BY <1>0
  <2>3. k \in 1 .. Len(Topic) /\ k - 1 \in m .. Len(Topic) /\ k - 1 \notin Worse
    BY <2>1, <2>2, WritersAssumption
  <2>4. Good(k - 1)
    BY <2>3
  <2>5. /\ Reached(k - 1) \in Nat /\ Reached(k - 1) <= Reached(k)
        /\ \A i \in 1 .. Reached(k - 1) :
               AppliedItems[k][i] = AppliedItems[k - 1][i]
    BY <2>3, OneMessage
  <2>6. Reached(m) \in Nat /\ Reached(k) \in Nat
    BY <1>0, <2>3, WritersAssumption
  <2>7. Good(k)
    BY <2>4, <2>5, <2>6
  <2> QED BY <2>2, <2>7
<1>2. n \in m .. Len(Topic)
  BY WritersAssumption
<1>3. Good(n)
  BY <1>1, <1>2
<1> QED BY <1>0, <1>3

LEMMA ReachedType ==
    \A n \in 0 .. Len(Topic) : Reached(n) \in 0 .. Len(All)
BY MessagesInOrder, WritersAssumption DEF All, Reached

(* The import stored a table.                                              *)
LEMMA BaseType == Base \in Table /\ Base = RowsAfter[Reached(Included)]
BY ReachedType, RowsAfterRecursion, WritersAssumption
DEF Base, TableAfter, Reached
-----------------------------------------------------------------------------
(* Types.                                                                  *)

LEMMA TypedInit == Init => Typed
<1> SUFFICES ASSUME Init PROVE Typed
  OBVIOUS
<1>1. NewDoc \in Row
  BY MergeAssumption DEF NewDoc, Row
<1>2. <<>> \in Seq(Item)
  OBVIOUS
<1>3. 0 \in 0 .. Len(Topic) /\ 0 \in 0 .. MaxRestarts /\ 0 \in 0 .. MaxPuts
  BY WritersAssumption
<1>4. Base \in Table
  BY BaseType
<1>5. [w \in Writers |-> <<>>] \in [Writers -> Requests \cup {<<>>}]
  OBVIOUS
<1>6. [w \in Writers |-> "idle"] \in [Writers -> {"idle", "stage", "upsert"}]
      /\ [w \in Writers |-> 1] \in [Writers -> Nat \ {0}]
  OBVIOUS
<1>7. produced \in 0 .. Len(Topic) /\ next \in 0 .. Len(Topic)
      /\ restarts \in 0 .. MaxRestarts /\ puts \in 0 .. MaxPuts
      /\ watermark \in 0 .. Included
  BY <1>3, WritersAssumption DEF Init
<1>8. rows \in Table /\ doc \in Row /\ items \in Seq(Item)
  BY <1>1, <1>2, <1>4 DEF Init
<1>9. pc \in [Writers -> {"idle", "stage", "upsert"}]
      /\ row \in [Writers -> Nat \ {0}]
      /\ request \in [Writers -> Requests \cup {<<>>}]
      /\ lastPut \in Requests \cup {<<>>}
  BY <1>5, <1>6 DEF Init
<1>10. /\ offsetFile \in Offsets \cup {NoOffset}
       /\ consumer \in ConsumerLabels
       /\ phase \in {"import", "serve", "failed"}
       /\ stop \in BOOLEAN /\ lossy \in BOOLEAN
       /\ item \in Nat \ {0}
       /\ handled \in SUBSET Offsets
       /\ mu \in Writers \cup {NoWriter}
  <2>1. stop \in BOOLEAN /\ lossy \in BOOLEAN
    BY Zenon DEF Init
  <2>2. handled \in SUBSET Offsets /\ mu \in Writers \cup {NoWriter}
    BY WritersAssumption DEF Init, Offsets
  <2>3. offsetFile \in Offsets \cup {NoOffset} /\ item \in Nat \ {0}
    BY DEF Init
  <2>4. consumer \in ConsumerLabels /\ phase \in {"import", "serve", "failed"}
    BY DEF Init, ConsumerLabels
  <2> QED BY <2>1, <2>2, <2>3, <2>4
<1>11. TypeOK
  BY <1>7, <1>8, <1>9, <1>10 DEF TypeOK
<1> QED BY <1>11 DEF Init, Typed

(* One step, by action.                                                    *)
LEMMA TypedStep == Typed /\ [Next]_vars => Typed'
<1> SUFFICES ASSUME Typed, [Next]_vars PROVE Typed'
  OBVIOUS
<1> USE DEF Typed, theRun
<1>a. TypeOK
  OBVIOUS
<1>0. CASE UNCHANGED vars
  BY <1>0 DEF vars, theRun, theConsumer, theWriters, TypeOK
<1>1. CASE Produce
  <2>1. produced' \in 0 .. Len(Topic)
    BY <1>1, WritersAssumption DEF Produce, TypeOK
  <2> QED BY <1>1, <2>1 DEF Produce, theConsumer, theWriters, TypeOK
<1>18. CASE Seek
  <2>1. next' \in 0 .. Len(Topic)
    BY <1>18, WritersAssumption DEF Seek, TypeOK
  <2>2. lossy' \in BOOLEAN
    BY <1>18 DEF Seek, TypeOK
  <2> QED BY <1>18, <2>1, <2>2 DEF Seek, theWriters, TypeOK, ConsumerLabels
<1>19. CASE CatchUpEnds \/ CatchUpFails \/ StartFails
  BY <1>19 DEF CatchUpEnds, CatchUpFails, StartFails, theWriters, TypeOK,
    ConsumerLabels
<1>2. CASE Start
  <2>1. next' \in 0 .. Len(Topic)
    BY <1>2, WritersAssumption DEF Start, LoadOffset, TypeOK, Offsets, NoOffset
  <2> QED BY <1>2, <2>1 DEF Start, theWriters, TypeOK, ConsumerLabels
<1>3. CASE Consume
  <2>1. next' \in 0 .. Len(Topic)
    BY <1>3, WritersAssumption DEF Consume, TypeOK
  <2>2. items' \in Seq(Item)
    BY <1>3, PayloadsType DEF Consume
  <2> QED BY <1>3, <2>1, <2>2 DEF Consume, theWriters, TypeOK, ConsumerLabels
<1>4. CASE SkipItem
  BY <1>4 DEF SkipItem, theWriters, TypeOK, ConsumerLabels
<1>5. CASE DeleteItem
  <2>1. This \in Item
    BY <1>5, ThisType DEF DeleteItem
  <2>2. rows' \in Table
    BY <1>5, <2>1 DEF DeleteItem, TypeOK, Table, Item
  <2> QED BY <1>5, <2>2 DEF DeleteItem, theWriters, TypeOK, ConsumerLabels
<1>6. CASE MergeItem
  <2>1. This \in Item /\ Old \in Row \cup {Absent}
    BY <1>6, ThisType DEF MergeItem
  <2>2. doc' \in Row
    BY <1>6, <2>1, DocOfType DEF MergeItem
  <2> QED BY <1>6, <2>2 DEF MergeItem, theWriters, TypeOK, ConsumerLabels
<1>7. CASE WriteItem
  <2>1. This \in Item
    BY <1>7, ThisType DEF WriteItem
  <2>2. rows' \in Table
    BY <1>7, <2>1 DEF WriteItem, TypeOK, Table, Item
  <2> QED BY <1>7, <2>2 DEF WriteItem, theWriters, TypeOK, ConsumerLabels
<1>8. CASE MessageDone
  <2>1. next - 1 \in Offsets
    BY <1>8, WritersAssumption DEF MessageDone, TypeOK, Offsets
  <2>2. handled' \in SUBSET Offsets
    BY <1>8, <2>1 DEF MessageDone, TypeOK
  <2> QED BY <1>8, <2>2 DEF MessageDone, theWriters, TypeOK, ConsumerLabels
<1>9. CASE Truncate \/ TruncateFails \/ SaveFails
  BY <1>9 DEF Truncate, TruncateFails, SaveFails, Saved, theWriters, TypeOK,
    ConsumerLabels
<1>10. CASE Save
  <2>1. offsetFile' \in Offsets \cup {NoOffset}
    BY <1>10, WritersAssumption DEF Save, TypeOK, Offsets, NoOffset
  <2> QED BY <1>10, <2>1 DEF Save, Saved, theWriters, TypeOK, ConsumerLabels
<1>11. CASE StopConsumer
  <2>1. restarts' \in 0 .. MaxRestarts
    BY <1>11, WritersAssumption DEF StopConsumer, TypeOK
  <2> QED BY <1>11, <2>1 DEF StopConsumer, theConsumer, theWriters, TypeOK
<1>12. CASE Joined
  BY <1>12 DEF Joined, theWriters, TypeOK, ConsumerLabels
<1>13. CASE Crash
  <2>1. restarts' \in 0 .. MaxRestarts
    BY <1>13, WritersAssumption DEF Crash, TypeOK
  <2>2. lastPut' \in Requests \cup {<<>>}
    BY <1>13 DEF Crash, TypeOK
  <2> QED BY <1>13, <2>1, <2>2 DEF Crash, TypeOK, ConsumerLabels
<1>14. ASSUME NEW w \in Writers, Lock(w) PROVE Typed'
  <2>1. puts' \in 0 .. MaxPuts
    BY <1>14, WritersAssumption DEF Lock, TypeOK
  <2>2. request' \in [Writers -> Requests \cup {<<>>}]
    BY <1>14 DEF Lock, TypeOK
  <2> QED
    BY <1>14, <2>1, <2>2 DEF Lock, WriteLock, theConsumer, TypeOK
<1>15. ASSUME NEW w \in Writers, Stage(w) \/ StageFails(w) PROVE Typed'
  BY <1>15 DEF Stage, StageFails, theConsumer, TypeOK
<1>16. ASSUME NEW w \in Writers, UpsertRow(w) PROVE Typed'
  <2> DEFINE r == request[w][row[w]]
  <2>0. request[w] \in Seq(PutRow)
    <3>1. request[w] \in Requests \cup {<<>>}
      BY DEF TypeOK
    <3>2. <<>> \in Seq(PutRow)
      OBVIOUS
    <3> QED BY <3>1, <3>2, WritersAssumption
  <2>1. r \in PutRow
    BY <1>16, <2>0 DEF UpsertRow, TypeOK
  <2>2. rows' \in Table
    BY <1>16, <2>1 DEF UpsertRow, TypeOK, Table, PutRow, Row
  <2>3. row' \in [Writers -> Nat \ {0}]
    BY <1>16 DEF UpsertRow, TypeOK
  <2> QED BY <1>16, <2>2, <2>3 DEF UpsertRow, theConsumer, TypeOK
<1>17. ASSUME NEW w \in Writers, Unlock(w) PROVE Typed'
  BY <1>17 DEF Unlock, theConsumer, TypeOK
<1> QED
  BY <1>0, <1>1, <1>2, <1>3, <1>4, <1>5, <1>6, <1>7, <1>8, <1>9, <1>10, <1>11,
     <1>12, <1>13, <1>14, <1>15, <1>16, <1>17, <1>18, <1>19
  DEF Next, Consumer, Writer

(* Every variable keeps its type (TypeOK), whatever the payloads read as.  *)
THEOREM WritersTypeCorrect == Spec => []TypeOK
<1>1. Typed => TypeOK
  BY DEF Typed
<1> QED BY <1>1, TypedInit, TypedStep, PTL DEF Spec
-----------------------------------------------------------------------------
(* kafka.offset.                                                           *)

LEMMA PrefixGrows ==
    ASSUME NEW m \in Nat, NEW n \in Nat, m <= n
    PROVE  0 .. m - 1 \subseteq 0 .. n - 1
OBVIOUS

LEMMA BehindInit == Init => OffsetCoversHandled /\ Behind
BY DEF Init, OffsetCoversHandled, Behind, NoOffset

(* The steps of the consumer that move it past a message, save an offset   *)
(* or take one up; no other step changes what Behind is about.             *)
LEMMA BehindStep ==
    ASSUME "freed" \notin Faults
    PROVE  IInv /\ [Next]_vars => (OffsetCoversHandled /\ Behind)'
<1> SUFFICES ASSUME IInv, [Next]_vars PROVE (OffsetCoversHandled /\ Behind)'
  OBVIOUS
<1>t. next \in Nat /\ next' \in Nat /\ offsetFile \in Int /\ Len(Topic) \in Nat
  <2>1. Typed'
    BY TypedStep DEF IInv
  <2> QED BY <2>1, WritersAssumption DEF IInv, Typed, TypeOK, Offsets, NoOffset
<1> USE DEF OffsetCoversHandled, Behind, theRun
<1>12. CASE Seek
  <2>1. next' <= Included
    BY <1>12, WritersAssumption DEF Seek, IInv, Typed, TypeOK
  <2>2. 0 .. next' - 1 \subseteq handled
    <3>1. Included \in Nat
      BY <1>t, WritersAssumption
    <3>3. 0 .. next' - 1 \subseteq 0 .. Included - 1
      BY <1>t, <2>1, <3>1, PrefixGrows
    <3>2. 0 .. Included - 1 \subseteq handled
      BY Zenon DEF IInv
    <3> QED BY <3>2, <3>3
  <2> QED BY <1>12, <2>2 DEF Seek, IInv
<1>13. CASE CatchUpEnds \/ CatchUpFails \/ StartFails
  BY <1>13 DEF CatchUpEnds, CatchUpFails, StartFails, IInv
<1>1. CASE Start
  <2>1. 0 .. next' - 1 \subseteq handled
    BY <1>1, <1>t DEF Start, LoadOffset, IInv
  <2> QED BY <1>1, <2>1 DEF Start, IInv
<1>2. CASE Consume
  <2>1. items' = Message(next)
    BY <1>2 DEF Consume, Payloads
  <2>2. next' - 1 = next /\ next' - 2 = next - 1
    BY <1>2, <1>t DEF Consume
  <2> QED BY <1>2, <2>1, <2>2 DEF Consume, IInv
<1>3. CASE MessageDone
  <2>1. items = Message(next - 1) /\ 0 .. next - 2 \subseteq handled /\ next > 0
    BY <1>3 DEF MessageDone, IInv, Typed
  <2>2. handled' = handled \cup {next - 1}
    BY <1>3, <2>1 DEF MessageDone
  <2>3. 0 .. next - 1 \subseteq handled'
    BY <1>t, <2>1, <2>2
  <2>4. handled \subseteq handled'
    BY <2>2
  <2> QED BY <1>3, <2>3, <2>4 DEF MessageDone, IInv
<1>4. CASE Truncate \/ TruncateFails \/ SaveFails
  BY <1>4 DEF Truncate, TruncateFails, SaveFails, Saved, NoOffset, IInv
<1>5. CASE Save
  BY <1>5, <1>t DEF Save, Saved, IInv
<1>6. CASE SkipItem \/ DeleteItem \/ MergeItem \/ WriteItem
  BY <1>6 DEF SkipItem, DeleteItem, MergeItem, WriteItem, Message, IInv
<1>7. CASE StopConsumer \/ Joined \/ Crash
  BY <1>7 DEF StopConsumer, Joined, Crash, theConsumer, Message, IInv
<1>8. CASE UNCHANGED theConsumer
  BY <1>8 DEF theConsumer, Message, IInv
<1>9. CASE Produce
  BY <1>8, <1>9 DEF Produce
<1>10. ASSUME NEW w \in Writers, Writer(w) PROVE UNCHANGED theConsumer
  BY <1>10 DEF Writer, Lock, Stage, StageFails, UpsertRow, Unlock
<1>11. CASE UNCHANGED vars
  BY <1>8, <1>11 DEF vars
<1> QED
  BY <1>1, <1>2, <1>3, <1>4, <1>5, <1>6, <1>7, <1>8, <1>9, <1>10, <1>11,
     <1>12, <1>13
  DEF Next, Consumer

(* When payloads are intact, what lies behind the consumer and what the    *)
(* saved offset covers is applied or rejected, for every topic and any     *)
(* number of crashes, failed saves and restarts.                           *)
THEOREM Invariance ==
    ASSUME "freed" \notin Faults
    PROVE  Spec => []IInv
<1>1. Init => IInv
  BY TypedInit, BehindInit DEF IInv
<1>2. IInv /\ [Next]_vars => IInv'
  BY TypedStep, BehindStep DEF IInv
<1> QED BY <1>1, <1>2, PTL DEF Spec

(* kafka.offset never covers a message that was not applied or rejected    *)
(* (OffsetCoversHandled): a consumer that resumes after it loses nothing.  *)
THEOREM OffsetIsSafe ==
    ASSUME "freed" \notin Faults
    PROVE  Spec => []OffsetCoversHandled
<1>1. IInv => OffsetCoversHandled
  BY DEF IInv
<1> QED BY <1>1, Invariance, PTL
-----------------------------------------------------------------------------
(* HandlePutBatch under write_mu, until a message is delivered.            *)

NoEmptyMessage == \A i \in DOMAIN Topic : Topic[i] # <<>>

(* Of the first n rows of request r, the last one of each key is in table  *)
(* t.                                                                      *)
Stands(t, r, n) ==
    \A i \in 1 .. n :
        (\A j \in 1 .. n : r[j].pk = r[i].pk => j <= i)
            => t[r[i].pk] = [a |-> r[i].a, tags |-> r[i].tags]

(* The holder of write_mu is the one thread that is not idle; it puts only *)
(* requests whose rows all convert.                                        *)
Locked ==
    \A w \in Writers :
        /\ pc[w] # "idle" <=> mu = w
        /\ pc[w] # "idle" => request[w] \in Requests
        /\ pc[w] = "stage" => row[w] = 1
        /\ pc[w] = "upsert" => ~Bad(request[w]) /\ row[w] <= Len(request[w]) + 1

(* The last batch stands until the next one puts a row, and then what this *)
(* one has put of its own.                                                 *)
Isolated ==
    OnlyWriters =>
        /\ (\A w \in Writers : pc[w] # "upsert") => Stands(rows, lastPut, Len(lastPut))
        /\ \A w \in Writers : pc[w] = "upsert" => Stands(rows, request[w], row[w] - 1)

WInv == Typed /\ Locked /\ Isolated /\ RejectedBatchPutsNothing

LEMMA RequestType ==
    ASSUME TypeOK, NEW w \in Writers
    PROVE  /\ request[w] \in Seq(PutRow) /\ Len(request[w]) \in Nat
           /\ lastPut \in Seq(PutRow)
<1>1. request[w] \in Requests \cup {<<>>} /\ lastPut \in Requests \cup {<<>>}
  BY DEF TypeOK
<1>2. <<>> \in Seq(PutRow)
  OBVIOUS
<1>3. Requests \subseteq Seq(PutRow)
  BY WritersAssumption
<1>4. request[w] \in Seq(PutRow) /\ lastPut \in Seq(PutRow)
  BY <1>1, <1>2, <1>3
<1> QED BY <1>4

LEMMA WInvInit == Init => WInv
<1> SUFFICES ASSUME Init PROVE WInv
  OBVIOUS
<1>1. Locked
  BY WritersAssumption DEF Init, Locked
<1>2. Isolated
  <2>1. Stands(rows, lastPut, Len(lastPut))
    BY DEF Init, Stands
  <2> QED BY <2>1 DEF Init, Isolated
<1>3. RejectedBatchPutsNothing
  BY DEF Init, RejectedBatchPutsNothing
<1> QED BY <1>1, <1>2, <1>3, TypedInit DEF WInv

(* Without a delivered message the consumer changes no row; once there is  *)
(* one, nothing is claimed.                                                *)
LEMMA ConsumerLeavesRows ==
    ASSUME "freed" \notin Faults, NoEmptyMessage, Typed, Consumer
    PROVE  /\ OnlyWriters' => OnlyWriters /\ UNCHANGED rows
           /\ UNCHANGED theWriters
<1>1. UNCHANGED theWriters
  BY DEF Consumer, Seek, CatchUpEnds, CatchUpFails, Start, StartFails,
         Consume, SkipItem, DeleteItem, MergeItem, WriteItem, MessageDone,
         Truncate, TruncateFails, Save, SaveFails, Saved, StopConsumer, Joined
<1>2. CASE Consume
  <2>1. next + 1 \in DOMAIN Topic
    BY <1>2, WritersAssumption DEF Consume, Typed, TypeOK
  <2>2. items' = Topic[next + 1]
    BY <1>2 DEF Consume, Payloads, Message
  <2>3. ~OnlyWriters'
    BY <2>1, <2>2 DEF NoEmptyMessage, OnlyWriters
  <2> QED BY <1>1, <2>3
<1>3. CASE DeleteItem \/ WriteItem
  <2>1. item \in Nat \ {0} /\ item <= Len(items) /\ items' = items
    BY <1>3 DEF DeleteItem, WriteItem, Typed, TypeOK
  <2>2. ~OnlyWriters'
    BY <2>1 DEF OnlyWriters
  <2> QED BY <1>1, <2>2
<1>4. ASSUME ~Consume, ~(DeleteItem \/ WriteItem)
      PROVE  UNCHANGED <<items, rows>>
  BY <1>4 DEF Consumer, Seek, CatchUpEnds, CatchUpFails, Start, StartFails,
         SkipItem, MergeItem, MessageDone, Truncate, TruncateFails, Save,
         SaveFails, Saved, StopConsumer, Joined, theConsumer
<1> QED BY <1>1, <1>2, <1>3, <1>4 DEF OnlyWriters

LEMMA RejectionKept ==
    ASSUME RejectedBatchPutsNothing, UNCHANGED <<rows, items>>
    PROVE  RejectedBatchPutsNothing'
BY DEF RejectedBatchPutsNothing, OnlyWriters, Bad

(* A step that leaves the rows and the RPC threads alone.                  *)
LEMMA WritersUntouched ==
    ASSUME WInv, UNCHANGED theWriters,
           OnlyWriters' => OnlyWriters /\ UNCHANGED rows
    PROVE  (Locked /\ Isolated /\ RejectedBatchPutsNothing)'
<1>1. Locked'
  BY DEF WInv, Locked, theWriters, Bad
<1>2. Isolated'
  <2> SUFFICES ASSUME OnlyWriters'
               PROVE  /\ (\A w \in Writers : pc[w] # "upsert") =>
                             Stands(rows, lastPut, Len(lastPut))
                      /\ \A w \in Writers : pc[w] = "upsert" =>
                             Stands(rows, request[w], row[w] - 1)
    BY DEF Isolated, theWriters
  <2> QED BY DEF WInv, Isolated
<1>3. RejectedBatchPutsNothing'
  BY DEF WInv, RejectedBatchPutsNothing, Bad
<1> QED BY <1>1, <1>2, <1>3

(* A row of a batch is put: the last row of each key so far is in.         *)
LEMMA UpsertStands ==
    ASSUME Typed, NEW w \in Writers, UpsertRow(w),
           Stands(rows, request[w], row[w] - 1)
    PROVE  Stands(rows', request[w], row[w])
<1> DEFINE r == request[w]
           n == row[w]
<1>1. /\ r \in Seq(PutRow) /\ n \in Nat \ {0} /\ n <= Len(r)
      /\ rows \in Table
  BY RequestType DEF Typed, TypeOK, UpsertRow
<1>2. \A i \in 1 .. n : r[i].pk \in Pks
  <2>1. \A i \in 1 .. n : r[i] \in PutRow
    BY <1>1
  <2> QED BY <2>1 DEF PutRow
<1>3. /\ rows' = [rows EXCEPT ![r[n].pk] = [a |-> r[n].a, tags |-> r[n].tags]]
  BY DEF UpsertRow
<1> HIDE DEF r, n
<1>4. ASSUME NEW i \in 1 .. n, \A j \in 1 .. n : r[j].pk = r[i].pk => j <= i
      PROVE  rows'[r[i].pk] = [a |-> r[i].a, tags |-> r[i].tags]
  <2>1. CASE i = n
    BY <1>1, <1>2, <1>3, <2>1 DEF Table
  <2>2. CASE i # n
    <3>1. i \in 1 .. n - 1 /\ r[n].pk # r[i].pk
      BY <1>1, <1>4, <2>2
    <3>2. rows[r[i].pk] = [a |-> r[i].a, tags |-> r[i].tags]
      BY <1>1, <1>4, <3>1 DEF Stands, r, n
    <3> QED BY <1>1, <1>2, <1>3, <3>1, <3>2 DEF Table
  <2> QED BY <2>1, <2>2
<1> QED BY <1>4 DEF Stands, r, n

LEMMA WriterStep ==
    ASSUME WInv, NEW w \in Writers, Writer(w)
    PROVE  (Locked /\ Isolated /\ RejectedBatchPutsNothing)'
<1>t. /\ pc \in [Writers -> {"idle", "stage", "upsert"}]
      /\ request \in [Writers -> Requests \cup {<<>>}]
      /\ row \in [Writers -> Nat \ {0}]
      /\ rows \in Table
      /\ \A v \in Writers : Len(request[v]) \in Nat
      /\ NoWriter \notin Writers /\ <<>> \notin Requests
  BY RequestType, WritersAssumption DEF WInv, Typed, TypeOK
<1>i. items' = items
  BY DEF Writer, Lock, Stage, StageFails, UpsertRow, Unlock, theConsumer
<1>l. /\ pc[w] # "idle" => mu = w /\ request[w] \in Requests
      /\ \A v \in Writers : pc[v] # "idle" <=> mu = v
      /\ pc[w] = "stage" => row[w] = 1
      /\ pc[w] = "upsert" => ~Bad(request[w]) /\ row[w] <= Len(request[w]) + 1
  BY DEF WInv, Locked
<1>1. CASE Lock(w)
  <2>1. /\ mu = NoWriter /\ mu' = w /\ rows' = rows /\ lastPut' = lastPut
        /\ pc' = [pc EXCEPT ![w] = "stage"] /\ row' = [row EXCEPT ![w] = 1]
    BY <1>1 DEF Lock, WriteLock
  <2>2. PICK r \in Requests : request' = [request EXCEPT ![w] = r]
    BY <1>1 DEF Lock
  <2>3. \A v \in Writers : pc[v] = "idle"
    BY <1>t, <1>l, <2>1
  <2>4. Locked'
    BY <1>t, <2>1, <2>2, <2>3 DEF Locked
  <2>5. OnlyWriters => Stands(rows, lastPut, Len(lastPut))
    BY <2>3 DEF WInv, Isolated
  <2>6. Isolated'
    BY <1>t, <1>i, <2>1, <2>3, <2>5 DEF Isolated, OnlyWriters
  <2>7. RejectedBatchPutsNothing'
    BY <1>i, <2>1, RejectionKept DEF WInv
  <2> QED BY <2>4, <2>6, <2>7
<1>2. CASE Stage(w)
  <2>1. /\ pc[w] = "stage" /\ ~Bad(request[w])
        /\ pc' = [pc EXCEPT ![w] = "upsert"]
        /\ UNCHANGED <<rows, mu, request, row, lastPut>>
    BY <1>2 DEF Stage
  <2>2. \A v \in Writers : pc'[v] = "upsert" => v = w
    BY <1>t, <1>l, <2>1
  <2>3. Locked'
    BY <1>t, <1>l, <2>1 DEF WInv, Locked, Bad
  <2>4. row[w] = 1 /\ Stands(rows, request[w], 0)
    BY <1>l, <2>1 DEF Stands
  <2>5. Isolated'
    BY <1>t, <2>1, <2>2, <2>4 DEF Isolated
  <2>6. RejectedBatchPutsNothing'
    BY <1>i, <2>1, RejectionKept DEF WInv
  <2> QED BY <2>3, <2>5, <2>6
<1>3. CASE StageFails(w)
  <2>1. /\ pc[w] = "stage" /\ mu' = NoWriter
        /\ pc' = [pc EXCEPT ![w] = "idle"]
        /\ UNCHANGED <<rows, request, row, lastPut>>
    BY <1>3 DEF StageFails
  <2>2. \A v \in Writers : pc'[v] = "idle" /\ pc[v] # "upsert"
    BY <1>t, <1>l, <2>1
  <2>3. Locked'
    BY <1>t, <2>1, <2>2 DEF Locked
  <2>4. OnlyWriters => Stands(rows, lastPut, Len(lastPut))
    BY <2>2 DEF WInv, Isolated
  <2>5. Isolated'
    BY <1>i, <2>1, <2>2, <2>4 DEF Isolated, OnlyWriters
  <2>6. RejectedBatchPutsNothing'
    BY <1>i, <2>1, RejectionKept DEF WInv
  <2> QED BY <2>3, <2>5, <2>6
<1>4. CASE UpsertRow(w)
  <2> DEFINE r == request[w]
             n == row[w]
  <2>1. /\ pc[w] = "upsert" /\ n <= Len(r)
        /\ rows' = [rows EXCEPT ![r[n].pk] = [a |-> r[n].a, tags |-> r[n].tags]]
        /\ row' = [row EXCEPT ![w] = n + 1]
        /\ UNCHANGED <<mu, pc, request, lastPut>>
    BY <1>4 DEF UpsertRow
  <2>2. \A v \in Writers : pc[v] = "upsert" => v = w
    BY <1>t, <1>l, <2>1
  <2>3. Locked'
    BY <1>t, <1>l, <2>1 DEF WInv, Locked, Bad
  <2>4. OnlyWriters => Stands(rows, r, n - 1)
    BY <2>1 DEF WInv, Isolated
  <2>5. OnlyWriters => Stands(rows', r, n)
    BY <1>4, <2>4, UpsertStands DEF WInv
  <2>6. row'[w] - 1 = n
    BY <1>t, <2>1
  <2>7. Isolated'
    <3>1. OnlyWriters' => \A v \in Writers : pc'[v] = "upsert" =>
              Stands(rows', request'[v], row'[v] - 1)
      BY <1>i, <2>1, <2>2, <2>5, <2>6 DEF OnlyWriters
    <3> QED BY <2>1, <3>1 DEF Isolated
  <2>8. ASSUME OnlyWriters, NEW p \in Pks, rows'[p] # Base[p]
        PROVE  \E q \in Requests :
                  ~Bad(q) /\ \E i \in DOMAIN q : q[i].pk = p /\
                                rows'[p] = [a |-> q[i].a, tags |-> q[i].tags]
    <3>1. CASE p = r[n].pk
      <4>1. rows'[p] = [a |-> r[n].a, tags |-> r[n].tags]
        BY <1>t, <2>1, <3>1 DEF Table
      <4>2. r \in Requests /\ ~Bad(r) /\ n \in DOMAIN r
        <5>1. r \in Seq(PutRow)
          BY RequestType DEF WInv, Typed
        <5> QED BY <1>t, <1>l, <2>1, <5>1
      <4> QED BY <3>1, <4>1, <4>2
    <3>2. CASE p # r[n].pk
      <4>1. rows'[p] = rows[p]
        BY <1>t, <2>1, <3>2 DEF Table
      <4> QED BY <2>8, <4>1 DEF WInv, RejectedBatchPutsNothing
    <3> QED BY <3>1, <3>2
  <2>9. RejectedBatchPutsNothing'
    BY <1>i, <2>8 DEF RejectedBatchPutsNothing, OnlyWriters, Bad
  <2> QED BY <2>3, <2>7, <2>9
<1>5. CASE Unlock(w)
  <2>1. /\ pc[w] = "upsert" /\ row[w] > Len(request[w])
        /\ mu' = NoWriter /\ lastPut' = request[w]
        /\ pc' = [pc EXCEPT ![w] = "idle"]
        /\ UNCHANGED <<rows, request, row>>
    BY <1>5 DEF Unlock
  <2>2. \A v \in Writers : pc'[v] = "idle"
    BY <1>t, <1>l, <2>1
  <2>3. Locked'
    BY <1>t, <2>1, <2>2 DEF Locked
  <2>4. row[w] - 1 = Len(request[w])
    BY <1>t, <1>l, <2>1
  <2>5. OnlyWriters => Stands(rows, request[w], Len(request[w]))
    BY <2>1, <2>4 DEF WInv, Isolated
  <2>6. Isolated'
    BY <1>i, <2>1, <2>2, <2>5 DEF Isolated, OnlyWriters
  <2>7. RejectedBatchPutsNothing'
    BY <1>i, <2>1, RejectionKept DEF WInv
  <2> QED BY <2>3, <2>6, <2>7
<1> QED BY <1>1, <1>2, <1>3, <1>4, <1>5 DEF Writer

(* The process dies: the batch that was being put is no answered one.      *)
LEMMA CrashStep ==
    ASSUME WInv, Crash
    PROVE  (Locked /\ Isolated /\ RejectedBatchPutsNothing)'
<1>1. /\ mu' = NoWriter /\ pc' = [w \in Writers |-> "idle"]
      /\ UNCHANGED <<rows, items>>
      /\ lastPut' = IF \E w \in Writers : pc[w] = "upsert" THEN <<>> ELSE lastPut
  BY DEF Crash
<1>2. Locked'
  BY <1>1, WritersAssumption DEF Locked
<1>3. Isolated'
  <2>1. Stands(rows, <<>>, Len(<<>>))
    BY DEF Stands
  <2>2. OnlyWriters => Stands(rows', lastPut', Len(lastPut'))
    BY <1>1, <2>1 DEF WInv, Isolated
  <2> QED BY <1>1, <2>2 DEF Isolated, OnlyWriters
<1>4. RejectedBatchPutsNothing'
  BY <1>1, RejectionKept DEF WInv
<1> QED BY <1>2, <1>3, <1>4

LEMMA WInvStep ==
    ASSUME "freed" \notin Faults, NoEmptyMessage
    PROVE  WInv /\ [Next]_vars => WInv'
<1> SUFFICES ASSUME WInv, [Next]_vars PROVE WInv'
  OBVIOUS
<1>1. Typed'
  BY TypedStep DEF WInv
<1>2. ASSUME Consumer PROVE WInv'
  <2>1. /\ OnlyWriters' => OnlyWriters /\ UNCHANGED rows
        /\ UNCHANGED theWriters
    BY <1>2, ConsumerLeavesRows DEF WInv
  <2> QED BY <1>1, <2>1, WritersUntouched DEF WInv
<1>3. ASSUME Produce \/ UNCHANGED vars PROVE WInv'
  <2>1. UNCHANGED theWriters /\ UNCHANGED <<rows, items>>
    BY <1>3 DEF Produce, vars, theConsumer
  <2>2. OnlyWriters' => OnlyWriters /\ UNCHANGED rows
    BY <2>1 DEF OnlyWriters
  <2> QED BY <1>1, <2>1, <2>2, WritersUntouched DEF WInv
<1>4. CASE Crash \/ \E w \in Writers : Writer(w)
  BY <1>1, <1>4, WriterStep, CrashStep DEF WInv
<1> QED BY <1>2, <1>3, <1>4 DEF Next

LEMMA BatchInvariance ==
    ASSUME "freed" \notin Faults, NoEmptyMessage
    PROVE  Spec => []WInv
BY WInvInit, WInvStep, PTL DEF Spec

(* While no one holds write_mu the table has every row of the last batch   *)
(* that was answered ok: for any requests and any number of RPC threads,   *)
(* wherever a crash falls, until a message is delivered.                   *)
THEOREM BatchIsolation ==
    ASSUME "freed" \notin Faults, NoEmptyMessage
    PROVE  Spec => []LastBatchStands
<1>1. WInv => LastBatchStands
  <2> SUFFICES ASSUME WInv, mu = NoWriter, OnlyWriters
               PROVE  Stands(rows, lastPut, Len(lastPut))
    <3>1. WInv => DOMAIN lastPut = 1 .. Len(lastPut)
      BY WritersAssumption DEF WInv, Typed, TypeOK
    <3> QED BY <3>1 DEF LastBatchStands, Stands
  <2>1. \A w \in Writers : pc[w] # "upsert"
    BY WritersAssumption DEF WInv, Locked
  <2> QED BY <2>1 DEF WInv, Isolated
<1> QED BY <1>1, BatchInvariance, PTL

(* A batch with a row that does not convert leaves no row of it behind.    *)
THEOREM RejectionIsClean ==
    ASSUME "freed" \notin Faults, NoEmptyMessage
    PROVE  Spec => []RejectedBatchPutsNothing
<1>1. WInv => RejectedBatchPutsNothing
  BY DEF WInv
<1> QED BY <1>1, BatchInvariance, PTL
=============================================================================
