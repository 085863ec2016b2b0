---------------------------- MODULE ReplayProofs ----------------------------
(***************************************************************************)
(* Proofs about what the Kafka consumer of TableWriters.tla makes of a     *)
(* table, for any topic, table, import, number of restarts and faults, as  *)
(* long as payloads are intact and consumers follow one another: replays   *)
(* converge (ReplayConverges), and stops replay nothing (StopsAreExact).   *)
(***************************************************************************)
EXTENDS TableWritersProofs, FiniteSetTheorems

(* The items of message n among all of them.                               *)
LEMMA ItemsOfMessage ==
    ASSUME NEW n \in 1 .. Len(Topic)
    PROVE  LET e == Effective(Topic[n]) IN
           /\ Reached(n - 1) \in Nat /\ Len(e) \in Nat
           /\ Reached(n) = Reached(n - 1) + Len(e)
           /\ Reached(n) <= Len(All)
           /\ \A i \in 1 .. Len(e) : All[Reached(n - 1) + i] = Topic[n][i]
<1>1. /\ Topic[n] \in Seq(Item)
      /\ Reached(n - 1) \in Nat /\ Len(Effective(Topic[n])) \in Nat
      /\ Reached(n) = Reached(n - 1) + Len(Effective(Topic[n]))
      /\ \A i \in 1 .. Len(Effective(Topic[n])) :
             AppliedItems[n][Reached(n - 1) + i] = Effective(Topic[n])[i]
  BY OneMessage
<1>2. Reached(n) <= Len(All)
      /\ \A i \in 1 .. Reached(n) : All[i] = AppliedItems[n][i]
  BY MessagesInOrder, WritersAssumption DEF All, Reached
<1>3. \A i \in 1 .. Len(Effective(Topic[n])) :
          Effective(Topic[n])[i] = Topic[n][i]
  BY <1>1, EffectivePart
<1>4. ASSUME NEW i \in 1 .. Len(Effective(Topic[n]))
      PROVE  All[Reached(n - 1) + i] = Topic[n][i]
  <2>1. Reached(n - 1) + i \in 1 .. Reached(n)
    BY <1>1
  <2> QED BY <1>1, <1>2, <1>3, <2>1
<1> QED BY <1>1, <1>2, <1>4
-----------------------------------------------------------------------------
(* Tags.                                                                   *)

LEMMA OccurrencesAreFinite ==
    ASSUME NEW s \in Seq(Values), NEW v
    PROVE  /\ IsFiniteSet({i \in DOMAIN s : s[i] = v})
           /\ Occurrences(s, v) \in Nat
<1>1. IsFiniteSet(1 .. Len(s))
  BY FS_Interval
<1>2. {i \in DOMAIN s : s[i] = v} \subseteq 1 .. Len(s)
  OBVIOUS
<1>3. IsFiniteSet({i \in DOMAIN s : s[i] = v})
  BY <1>1, <1>2, FS_Subset
<1> QED BY <1>3, FS_CardinalityType DEF Occurrences

(* Appending adds occurrences.                                             *)
LEMMA OccurrencesAdd ==
    ASSUME NEW s \in Seq(Values), NEW t \in Seq(Values), NEW v
    PROVE  Occurrences(s \o t, v) = Occurrences(s, v) + Occurrences(t, v)
<1> DEFINE S == {i \in DOMAIN s : s[i] = v}
           T == {i \in DOMAIN t : t[i] = v}
           U == {i \in DOMAIN (s \o t) : (s \o t)[i] = v}
           V == {i \in U : i > Len(s)}
           f == [i \in T |-> Len(s) + i]
<1>1. /\ Len(s) \in Nat /\ Len(t) \in Nat
      /\ DOMAIN s = 1 .. Len(s) /\ DOMAIN t = 1 .. Len(t)
      /\ DOMAIN (s \o t) = 1 .. Len(s) + Len(t)
      /\ \A i \in 1 .. Len(s) : (s \o t)[i] = s[i]
      /\ \A i \in 1 .. Len(t) : (s \o t)[Len(s) + i] = t[i]
  OBVIOUS
<1>2. IsFiniteSet(S) /\ IsFiniteSet(T)
  BY OccurrencesAreFinite
<1>3. U = S \cup V /\ S \cap V = {}
  <2> HIDE DEF f
  <2>1. S = {i \in U : i <= Len(s)}
    BY <1>1
  <2>2. U \subseteq Int
    BY <1>1
  <2>3. Len(s) \in Nat
    BY <1>1
  <2>4. \A i \in Int : i <= Len(s) \/ i > Len(s)
    BY <2>3
  <2>5. \A i \in Int : ~(i <= Len(s) /\ i > Len(s))
    BY <2>3
  <2> HIDE DEF U, S
  <2> QED BY <2>1, <2>2, <2>4, <2>5, Zenon
<1>4. \A i \in T : Len(s) + i \in V
  BY <1>1
<1>5. \A j \in V : j - Len(s) \in T /\ Len(s) + (j - Len(s)) = j
  <2> SUFFICES ASSUME NEW j \in V
               PROVE  j - Len(s) \in T /\ Len(s) + (j - Len(s)) = j
    OBVIOUS
  <2>1. j \in Int /\ j - Len(s) \in 1 .. Len(t) /\ Len(s) + (j - Len(s)) = j
    BY <1>1
  <2>2. (s \o t)[j] = v
    OBVIOUS
  <2>3. t[j - Len(s)] = v
    BY <1>1, <2>1, <2>2
  <2> QED BY <1>1, <2>1, <2>3
<1>6. \A i, j \in T : Len(s) + i = Len(s) + j => i = j
  BY <1>1
<1>7. ExistsBijection(T, V)
  <2> HIDE DEF S, T, U, V
  <2>1. f \in [T -> V]
    BY <1>4
  <2>2. f \in Bijection(T, V)
    BY <1>4, <1>5, <1>6, <2>1 DEF Bijection, Injection, Surjection, IsInjective
  <2> QED BY <2>2 DEF ExistsBijection
<1> HIDE DEF S, T, U, V, f
<1>8. IsFiniteSet(V) /\ Cardinality(V) = Cardinality(T)
  BY <1>2, <1>7, FS_Bijection
<1>9. Cardinality(U) = Cardinality(S) + Cardinality(V) - Cardinality({})
  BY <1>2, <1>3, <1>8, FS_Union
<1>10. Cardinality({}) = 0 /\ Cardinality(S) \in Nat /\ Cardinality(V) \in Nat
  BY <1>2, <1>8, FS_EmptySet, FS_CardinalityType
<1>11. Cardinality(U) = Cardinality(S) + Cardinality(T)
  BY <1>8, <1>9, <1>10
<1> QED BY <1>11 DEF Occurrences, S, T, U

(* s has every element of t, as often.                                     *)
AtLeast(s, t) == \A v \in Values : Occurrences(s, v) >= Occurrences(t, v)

LEMMA AtLeastAppended ==
    ASSUME NEW s \in Seq(Values), NEW t \in Seq(Values), AtLeast(s, t),
           NEW u \in Seq(Values)
    PROVE  AtLeast(s \o u, t \o u) /\ AtLeast(s \o u, t)
<1> SUFFICES ASSUME NEW v \in Values
             PROVE  /\ Occurrences(s \o u, v) >= Occurrences(t \o u, v)
                    /\ Occurrences(s \o u, v) >= Occurrences(t, v)
  BY DEF AtLeast
<1>1. Occurrences(s, v) >= Occurrences(t, v)
  BY Zenon DEF AtLeast
<1>2. /\ Occurrences(s \o u, v) = Occurrences(s, v) + Occurrences(u, v)
      /\ Occurrences(t \o u, v) = Occurrences(t, v) + Occurrences(u, v)
  BY OccurrencesAdd
<1>3. /\ Occurrences(s, v) \in Nat /\ Occurrences(t, v) \in Nat
      /\ Occurrences(u, v) \in Nat
  BY OccurrencesAreFinite
<1> QED BY <1>1, <1>2, <1>3

LEMMA AtLeastReflexive ==
    ASSUME NEW s \in Seq(Values)
    PROVE  AtLeast(s, s)
<1>1. \A v : Occurrences(s, v) \in Nat
  BY OccurrencesAreFinite
<1> QED BY <1>1 DEF AtLeast
-----------------------------------------------------------------------------
(* One item and one row.                                                   *)

RowOf(r, it) ==
    IF it.op = "delete" THEN Absent
    ELSE IF Puts(r, it) THEN DocOf(r, it) ELSE r

LEMMA ApplyItemRow ==
    ASSUME NEW t \in Table, NEW it \in Item, NEW p \in Pks
    PROVE  ApplyItem(t, it)[p] = IF p = it.pk THEN RowOf(t[p], it) ELSE t[p]
<1>1. it.pk \in Pks
  BY DEF Item
<1>2. \A r : [t EXCEPT ![it.pk] = r][p] = IF p = it.pk THEN r ELSE t[p]
  BY <1>1 DEF Table
<1> QED BY <1>2 DEF ApplyItem, RowOf

LEMMA AbsentIsNoRow ==
    ASSUME NEW r \in Row
    PROVE  r # Absent /\ r.a \in Values /\ r.tags \in Seq(Values)
BY MergeAssumption DEF Row

(* The document that an upsert or an insert puts.                          *)
LEMMA DocFields ==
    ASSUME NEW r \in Row \cup {Absent}, NEW it \in Item
    PROVE  LET d == DocOf(r, it)
               old == IF it.op = "insert" \/ r = Absent THEN NewDoc ELSE r
           IN  /\ d \in Row /\ old \in Row
               /\ d.a = IF it.a = Keep THEN old.a ELSE it.a
               /\ d.tags = old.tags \o it.tags
<1>1. NewDoc \in Row
  BY MergeAssumption DEF NewDoc, Row
<1> QED BY <1>1, DocOfType DEF DocOf, MergeJsonIntoDoc, CopyDocFromSchema

(* Row r has what row once has: it is there if once is, with the scalar of *)
(* once unless that is still to come, and at least its tags.               *)
Near(r, once, toCome) ==
    IF once = Absent THEN r = Absent
    ELSE /\ r # Absent
         /\ r.a = once.a \/ toCome
         /\ AtLeast(r.tags, once.tags)

(* The same item on both keeps them so.                                    *)
LEMMA SameItem ==
    ASSUME NEW r \in Row \cup {Absent}, NEW once \in Row \cup {Absent},
           NEW it \in Item, Near(r, once, FALSE)
    PROVE  Near(RowOf(r, it), RowOf(once, it), FALSE)
<1>1. CASE once = Absent
  <2>1. r = once
    BY <1>1 DEF Near
  <2>2. RowOf(once, it) \in Row \cup {Absent}
    BY DocOfType DEF RowOf
  <2>3. \A x \in Row : Near(x, x, FALSE)
    BY AbsentIsNoRow, AtLeastReflexive DEF Near
  <2>4. Near(Absent, Absent, FALSE)
    BY DEF Near
  <2> QED BY <2>1, <2>2, <2>3, <2>4
<1>2. CASE once # Absent
  <2>1. /\ r \in Row /\ once \in Row /\ r # Absent
        /\ r.a = once.a /\ AtLeast(r.tags, once.tags)
    BY <1>2 DEF Near
  <2>2. CASE it.op = "delete"
    BY <2>2 DEF RowOf, Near
  <2>3. CASE it.op = "upsert"
    <3>1. RowOf(r, it) = DocOf(r, it) /\ RowOf(once, it) = DocOf(once, it)
      BY <2>3 DEF RowOf, Puts
    <3>2. /\ DocOf(r, it) \in Row /\ DocOf(once, it) \in Row
          /\ DocOf(r, it).a = DocOf(once, it).a
          /\ DocOf(r, it).tags = r.tags \o it.tags
          /\ DocOf(once, it).tags = once.tags \o it.tags
      <4>1. /\ DocOf(r, it) \in Row /\ DocOf(r, it).tags = r.tags \o it.tags
            /\ DocOf(r, it).a = IF it.a = Keep THEN r.a ELSE it.a
        BY <2>1, <2>3, DocFields
      <4>2. /\ DocOf(once, it) \in Row
            /\ DocOf(once, it).tags = once.tags \o it.tags
            /\ DocOf(once, it).a = IF it.a = Keep THEN once.a ELSE it.a
        BY <1>2, <2>1, <2>3, DocFields
      <4> QED BY <2>1, <4>1, <4>2
    <3>3. AtLeast(r.tags \o it.tags, once.tags \o it.tags)
      <4>1. it.tags \in Seq(Values)
        BY DEF Item
      <4> QED BY <2>1, <4>1, AbsentIsNoRow, AtLeastAppended
    <3> QED BY <3>1, <3>2, <3>3, AbsentIsNoRow DEF Near
  <2>4. CASE it.op \notin {"delete", "upsert"}
    <3>1. RowOf(r, it) = r /\ RowOf(once, it) = once
      BY <1>2, <2>1, <2>4 DEF RowOf, Puts
    <3> QED BY <3>1
  <2> QED BY <2>2, <2>3, <2>4
<1> QED BY <1>1, <1>2

(* An item that once already has, applied to r once more.                  *)
LEMMA ReplayedItem ==
    ASSUME NEW r \in Row \cup {Absent}, NEW once \in Row \cup {Absent},
           NEW it \in Item, NEW before \in BOOLEAN, NEW after \in BOOLEAN,
           Near(r, once, before),
           it.op # "delete",
           it.op \in {"upsert", "insert"} => once # Absent,
           it.op = "upsert" /\ it.a # Keep => it.a = once.a \/ after,
           before => after \/ (it.op = "upsert" /\ it.a # Keep)
    PROVE  Near(RowOf(r, it), once, after)
<1>1. CASE it.op = "upsert"
  <2>1. /\ r \in Row /\ once \in Row /\ r # Absent /\ once # Absent
        /\ r.a = once.a \/ before
        /\ AtLeast(r.tags, once.tags)
    BY <1>1 DEF Near
  <2>2. RowOf(r, it) = DocOf(r, it)
    BY <1>1 DEF RowOf, Puts
  <2>3. /\ DocOf(r, it) \in Row
        /\ DocOf(r, it).a = IF it.a = Keep THEN r.a ELSE it.a
        /\ DocOf(r, it).tags = r.tags \o it.tags
    BY <1>1, <2>1, DocFields
  <2>4. DocOf(r, it).a = once.a \/ after
    BY <1>1, <2>1, <2>3
  <2>5. AtLeast(r.tags \o it.tags, once.tags)
    <3>1. it.tags \in Seq(Values)
      BY DEF Item
    <3> QED BY <2>1, <3>1, AbsentIsNoRow, AtLeastAppended
  <2> QED BY <2>1, <2>2, <2>3, <2>4, <2>5, AbsentIsNoRow DEF Near
<1>2. CASE it.op # "upsert"
  <2>1. RowOf(r, it) = r
    <3>1. it.op = "insert" => r # Absent
      BY DEF Near
    <3> QED BY <1>2, <3>1 DEF RowOf, Puts
  <2>2. before => after
    BY <1>2
  <2> QED BY <2>1, <2>2 DEF Near
<1> QED BY <1>1, <1>2
-----------------------------------------------------------------------------
(* A row through the items of the topic.                                   *)

Deletes(i, p) == All[i].op = "delete" /\ All[i].pk = p
Sets(i, p) == All[i].op = "upsert" /\ All[i].pk = p /\ All[i].a # Keep

(* Row p after the first i items.                                          *)
Once(i, p) == RowsAfter[i][p]

LEMMA OnceType ==
    ASSUME NEW i \in 0 .. Len(All), NEW p \in Pks
    PROVE  Once(i, p) \in Row \cup {Absent}
<1>1. RowsAfter[i] \in Table
  BY RowsAfterRecursion
<1> QED BY <1>1 DEF Once, Table

LEMMA OnceStep ==
    ASSUME NEW i \in 1 .. Len(All), NEW p \in Pks
    PROVE  /\ All[i] \in Item
           /\ Once(i - 1, p) \in Row \cup {Absent}
           /\ Once(i, p) = IF p = All[i].pk THEN RowOf(Once(i - 1, p), All[i])
                           ELSE Once(i - 1, p)
<1>1. All[i] \in Item /\ i - 1 \in 0 .. Len(All)
  BY AllType
<1>2. RowsAfter[i - 1] \in Table /\ RowsAfter[i] = ApplyItem(RowsAfter[i - 1], All[i])
  BY <1>1, RowsAfterRecursion
<1> QED BY <1>1, <1>2, ApplyItemRow, OnceType DEF Once

(* An item leaves a row that is there, unless it deletes it, with its      *)
(* scalar, unless it sets it.                                              *)
LEMMA RowStays ==
    ASSUME NEW i \in 1 .. Len(All), NEW p \in Pks,
           Once(i - 1, p) # Absent, ~Deletes(i, p)
    PROVE  /\ Once(i, p) # Absent
           /\ ~Sets(i, p) => Once(i, p).a = Once(i - 1, p).a
<1>1. /\ All[i] \in Item /\ Once(i - 1, p) \in Row
      /\ Once(i, p) = IF p = All[i].pk THEN RowOf(Once(i - 1, p), All[i])
                      ELSE Once(i - 1, p)
  BY OnceStep
<1>2. CASE p = All[i].pk /\ All[i].op = "upsert"
  <2>1. Once(i, p) = DocOf(Once(i - 1, p), All[i])
    BY <1>1, <1>2 DEF RowOf, Puts
  <2>2. /\ DocOf(Once(i - 1, p), All[i]) \in Row
        /\ DocOf(Once(i - 1, p), All[i]).a =
              IF All[i].a = Keep THEN Once(i - 1, p).a ELSE All[i].a
    BY <1>1, <1>2, DocFields
  <2> QED BY <1>2, <2>1, <2>2, AbsentIsNoRow DEF Sets
<1>3. CASE p = All[i].pk /\ All[i].op # "upsert"
  <2>1. RowOf(Once(i - 1, p), All[i]) = Once(i - 1, p)
    BY <1>3 DEF RowOf, Puts, Deletes
  <2> QED BY <1>1, <1>3, <2>1
<1>4. CASE p # All[i].pk
  BY <1>1, <1>4
<1> QED BY <1>2, <1>3, <1>4

LEMMA RowStaysOn ==
    ASSUME NEW i \in 0 .. Len(All), NEW g \in i .. Len(All), NEW p \in Pks,
           Once(i, p) # Absent, \A d \in i + 1 .. g : ~Deletes(d, p)
    PROVE  /\ Once(g, p) # Absent
           /\ (\A k \in i + 1 .. g : ~Sets(k, p)) => Once(g, p).a = Once(i, p).a
<1> DEFINE Good(j) ==
               /\ Once(j, p) # Absent
               /\ (\A k \in i + 1 .. j : ~Sets(k, p)) => Once(j, p).a = Once(i, p).a
           Worse == {j \in i .. g : ~Good(j)}
<1>0. Len(All) \in Nat
  BY AllType
<1>1. ASSUME Worse # {} PROVE FALSE
  <2>1. PICK j \in Worse : \A k \in Worse : j <= k
    <3>1. Worse \subseteq Nat
      OBVIOUS
    <3> HIDE DEF Worse
    <3> QED BY <1>1, <3>1, LeastNumber
  <2>2. j \in i .. g /\ ~Good(j) /\ j # i
    OBVIOUS
  <2>3. j \in 1 .. Len(All) /\ j - 1 \in i .. g /\ j - 1 \notin Worse
    BY <1>0, <2>1, <2>2
  <2>4. Good(j - 1)
    BY <2>3
  <2>5. ~Deletes(j, p)
    BY <2>2, <2>3
  <2>6. /\ Once(j, p) # Absent
        /\ ~Sets(j, p) => Once(j, p).a = Once(j - 1, p).a
    BY <2>3, <2>4, <2>5, RowStays
  <2>7. j \in i + 1 .. j /\ \A k \in i + 1 .. j - 1 : k \in i + 1 .. j
    BY <2>2, <2>3
  <2>8. Good(j)
    BY <2>4, <2>6, <2>7
  <2> QED BY <2>2, <2>8
<1>2. g \in i .. g
  BY <1>0
<1>3. Good(g)
  BY <1>1, <1>2
<1> QED BY <1>3

(* What item i puts is still there after item g, when nothing between them *)
(* deletes it.                                                             *)
LEMMA PutStays ==
    ASSUME NEW i \in 1 .. Len(All), NEW g \in i .. Len(All),
           All[i].op \in {"upsert", "insert"},
           \A d \in i + 1 .. g : ~Deletes(d, All[i].pk)
    PROVE  /\ Once(g, All[i].pk) # Absent
           /\ Sets(i, All[i].pk) =>
                 \/ Once(g, All[i].pk).a = All[i].a
                 \/ \E k \in i + 1 .. g : Sets(k, All[i].pk)
<1> DEFINE p == All[i].pk
<1>1. p \in Pks /\ i \in 0 .. Len(All)
  <2>1. All[i] \in Item
    BY AllType
  <2> QED BY <2>1, AllType DEF Item
<1>2. /\ All[i] \in Item /\ Once(i - 1, p) \in Row \cup {Absent}
      /\ Once(i, p) = RowOf(Once(i - 1, p), All[i])
  BY <1>1, OnceStep
<1>3. CASE Puts(Once(i - 1, p), All[i])
  <2>1. Once(i, p) = DocOf(Once(i - 1, p), All[i])
    BY <1>2, <1>3 DEF RowOf
  <2>2. /\ DocOf(Once(i - 1, p), All[i]) \in Row
        /\ All[i].a # Keep => DocOf(Once(i - 1, p), All[i]).a = All[i].a
    BY <1>2, DocFields
  <2>3. /\ Once(i, p) # Absent
        /\ Sets(i, p) => Once(i, p).a = All[i].a
    BY <2>1, <2>2, AbsentIsNoRow DEF Sets
  <2> HIDE DEF p
  <2> QED BY <1>1, <2>3, RowStaysOn DEF p
<1>4. CASE ~Puts(Once(i - 1, p), All[i])
  <2>1. Once(i, p) = Once(i - 1, p) /\ Once(i, p) # Absent /\ ~Sets(i, p)
    BY <1>2, <1>4 DEF RowOf, Puts, Sets
  <2> HIDE DEF p
  <2> QED BY <1>1, <2>1, RowStaysOn DEF p
<1> QED BY <1>3, <1>4
-----------------------------------------------------------------------------
(* A table on its way.                                                     *)

(* Row p of table t after a replay from item n, of which the first g items *)
(* were applied before: it is there if Once is, with the scalar of Once    *)
(* unless an item that is replayed sets it, and at least its tags.         *)
Ahead(t, n, g, p) ==
    /\ \A d \in n + 1 .. g : ~Deletes(d, p)
    /\ Near(t[p], Once(g, p), \E k \in n + 1 .. g : Sets(k, p))

(* Table t with items n + 1 .. h to come: a key that one of them deletes   *)
(* may be anything.                                                        *)
Converging(t, n, h) ==
    \A p \in Pks : \/ \E d \in n + 1 .. h : Deletes(d, p)
                   \/ \E g \in n .. h : Ahead(t, n, g, p)

(* The next item is applied, whatever was applied before.                  *)
LEMMA ConvergingApply ==
    ASSUME NEW t \in Table, NEW n \in Nat, NEW h \in n + 1 .. Len(All),
           Converging(t, n, h)
    PROVE  Converging(ApplyItem(t, All[n + 1]), n + 1, h)
<1> DEFINE it == All[n + 1]
           u == ApplyItem(t, it)
<1>0. Len(All) \in Nat /\ n + 1 \in 1 .. Len(All) /\ n \in 0 .. Len(All)
      /\ (n + 1) - 1 = n
  BY AllType
<1> SUFFICES ASSUME NEW p \in Pks
             PROVE  \/ \E d \in (n + 1) + 1 .. h : Deletes(d, p)
                    \/ \E g \in n + 1 .. h : Ahead(u, n + 1, g, p)
  BY DEF Converging
<1>1. /\ it \in Item /\ t[p] \in Row \cup {Absent}
      /\ u[p] = IF p = it.pk THEN RowOf(t[p], it) ELSE t[p]
  <2>1. it \in Item
    BY <1>0, AllType
  <2> QED BY <2>1, ApplyItemRow DEF Table
<1>2. /\ Once(n, p) \in Row \cup {Absent}
      /\ Once(n + 1, p) = IF p = it.pk THEN RowOf(Once(n, p), it) ELSE Once(n, p)
  BY <1>0, OnceStep
<1> HIDE DEF u
<1>3. ASSUME Near(u[p], Once(n + 1, p), FALSE)
      PROVE  \E g \in n + 1 .. h : Ahead(u, n + 1, g, p)
  <2>1. (n + 1) + 1 .. n + 1 = {} /\ n + 1 \in n + 1 .. h
    BY <1>0
  <2>2. ~\E k \in (n + 1) + 1 .. n + 1 : Sets(k, p)
    BY <2>1
  <2>3. Ahead(u, n + 1, n + 1, p)
    BY <1>3, <2>1, <2>2, Zenon DEF Ahead
  <2> QED BY <2>1, <2>3
<1>4. CASE Deletes(n + 1, p)
  <2>1. u[p] = Absent /\ Once(n + 1, p) = Absent
    BY <1>1, <1>2, <1>4 DEF Deletes, RowOf
  <2> QED BY <1>3, <2>1 DEF Near
<1>5. CASE ~Deletes(n + 1, p) /\ \E d \in n + 1 .. h : Deletes(d, p)
  <2>1. PICK d \in n + 1 .. h : Deletes(d, p)
    BY <1>5
  <2>2. d # n + 1
    BY <1>5, <2>1
  <2>3. d \in (n + 1) + 1 .. h
    BY <1>0, <2>2
  <2> QED BY <2>1, <2>3
<1>6. CASE ~Deletes(n + 1, p) /\ \E g \in n .. h : Ahead(t, n, g, p)
  <2>1. PICK g \in n .. h : Ahead(t, n, g, p)
    BY <1>6
  <2>2. CASE g = n
    <3>1. n + 1 .. n = {}
      BY <1>0
    <3>2. Near(t[p], Once(n, p), FALSE)
      <4>1. (\E k \in n + 1 .. n : Sets(k, p)) = FALSE
        BY <3>1
      <4> QED BY <2>1, <2>2, <4>1 DEF Ahead
    <3>3. Near(u[p], Once(n + 1, p), FALSE)
      BY <1>1, <1>2, <3>2, SameItem
    <3> QED BY <1>3, <3>3
  <2>3. CASE g # n
    <3> DEFINE before == \E k \in n + 1 .. g : Sets(k, p)
               after == \E k \in (n + 1) + 1 .. g : Sets(k, p)
    <3>1. /\ g \in n + 1 .. h /\ g \in n + 1 .. Len(All) /\ g \in 0 .. Len(All)
          /\ (n + 1) + 1 .. g \subseteq n + 1 .. g
          /\ \A k \in n + 1 .. g : k = n + 1 \/ k \in (n + 1) + 1 .. g
      BY <1>0, <2>3
    <3>2. /\ \A d \in (n + 1) + 1 .. g : ~Deletes(d, p)
          /\ Near(t[p], Once(g, p), before)
      BY <2>1, <3>1 DEF Ahead
    <3>3. before => after \/ Sets(n + 1, p)
      BY <3>1
    <3>4. before \in BOOLEAN /\ after \in BOOLEAN
      OBVIOUS
    <3>5. Once(g, p) \in Row \cup {Absent}
      BY <3>1, OnceType
    <3>6. Near(u[p], Once(g, p), after)
      <4>1. CASE p = it.pk
        <5>1. it.op # "delete"
          BY <1>6, <4>1 DEF Deletes
        <5>2. it.op \in {"upsert", "insert"} =>
                 /\ Once(g, p) # Absent
                 /\ Sets(n + 1, p) => Once(g, p).a = it.a \/ after
          BY <1>0, <3>1, <3>2, <4>1, PutStays
        <5>3. Sets(n + 1, p) <=> (it.op = "upsert" /\ it.a # Keep)
          BY <4>1 DEF Sets
        <5> HIDE DEF before, after, it
        <5>4. /\ it.op \in {"upsert", "insert"} => Once(g, p) # Absent
              /\ it.op = "upsert" /\ it.a # Keep => it.a = Once(g, p).a \/ after
              /\ before => after \/ (it.op = "upsert" /\ it.a # Keep)
          BY <3>3, <5>2, <5>3
        <5>5. Near(RowOf(t[p], it), Once(g, p), after)
          BY <1>1, <3>2, <3>4, <3>5, <5>1, <5>4, ReplayedItem
        <5> QED BY <1>1, <4>1, <5>5
      <4>2. CASE p # it.pk
        <5>1. ~Sets(n + 1, p)
          BY <4>2 DEF Sets
        <5> HIDE DEF before, after
        <5> QED BY <1>1, <3>2, <3>3, <3>4, <4>2, <5>1 DEF Near
      <4> QED BY <4>1, <4>2
    <3>7. Ahead(u, n + 1, g, p)
      BY <3>2, <3>6 DEF Ahead
    <3> QED BY <3>1, <3>7
  <2> QED BY <2>2, <2>3
<1> QED BY <1>4, <1>5, <1>6 DEF Converging

(* The consumer goes back.                                                 *)
LEMMA ConvergingBack ==
    ASSUME NEW t, NEW n \in Nat, NEW m \in 0 .. n, NEW h \in Nat,
           Converging(t, n, h)
    PROVE  Converging(t, m, h)
<1> SUFFICES ASSUME NEW p \in Pks, ~\E d \in m + 1 .. h : Deletes(d, p)
             PROVE  \E g \in m .. h : Ahead(t, m, g, p)
  BY DEF Converging
<1>1. n + 1 .. h \subseteq m + 1 .. h
  OBVIOUS
<1>2. PICK g \in n .. h : Ahead(t, n, g, p)
  BY <1>1 DEF Converging
<1>3. g \in m .. h /\ m + 1 .. g \subseteq m + 1 .. h
      /\ n + 1 .. g \subseteq m + 1 .. g
  OBVIOUS
<1>4. Near(t[p], Once(g, p), \E k \in m + 1 .. g : Sets(k, p))
  <2>1. (\E k \in n + 1 .. g : Sets(k, p)) => \E k \in m + 1 .. g : Sets(k, p)
    BY <1>3
  <2>2. Near(t[p], Once(g, p), \E k \in n + 1 .. g : Sets(k, p))
    BY <1>2 DEF Ahead
  <2> QED BY <2>1, <2>2 DEF Near
<1>5. Ahead(t, m, g, p)
  BY <1>3, <1>4 DEF Ahead
<1> QED BY <1>3, <1>5

(* The partition grows.                                                    *)
LEMMA ConvergingOn ==
    ASSUME NEW t, NEW n \in Nat, NEW h \in Nat, NEW m \in Nat, h <= m,
           Converging(t, n, h)
    PROVE  Converging(t, n, m)
<1>1. n + 1 .. h \subseteq n + 1 .. m /\ n .. h \subseteq n .. m
  OBVIOUS
<1> QED BY <1>1 DEF Converging

(* The start, and the end.                                                 *)
LEMMA ConvergingFrom ==
    ASSUME NEW n \in 0 .. Len(All)
    PROVE  Converging(RowsAfter[n], n, n)
<1> SUFFICES ASSUME NEW p \in Pks
             PROVE  Ahead(RowsAfter[n], n, n, p)
  BY AllType DEF Converging
<1>1. n + 1 .. n = {}
  BY AllType
<1>2. Once(n, p) \in Row \cup {Absent}
  BY OnceType
<1>3. Near(Once(n, p), Once(n, p), FALSE)
  BY <1>2, AbsentIsNoRow, AtLeastReflexive DEF Near
<1>4. (\E k \in n + 1 .. n : Sets(k, p)) = FALSE
  BY <1>1
<1> QED BY <1>1, <1>3, <1>4 DEF Ahead, Once

LEMMA Converged ==
    ASSUME NEW t, NEW n \in Nat, Converging(t, n, n), NEW p \in Pks
    PROVE  Near(t[p], Once(n, p), FALSE)
<1>1. n + 1 .. n = {} /\ n .. n = {n}
  OBVIOUS
<1>2. Ahead(t, n, n, p)
  BY <1>1 DEF Converging
<1>3. (\E k \in n + 1 .. n : Sets(k, p)) = FALSE
  BY <1>1
<1> QED BY <1>2, <1>3 DEF Ahead
-----------------------------------------------------------------------------
(* The consumer.                                                           *)

(* How many items lie behind the consumer, or behind the offset that it    *)
(* would start from.                                                       *)
Position ==
    IF consumer \in {"apply", "write"} THEN Reached(next - 1) + item - 1
    ELSE IF consumer \in {"poll", "truncate", "save"} THEN Reached(next)
    ELSE IF phase = "import" THEN Reached(Included)
    ELSE Reached(LoadOffset)

(* A restart goes back, never forward; the consumer stays within the part  *)
(* of a message that is applied, and no one else mutates the table before  *)
(* the first put.                                                          *)
Course ==
    /\ next <= produced /\ Included <= produced
    /\ LoadOffset <= next
    /\ phase = "import" => offsetFile = NoOffset /\ ~stop
    /\ phase = "failed" => consumer = "off"
    /\ consumer \in {"apply", "write"} =>
          LoadOffset <= next - 1 /\ item <= Len(Effective(items)) + 1
    /\ consumer = "write" => item <= Len(Effective(items))
    /\ puts = 0 =>
          /\ \A w \in Writers : pc[w] = "idle"
          /\ consumer = "write" => Puts(Old, This) /\ doc = DocOf(Old, This)

(* Every item behind the consumer was applied once and no other was, and a *)
(* restart would go on from there.                                         *)
Exact ==
    puts = 0 /\ ~lossy /\ phase # "failed" =>
        /\ rows = RowsAfter[Position]
        /\ phase = "serve" /\ consumer = "poll" => LoadOffset = next

Converges ==
    puts = 0 /\ phase # "failed" =>
        Converging(rows, Position, Reached(produced))

RInv == IInv /\ Course /\ Exact /\ Converges

LEMMA LoadOffsetType ==
    ASSUME TypeOK
    PROVE  LoadOffset \in 0 .. Len(Topic)
BY WritersAssumption DEF TypeOK, Offsets, NoOffset, LoadOffset

LEMMA RInvInit ==
    ASSUME Init, IInv
    PROVE  RInv
<1>0. /\ Included \in 0 .. Len(Topic) /\ Len(Topic) \in Nat
      /\ 0 \in 0 .. Len(Topic) /\ 0 <= Included
  BY WritersAssumption
<1>1. /\ phase \in {"import", "serve"} /\ produced = Included
      /\ offsetFile = NoOffset /\ rows = Base /\ consumer = "off"
      /\ ~stop /\ next = 0 /\ puts = 0 /\ \A w \in Writers : pc[w] = "idle"
      /\ ~lossy => phase = "import" \/ ~(Included > 0)
      /\ LoadOffset = 0
  <2>1. ~lossy => phase = "import" \/ ~(Included > 0)
    <3>1. phase \in {"import", "serve"} /\ lossy = (phase = "serve" /\ Included > 0)
      BY Zenon DEF Init
    <3> QED BY <3>1, Zenon
  <2>2. \A w \in Writers : pc[w] = "idle"
    BY DEF Init
  <2>3. offsetFile = NoOffset /\ LoadOffset = 0
    BY DEF Init, LoadOffset, NoOffset
  <2> QED BY <2>1, <2>2, <2>3 DEF Init
<1>2. Course
  BY <1>0, <1>1 DEF Course
<1>3. Position = IF phase = "import" THEN Reached(Included) ELSE Reached(0)
  BY <1>1 DEF Position
<1>4. ~lossy => Position = Reached(Included)
  BY <1>0, <1>1, <1>3
<1>5. Exact
  BY <1>1, <1>4, BaseType DEF Exact
<1>6. /\ Reached(Included) \in 0 .. Len(All) /\ Len(All) \in Nat
      /\ Position \in 0 .. Reached(Included)
  <2>1. Reached(0) \in Nat /\ Reached(0) <= Reached(Included)
    BY <1>0, MessagesInOrder
  <2>2. Reached(Included) \in 0 .. Len(All) /\ Len(All) \in Nat
    BY <1>0, ReachedType, AllType
  <2> QED BY <1>3, <2>1, <2>2
<1>7. Converging(rows, Reached(Included), Reached(Included))
  BY <1>1, <1>6, BaseType, ConvergingFrom
<1>8. Converges
  BY <1>1, <1>6, <1>7, ConvergingBack DEF Converges
<1> QED BY <1>2, <1>5, <1>8 DEF RInv

(* Where the consumer stands in a message.                                 *)
LEMMA InMessage ==
    ASSUME IInv, Course, consumer \in {"apply", "write"}
    PROVE  /\ Position \in Nat /\ item \in Nat \ {0}
           /\ next \in 1 .. Len(Topic) /\ items = Topic[next]
           /\ Len(items) \in Nat
           /\ Position + Len(Effective(items)) = Reached(next) + item - 1
           /\ Reached(next) \in 0 .. Reached(produced)
           /\ Reached(produced) \in 0 .. Len(All)
           /\ item <= Len(Effective(items)) =>
                 All[Position + 1] = This /\ This.op # "throw"
                 /\ item <= Len(items)
           /\ item <= Len(items) /\ This.op # "throw" =>
                 item <= Len(Effective(items))
<1>0. /\ next \in 1 .. Len(Topic) /\ produced \in 0 .. Len(Topic)
      /\ next \in 0 .. Len(Topic)
      /\ next <= produced /\ item \in Nat \ {0} /\ items \in Seq(Item)
      /\ (next - 1) + 1 = next
  BY WritersAssumption DEF IInv, Typed, TypeOK, Course
<1>1. items = Topic[next]
  BY <1>0 DEF IInv, Behind, Message
<1> DEFINE e == Effective(items)
<1>2. /\ Reached(next - 1) \in Nat /\ Len(e) \in Nat
      /\ Reached(next) = Reached(next - 1) + Len(e)
      /\ \A i \in 1 .. Len(e) : All[Reached(next - 1) + i] = items[i]
  BY <1>0, <1>1, ItemsOfMessage
<1>3. /\ Len(e) <= Len(items)
      /\ \A i \in 1 .. Len(e) : items[i].op # "throw"
      /\ Len(e) < Len(items) => items[Len(e) + 1].op = "throw"
  BY <1>0, EffectivePart
<1>4. /\ Reached(next) \in Nat /\ Reached(next) <= Reached(produced)
      /\ Reached(produced) \in 0 .. Len(All)
  BY <1>0, MessagesInOrder, ReachedType
<1>5. Position = Reached(next - 1) + item - 1 /\ item <= Len(e) + 1
  BY DEF Position, Course
<1>6. Len(items) \in Nat
  BY <1>0
<1> HIDE DEF e
<1>a. \A r, l \in Nat, i \in Nat \ {0} :
          /\ r + i - 1 \in Nat
          /\ (r + i - 1) + l = (r + l) + i - 1
          /\ i <= l + 1 /\ i # l + 1 => i <= l
  OBVIOUS
<1>7. ASSUME item <= Len(e)
      PROVE  All[Position + 1] = This /\ This.op # "throw" /\ item <= Len(items)
  <2>1. item \in 1 .. Len(e) /\ Position + 1 = Reached(next - 1) + item
    BY <1>0, <1>2, <1>5, <1>7
  <2> QED BY <1>0, <1>2, <1>3, <1>6, <2>1 DEF This
<1>8. ASSUME item <= Len(items), This.op # "throw"
      PROVE  item <= Len(e)
  <2>1. CASE item = Len(e) + 1
    <3>1. Len(e) < Len(items)
      BY <1>0, <1>2, <1>6, <1>8, <2>1
    <3> QED BY <1>3, <1>8, <2>1, <3>1 DEF This
  <2>2. CASE item # Len(e) + 1
    BY <1>0, <1>2, <1>5, <1>a, <2>2
  <2> QED BY <2>1, <2>2
<1>9. /\ Position \in Nat /\ Position + Len(e) = Reached(next) + item - 1
      /\ Reached(next) \in 0 .. Reached(produced)
  <2>1. Reached(next) \in 0 .. Reached(produced)
    BY <1>4
  <2>2. Reached(next - 1) \in Nat /\ Len(e) \in Nat /\ item \in Nat \ {0}
    BY <1>0, <1>2
  <2>3. Position \in Nat
    BY <1>5, <1>a, <2>2
  <2>4. Position + Len(e) = (Reached(next - 1) + Len(e)) + item - 1
    BY <1>5, <1>a, <2>2
  <2> QED BY <1>2, <2>1, <2>3, <2>4
<1> QED BY <1>0, <1>1, <1>4, <1>6, <1>7, <1>8, <1>9 DEF e

LEMMA WriterPuts ==
    ASSUME TypeOK, Course, NEW w \in Writers, Writer(w)
    PROVE  puts' # 0
<1>1. CASE Lock(w)
  <2>1. puts \in Nat /\ puts' = puts + 1
    BY <1>1, WritersAssumption DEF Lock, TypeOK
  <2> QED BY <2>1
<1>2. CASE ~Lock(w)
  <2>1. pc[w] # "idle" /\ puts' = puts
    BY <1>2 DEF Writer, Stage, StageFails, UpsertRow, Unlock
  <2> QED BY <2>1 DEF Course
<1> QED BY <1>1, <1>2

LEMMA CourseStep ==
    ASSUME "freed" \notin Faults, IInv, Course, IInv', [Next]_vars
    PROVE  Course'
<1>t. /\ next \in Nat /\ next' \in Nat /\ produced \in Nat /\ produced' \in Nat
      /\ LoadOffset \in Nat /\ LoadOffset' \in Nat /\ Included \in Nat
      /\ Included <= produced /\ next <= produced /\ LoadOffset <= next
      /\ item \in Nat \ {0} /\ offsetFile \in Int
      /\ pc \in [Writers -> {"idle", "stage", "upsert"}] /\ puts \in Nat
      /\ items \in Seq(Item) /\ Len(Effective(items)) \in Nat
      /\ items' \in Seq(Item) /\ Len(Effective(items')) \in Nat
  <2>1. /\ TypeOK /\ next \in 0 .. Len(Topic) /\ next' \in 0 .. Len(Topic)
        /\ produced \in 0 .. Len(Topic) /\ produced' \in 0 .. Len(Topic)
        /\ items \in Seq(Item) /\ items' \in Seq(Item) /\ Len(Topic) \in Nat
        /\ item \in Nat \ {0} /\ Included \in Nat
        /\ pc \in [Writers -> {"idle", "stage", "upsert"}] /\ puts \in Nat
    <3>1. TypeOK /\ TypeOK'
      BY DEF IInv, Typed
    <3>2. Included \in Nat /\ Len(Topic) \in Nat /\ MaxPuts \in Nat
      BY WritersAssumption
    <3>3. /\ next \in 0 .. Len(Topic) /\ produced \in 0 .. Len(Topic)
          /\ items \in Seq(Item) /\ item \in Nat \ {0} /\ puts \in 0 .. MaxPuts
          /\ pc \in [Writers -> {"idle", "stage", "upsert"}]
      BY <3>1 DEF TypeOK
    <3>4. /\ next' \in 0 .. Len(Topic) /\ produced' \in 0 .. Len(Topic)
          /\ items' \in Seq(Item)
      BY <3>1 DEF TypeOK
    <3> QED BY <3>1, <3>2, <3>3, <3>4
  <2>2. offsetFile \in Int /\ offsetFile' \in Int
    <3>1. Offsets \cup {NoOffset} \subseteq Int
      BY WritersAssumption DEF Offsets, NoOffset
    <3>2. /\ offsetFile \in Offsets \cup {NoOffset}
          /\ offsetFile' \in Offsets \cup {NoOffset}
      BY DEF IInv, Typed, TypeOK
    <3> QED BY <3>1, <3>2
  <2>3. LoadOffset \in Nat /\ LoadOffset' \in Nat
    <3>1. LoadOffset \in Nat
      BY <2>1, LoadOffsetType
    <3>2. \A o \in Int : (IF o >= 0 THEN o + 1 ELSE 0) \in Nat
      OBVIOUS
    <3>3. LoadOffset' \in Nat
      BY <2>2, <3>2, Zenon DEF LoadOffset
    <3> QED BY <3>1, <3>3
  <2>4. Len(Effective(items)) \in Nat /\ Len(Effective(items')) \in Nat
    BY <2>1, EffectivePart
  <2> QED BY <2>1, <2>2, <2>3, <2>4 DEF Course
<1>o. offsetFile' = offsetFile => LoadOffset' = LoadOffset
  BY DEF LoadOffset
<1> USE DEF theRun
<1>1. CASE Produce
  <2>1. UNCHANGED <<phase, stop, rows, theConsumer, theWriters>>
        /\ produced' = produced + 1
    BY <1>1 DEF Produce
  <2>2. next' <= produced' /\ Included <= produced'
    BY <1>t, <2>1 DEF theConsumer
  <2> QED BY <1>o, <2>1, <2>2
    DEF Course, theConsumer, theWriters, This, Old
<1>2. CASE Seek
  <2>1. next' <= produced
    BY <1>2, <1>t DEF Seek
  <2>2. LoadOffset = 0 /\ LoadOffset' = 0
    BY <1>2 DEF Seek, Course, LoadOffset, NoOffset
  <2> QED BY <1>2, <1>t, <2>1, <2>2 DEF Seek, Course, theWriters
<1>3. CASE CatchUpEnds \/ CatchUpFails \/ StartFails
  BY <1>3, <1>o DEF CatchUpEnds, CatchUpFails, StartFails, Course, theWriters
<1>4. CASE Start
  <2>1. next' = LoadOffset /\ LoadOffset' = LoadOffset
    BY <1>4, <1>o DEF Start
  <2>2. next' <= produced /\ LoadOffset' <= next'
    BY <1>t, <2>1
  <2> QED BY <1>4, <2>2 DEF Start, Course, theWriters
<1>5. CASE Consume
  <2>1. next < produced /\ next' = next + 1 /\ item' = 1 /\ LoadOffset' = LoadOffset
    BY <1>5, <1>o DEF Consume
  <2>2. next' <= produced /\ LoadOffset' <= next' /\ LoadOffset' <= next' - 1
        /\ item' <= Len(Effective(items')) + 1
    BY <1>t, <2>1
  <2> QED BY <1>5, <2>2 DEF Consume, Course, theWriters
<1>6. CASE SkipItem \/ DeleteItem \/ WriteItem
  <2>1. /\ consumer \in {"apply", "write"} /\ consumer' = "apply"
        /\ item' = item + 1
        /\ UNCHANGED <<phase, stop, produced, offsetFile, next, items,
                       theWriters>>
    BY <1>6 DEF SkipItem, DeleteItem, WriteItem
  <2>2. item <= Len(Effective(items))
    <3>1. CASE SkipItem \/ DeleteItem
      <4>1. item <= Len(items) /\ This.op # "throw"
        BY <3>1 DEF SkipItem, DeleteItem
      <4> QED BY <2>1, <4>1, InMessage
    <3>2. CASE WriteItem
      BY <3>2 DEF WriteItem, Course
    <3> QED BY <1>6, <3>1, <3>2
  <2>3. item' <= Len(Effective(items')) + 1
    BY <1>t, <2>1, <2>2
  <2> QED BY <1>o, <2>1, <2>3 DEF Course, theWriters
<1>7. CASE MergeItem
  <2>1. /\ consumer = "apply" /\ consumer' = "write"
        /\ item <= Len(items) /\ Puts(Old, This) /\ doc' = DocOf(Old, This)
        /\ UNCHANGED <<phase, stop, produced, rows, offsetFile, next, items,
                       item, theWriters>>
    BY <1>7 DEF MergeItem
  <2>2. This.op # "throw"
    BY <2>1 DEF Puts
  <2>3. item <= Len(Effective(items))
    BY <2>1, <2>2, InMessage
  <2>4. This' = This /\ Old' = Old
    BY <2>1 DEF This, Old
  <2> QED BY <1>o, <2>1, <2>3, <2>4 DEF Course, theWriters
<1>8. CASE MessageDone \/ StopConsumer \/ Joined
  <2>1. MessageDone \/ Joined => consumer' \in {"poll", "truncate", "off"}
    BY DEF MessageDone, Joined
  <2>2. /\ UNCHANGED <<phase, produced, rows, offsetFile, next, items, item,
                       doc, theWriters>>
        /\ StopConsumer => phase = "serve" /\ UNCHANGED consumer
        /\ Joined \/ MessageDone => stop' = FALSE \/ UNCHANGED stop
    BY <1>8 DEF MessageDone, StopConsumer, Joined, theConsumer
  <2>3. This' = This /\ Old' = Old
    BY <2>2 DEF This, Old
  <2>4. phase' = "failed" => consumer' = "off"
    BY <1>8, <2>2 DEF MessageDone, Joined, Course
  <2> QED BY <1>8, <1>o, <2>1, <2>2, <2>3, <2>4 DEF Course, theWriters
<1>9. CASE Truncate
  <2>1. LoadOffset' = 0
    BY <1>9 DEF Truncate, LoadOffset, NoOffset
  <2> QED BY <1>9, <1>t, <2>1 DEF Truncate, Course, theWriters
<1>10. CASE TruncateFails \/ SaveFails
  <2>1. /\ consumer' \in {"poll", "off"} /\ (phase' = "import" => phase = "import")
        /\ phase' = "failed" => consumer' = "off"
        /\ UNCHANGED <<stop, produced, offsetFile, next, theWriters>>
    BY <1>10 DEF TruncateFails, SaveFails, Saved, Course
  <2> QED BY <1>o, <2>1 DEF Course, theWriters
<1>11. CASE Save
  <2>1. /\ offsetFile' = next - 1 /\ consumer' \in {"poll", "off"}
        /\ phase' # "import" /\ UNCHANGED <<produced, next, theWriters>>
        /\ phase' = "failed" => consumer' = "off"
    BY <1>11 DEF Save, Saved
  <2>2. LoadOffset' <= next'
    BY <1>t, <2>1 DEF LoadOffset
  <2> QED BY <2>1, <2>2 DEF Course, theWriters
<1>12. CASE Crash
  <2>1. /\ consumer' = "off" /\ phase' # "import"
        /\ pc' = [w \in Writers |-> "idle"]
        /\ UNCHANGED <<produced, offsetFile, next>>
    BY <1>12 DEF Crash
  <2> QED BY <1>o, <2>1 DEF Course
<1>13. ASSUME NEW w \in Writers, Writer(w) PROVE Course'
  <2>1. puts' # 0
    BY <1>13, WriterPuts DEF IInv, Typed
  <2>2. UNCHANGED <<phase, stop, produced, theConsumer>>
    BY <1>13 DEF Writer, Lock, Stage, StageFails, UpsertRow, Unlock
  <2> QED BY <1>o, <2>1, <2>2 DEF Course, theConsumer
<1>14. CASE UNCHANGED vars
  BY <1>14, <1>o DEF vars, theConsumer, theWriters, Course, This, Old
<1> QED
  BY <1>1, <1>2, <1>3, <1>4, <1>5, <1>6, <1>7, <1>8, <1>9, <1>10, <1>11,
     <1>12, <1>13, <1>14
  DEF Next, Consumer

(* What a step does to the table, until the first put: it leaves it alone  *)
(* and goes back at most, and then messages may be applied twice; or the   *)
(* next item is applied.                                                   *)
Proceeds ==
    /\ puts = 0 /\ phase # "failed" /\ produced <= produced'
    /\ ~lossy' => ~lossy
    /\ \/ /\ rows' = rows
          /\ Position' \in 0 .. Position
          /\ ~lossy' => Position' = Position
       \/ /\ Position < Reached(produced)
          /\ rows' = ApplyItem(rows, All[Position + 1])
          /\ Position' = Position + 1

LEMMA PositionType ==
    ASSUME IInv, Course
    PROVE  Position \in Nat /\ LoadOffset \in 0 .. Len(Topic)
<1>1. CASE consumer \in {"apply", "write"}
  BY <1>1, InMessage, LoadOffsetType DEF IInv, Typed
<1>2. CASE consumer \notin {"apply", "write"}
  <2>1. /\ LoadOffset \in 0 .. Len(Topic) /\ next \in 0 .. Len(Topic)
        /\ Included \in 0 .. Len(Topic)
    BY LoadOffsetType, WritersAssumption DEF IInv, Typed, TypeOK
  <2>2. \A n \in 0 .. Len(Topic) : Reached(n) \in Nat
    BY ReachedType
  <2> QED BY <1>2, <2>1, <2>2 DEF Position
<1> QED BY <1>1, <1>2

(* Items are applied in order.                                             *)
LEMMA ItemApplied ==
    ASSUME IInv, Course, SkipItem \/ DeleteItem \/ WriteItem, puts' = 0
    PROVE  /\ Position < Reached(produced)
           /\ rows' = ApplyItem(rows, All[Position + 1])
           /\ Position' = Position + 1
<1>1. /\ consumer \in {"apply", "write"} /\ consumer' = "apply"
      /\ next' = next /\ item' = item + 1 /\ items' = items /\ puts = 0
  BY DEF SkipItem, DeleteItem, WriteItem, theWriters
<1>2. item <= Len(Effective(items))
  <2>1. CASE SkipItem \/ DeleteItem
    <3>1. item <= Len(items) /\ This.op # "throw"
      BY <2>1 DEF SkipItem, DeleteItem
    <3> QED BY <1>1, <3>1, InMessage
  <2>2. CASE WriteItem
    BY <2>2 DEF WriteItem, Course
  <2> QED BY <2>1, <2>2
<1>3. /\ All[Position + 1] = This /\ Position \in Nat /\ item \in Nat
      /\ Position + Len(Effective(items)) = Reached(next) + item - 1
      /\ Reached(next) \in 0 .. Reached(produced)
      /\ Reached(produced) \in Nat
      /\ Len(Effective(items)) \in Nat
      /\ next \in 1 .. Len(Topic)
  <2>1. items \in Seq(Item)
    BY DEF IInv, Typed, TypeOK
  <2> QED BY <1>1, <1>2, <2>1, InMessage, EffectivePart
<1>4. Position < Reached(produced)
  <2>1. \A p, l, r, i, h \in Nat :
            p + l = r + i - 1 /\ i <= l /\ r <= h => p < h
    OBVIOUS
  <2>2. Reached(next) \in Nat /\ Reached(next) <= Reached(produced)
    BY <1>3
  <2> QED BY <1>2, <1>3, <2>1, <2>2
<1>5. Position' = Position + 1
  <2>1. Reached(next - 1) \in Nat
    BY <1>3, ItemsOfMessage
  <2>2. Position = Reached(next - 1) + item - 1
        /\ Position' = Reached(next - 1) + (item + 1) - 1
    BY <1>1 DEF Position
  <2>3. \A r, i \in Nat : r + (i + 1) - 1 = (r + i - 1) + 1
    OBVIOUS
  <2> QED BY <1>3, <2>1, <2>2, <2>3
<1>6. rows' = ApplyItem(rows, This)
  <2>1. CASE SkipItem
    BY <2>1 DEF SkipItem, ApplyItem, Old
  <2>2. CASE DeleteItem
    BY <2>2 DEF DeleteItem, ApplyItem
  <2>3. CASE WriteItem
    <3>1. Puts(Old, This) /\ doc = DocOf(Old, This)
      BY <1>1, <2>3 DEF WriteItem, Course
    <3>2. This.op # "delete"
      BY <3>1 DEF Puts
    <3> QED BY <2>3, <3>1, <3>2 DEF WriteItem, ApplyItem, Old
  <2> QED BY <2>1, <2>2, <2>3
<1> QED BY <1>3, <1>4, <1>5, <1>6

(* The consumer goes back to an earlier message, or to the one it is at.   *)
LEMMA GoesBack ==
    ASSUME NEW m \in 0 .. Len(Topic), NEW n \in 0 .. Len(Topic), m <= n
    PROVE  Reached(m) \in 0 .. Reached(n)
BY MessagesInOrder

LEMMA Proceeding ==
    ASSUME "freed" \notin Faults, IInv, Course, Exact, IInv', [Next]_vars,
           puts' = 0, phase' # "failed"
    PROVE  Proceeds
<1>t. /\ Position \in Nat /\ Position \in 0 .. Position
      /\ LoadOffset \in 0 .. Len(Topic) /\ LoadOffset <= next
      /\ next \in 0 .. Len(Topic) /\ next' \in 0 .. Len(Topic)
      /\ Included \in 0 .. Len(Topic) /\ 0 \in 0 .. Len(Topic)
      /\ produced \in Nat /\ watermark \in 0 .. Included
  <2>1. Position \in Nat /\ LoadOffset \in 0 .. Len(Topic)
    BY PositionType
  <2>2. /\ next \in 0 .. Len(Topic) /\ next' \in 0 .. Len(Topic)
        /\ Included \in 0 .. Len(Topic) /\ 0 \in 0 .. Len(Topic)
        /\ produced \in Nat /\ watermark \in 0 .. Included
    BY WritersAssumption DEF IInv, Typed, TypeOK
  <2> QED BY <2>1, <2>2 DEF Course
<1>o. offsetFile' = offsetFile => LoadOffset' = LoadOffset
  BY DEF LoadOffset
<1> USE DEF theRun
(* Nothing that matters changes.                                           *)
<1>s. ASSUME UNCHANGED <<phase, rows, produced, puts, lossy>>,
             Position' = Position
      PROVE  Proceeds
  BY <1>s, <1>t DEF Proceeds
<1>1. CASE Produce
  <2>1. Position' = Position
    BY <1>1, <1>o DEF Produce, Position, theConsumer
  <2> QED BY <1>1, <1>t, <2>1 DEF Produce, Proceeds, theConsumer, theWriters
<1>2. CASE Seek
  <2>1. /\ Position = Reached(Included) /\ Position' = Reached(next')
        /\ next' <= Included
        /\ ~lossy' => ~lossy /\ ~(next' < Included)
    BY <1>2, <1>t DEF Seek, Position
  <2>2. Position' \in 0 .. Position
    <3>1. Reached(next') \in 0 .. Reached(Included)
      <4> DEFINE n == next'
      <4>1. n \in 0 .. Len(Topic) /\ n <= Included
        BY <1>t, <2>1
      <4> HIDE DEF n
      <4>2. Reached(n) \in 0 .. Reached(Included)
        BY <1>t, <4>1, GoesBack
      <4> QED BY <4>2 DEF n
    <3> QED BY <2>1, <3>1
  <2>3. ~lossy' => Position' = Position
    <3>1. next' \in Int /\ Included \in Int
      BY <1>t
    <3>2. ~(next' < Included) => next' = Included
      BY <2>1, <3>1
    <3> QED BY <2>1, <3>2
  <2> QED BY <1>2, <1>t, <2>1, <2>2, <2>3 DEF Seek, Proceeds, theWriters
<1>3. CASE CatchUpEnds
  <2>1. Position' = Position
    BY <1>3 DEF CatchUpEnds, Position
  <2> QED BY <1>3, <1>s, <2>1 DEF CatchUpEnds, theWriters
<1>4. CASE CatchUpFails
  BY <1>4 DEF CatchUpFails
<1>5. CASE Start \/ StartFails
  <2>1. Position' = Position
    BY <1>5, <1>o DEF Start, StartFails, Position
  <2> QED BY <1>5, <1>s, <2>1 DEF Start, StartFails, theWriters
<1>6. CASE Consume
  <2>1. consumer = "poll" /\ consumer' = "apply" /\ next' = next + 1 /\ item' = 1
    BY <1>6 DEF Consume
  <2>2. Position = Reached(next) /\ Position' = Reached(next' - 1) + 1 - 1
    BY <2>1 DEF Position
  <2>3. next' - 1 = next /\ Reached(next) \in Nat
    BY <1>t, <2>1, <2>2
  <2>4. Position' = Position
    BY <2>2, <2>3
  <2> QED BY <1>6, <1>s, <2>4 DEF Consume, theWriters
<1>7. CASE SkipItem \/ DeleteItem \/ WriteItem
  <2>1. UNCHANGED <<phase, produced, puts, lossy>>
    BY <1>7 DEF SkipItem, DeleteItem, WriteItem, theWriters
  <2> QED BY <1>7, <1>t, <2>1, ItemApplied DEF Proceeds
<1>8. CASE MergeItem
  <2>1. Position' = Position
    BY <1>8 DEF MergeItem, Position
  <2> QED BY <1>8, <1>s, <2>1 DEF MergeItem, theWriters
<1>9. CASE MessageDone
  <2>1. /\ consumer = "apply" /\ consumer' \in {"poll", "truncate"}
        /\ item <= Len(items) => This.op = "throw"
        /\ next' = next
        /\ UNCHANGED <<phase, rows, produced, puts, lossy>>
    BY <1>9 DEF MessageDone, theWriters
  <2>2. /\ item <= Len(Effective(items)) => This.op # "throw" /\ item <= Len(items)
        /\ item \in Nat \ {0} /\ item <= Len(Effective(items)) + 1
        /\ Position + Len(Effective(items)) = Reached(next) + item - 1
        /\ Reached(next) \in Nat /\ Len(Effective(items)) \in Nat
    <3>1. items \in Seq(Item)
      BY DEF IInv, Typed, TypeOK
    <3> QED BY <1>t, <2>1, <3>1, InMessage, EffectivePart, ReachedType DEF Course
  <2>3. Position = Reached(next)
    <3>1. ~(item <= Len(Effective(items)))
      BY <2>1, <2>2
    <3>2. \A p, l, r, i \in Nat :
              p + l = r + i - 1 /\ ~(i <= l) /\ i <= l + 1 => p = r
      OBVIOUS
    <3> QED BY <1>t, <2>2, <3>1, <3>2
  <2>4. Position' = Reached(next)
    BY <2>1 DEF Position
  <2> QED BY <1>s, <2>1, <2>3, <2>4
<1>10. CASE Truncate
  <2>1. Position' = Position
    BY <1>10 DEF Truncate, Position
  <2> QED BY <1>10, <1>s, <2>1 DEF Truncate, theWriters
<1>11. CASE TruncateFails
  <2>1. Position' = Position
    BY <1>11 DEF TruncateFails, Position
  <2> QED BY <1>11, <1>t, <2>1 DEF TruncateFails, Proceeds, theWriters
<1>12. CASE Save \/ SaveFails
  <2>1. /\ consumer = "save" /\ phase # "failed" /\ phase' = "serve"
        /\ consumer' = IF phase = "import" THEN "off" ELSE "poll"
        /\ UNCHANGED <<rows, produced, next, puts>>
    BY <1>12 DEF Save, SaveFails, Saved, theWriters, Course
  <2>2. /\ Position = Reached(next)
        /\ Position' = IF phase = "import" THEN Reached(LoadOffset')
                       ELSE Reached(next)
    BY <2>1 DEF Position
  <2>3. CASE Save
    <3>1. offsetFile' = next - 1 /\ lossy' = lossy
      BY <2>3 DEF Save
    <3>2. LoadOffset' = next
      BY <1>t, <3>1 DEF LoadOffset
    <3> QED BY <1>t, <2>1, <2>2, <3>1, <3>2 DEF Proceeds
  <2>4. CASE SaveFails
    <3>1. LoadOffset' = LoadOffset /\ lossy'
      BY <1>o, <2>4 DEF SaveFails
    <3>2. Reached(LoadOffset) \in 0 .. Reached(next)
      BY <1>t, GoesBack
    <3> QED BY <1>t, <2>1, <2>2, <3>1, <3>2 DEF Proceeds
  <2> QED BY <1>12, <2>3, <2>4
<1>13. CASE StopConsumer
  <2>1. Position' = Position
    BY <1>13, <1>o DEF StopConsumer, Position, theConsumer
  <2> QED BY <1>13, <1>s, <2>1 DEF StopConsumer, theConsumer, theWriters
<1>14. CASE Joined
  <2>1. /\ consumer \in {"poll", "dead"} /\ consumer' = "off"
        /\ phase # "import" /\ phase # "failed" /\ puts = 0
        /\ UNCHANGED <<phase, rows, produced, puts, lossy, offsetFile>>
    BY <1>14 DEF Joined, Course, theWriters
  <2>2. Position' = Reached(LoadOffset)
    BY <1>o, <2>1 DEF Position
  <2>3. CASE consumer = "dead"
    BY <1>s, <2>1, <2>2, <2>3 DEF Position
  <2>4. CASE consumer = "poll"
    <3>1. Position = Reached(next)
      BY <2>4 DEF Position
    <3>2. Reached(LoadOffset) \in 0 .. Reached(next)
      BY <1>t, GoesBack
    <3>3. ~lossy => LoadOffset = next
      <4>1. phase = "serve"
        BY <2>1 DEF IInv, Typed, TypeOK
      <4> QED BY <2>1, <2>4, <4>1 DEF Exact
    <3> QED BY <1>t, <2>1, <2>2, <3>1, <3>2, <3>3 DEF Proceeds
  <2> QED BY <2>1, <2>3, <2>4
<1>15. CASE Crash
  <2>1. /\ consumer' = "off" /\ phase # "import" /\ phase # "failed"
        /\ phase' = phase /\ lossy'
        /\ UNCHANGED <<rows, produced, puts, offsetFile>>
    BY <1>15 DEF Crash
  <2>2. Position' = Reached(LoadOffset)
    BY <1>o, <2>1 DEF Position
  <2>3. Reached(LoadOffset) \in 0 .. Position
    <3>1. CASE consumer \in {"apply", "write"}
      <4>1. /\ LoadOffset <= next - 1 /\ next - 1 \in 0 .. Len(Topic)
            /\ item \in Nat \ {0} /\ Position = Reached(next - 1) + item - 1
        BY <1>t, <3>1, InMessage DEF Course, Position
      <4>2. Reached(LoadOffset) \in 0 .. Reached(next - 1)
        BY <1>t, <4>1, GoesBack
      <4>3. Reached(next - 1) \in Nat
        BY <4>1, ReachedType
      <4>4. \A r \in Nat, i \in Nat \ {0} : r <= r + i - 1
        OBVIOUS
      <4> QED BY <1>t, <4>1, <4>2, <4>3, <4>4
    <3>2. CASE consumer \in {"poll", "truncate", "save"}
      BY <1>t, <3>2, GoesBack DEF Position
    <3>3. CASE consumer \notin {"apply", "write", "poll", "truncate", "save"}
      BY <1>t, <2>1, <3>3 DEF Position
    <3> QED BY <3>1, <3>2, <3>3
  <2> QED BY <1>t, <2>1, <2>2, <2>3 DEF Proceeds
<1>16. ASSUME NEW w \in Writers, Writer(w) PROVE FALSE
  BY <1>16, WriterPuts DEF IInv, Typed
<1>17. CASE UNCHANGED vars
  <2>1. Position' = Position
    BY <1>17, <1>o DEF vars, theConsumer, Position
  <2> QED BY <1>17, <1>s, <2>1 DEF vars, theConsumer, theWriters
<1> QED
  BY <1>1, <1>2, <1>3, <1>4, <1>5, <1>6, <1>7, <1>8, <1>9, <1>10, <1>11,
     <1>12, <1>13, <1>14, <1>15, <1>16, <1>17
  DEF Next, Consumer

(* Without a crash or a failed save the offset that a polling server would *)
(* resume from is the one it polls at.                                     *)
LEMMA ResumesAtNext ==
    ASSUME "freed" \notin Faults, IInv, Course, Exact, IInv', [Next]_vars,
           puts' = 0, ~lossy', phase' = "serve", consumer' = "poll"
    PROVE  LoadOffset' = next'
<1>o. offsetFile' = offsetFile => LoadOffset' = LoadOffset
  BY DEF LoadOffset
<1>t. next \in Nat
  BY WritersAssumption DEF IInv, Typed, TypeOK
<1>k. ASSUME UNCHANGED <<phase, offsetFile, consumer, next, lossy, puts>>
      PROVE  LoadOffset' = next'
  BY <1>k, <1>o DEF Exact
<1> USE DEF theRun
<1>1. CASE Produce \/ StopConsumer \/ UNCHANGED vars
  <2>1. UNCHANGED <<phase, offsetFile, consumer, next, lossy, puts>>
    BY <1>1 DEF Produce, StopConsumer, vars, theConsumer, theWriters
  <2> QED BY <1>k, <2>1
<1>2. CASE Start
  BY <1>2, <1>o DEF Start
<1>3. CASE Save
  <2>1. offsetFile' = next - 1 /\ next' = next
    BY <1>3 DEF Save, Saved
  <2> QED BY <1>t, <2>1 DEF LoadOffset
<1>4. CASE Crash \/ Joined \/ Truncate \/ StartFails \/ CatchUpEnds \/ CatchUpFails
           \/ Consume \/ SkipItem \/ DeleteItem \/ MergeItem \/ WriteItem
  <2>1. consumer' # "poll"
    BY <1>4 DEF Crash, Joined, Truncate, StartFails, CatchUpEnds, CatchUpFails,
      Consume, SkipItem, DeleteItem, MergeItem, WriteItem
  <2> QED BY <2>1
<1>5. CASE Seek \/ MessageDone
  <2>1. ~(phase' = "serve" /\ consumer' = "poll")
    BY <1>5 DEF Seek, MessageDone
  <2> QED BY <2>1
<1>6. CASE TruncateFails \/ SaveFails
  BY <1>6 DEF TruncateFails, SaveFails
<1>7. ASSUME NEW w \in Writers, Writer(w) PROVE FALSE
  BY <1>7, WriterPuts DEF IInv, Typed
<1> QED
  BY <1>1, <1>2, <1>3, <1>4, <1>5, <1>6, <1>7 DEF Next, Consumer

LEMMA ExactStep ==
    ASSUME "freed" \notin Faults, IInv, Course, Exact, IInv', [Next]_vars
    PROVE  Exact'
<1> SUFFICES ASSUME puts' = 0, ~lossy', phase' # "failed"
             PROVE  /\ rows' = RowsAfter[Position']
                    /\ phase' = "serve" /\ consumer' = "poll"
                          => LoadOffset' = next'
  BY DEF Exact
<1>1. Proceeds
  BY Proceeding
<1>2. rows = RowsAfter[Position] /\ Position \in Nat
  BY <1>1, PositionType DEF Proceeds, Exact
<1>3. rows' = RowsAfter[Position']
  <2>1. CASE rows' = rows /\ Position' = Position
    BY <1>2, <2>1
  <2>2. CASE /\ Position < Reached(produced)
             /\ rows' = ApplyItem(rows, All[Position + 1])
             /\ Position' = Position + 1
    <3>1. Reached(produced) \in 0 .. Len(All)
      BY ReachedType DEF IInv, Typed, TypeOK
    <3>2. Position + 1 \in 1 .. Len(All) /\ (Position + 1) - 1 = Position
      BY <1>2, <2>2, <3>1, AllType
    <3>3. RowsAfter[Position + 1] = ApplyItem(RowsAfter[Position], All[Position + 1])
      BY <3>2, RowsAfterRecursion
    <3> QED BY <1>2, <2>2, <3>3
  <2> QED BY <1>1, <2>1, <2>2 DEF Proceeds
<1> QED BY <1>3, ResumesAtNext

LEMMA ConvergesStep ==
    ASSUME "freed" \notin Faults, IInv, Course, Exact, Converges, IInv',
           [Next]_vars
    PROVE  Converges'
<1> SUFFICES ASSUME puts' = 0, phase' # "failed"
             PROVE  Converging(rows', Position', Reached(produced'))
  BY DEF Converges
<1>1. Proceeds
  BY Proceeding
<1>2. /\ Converging(rows, Position, Reached(produced))
      /\ Position \in Nat /\ rows \in Table
      /\ Reached(produced) \in Nat /\ Reached(produced) <= Len(All)
      /\ Reached(produced') \in Nat
      /\ Reached(produced) <= Reached(produced')
  <2>1. /\ produced \in 0 .. Len(Topic) /\ produced' \in 0 .. Len(Topic)
        /\ rows \in Table
    BY DEF IInv, Typed, TypeOK
  <2>2. produced <= produced'
    BY <1>1 DEF Proceeds
  <2>3. Reached(produced) \in 0 .. Len(All) /\ Len(All) \in Nat
        /\ Reached(produced') \in 0 .. Len(All)
    BY <2>1, ReachedType, AllType
  <2>4. Reached(produced) <= Reached(produced')
    BY <2>1, <2>2, MessagesInOrder
  <2> QED BY <1>1, <2>1, <2>3, <2>4, PositionType DEF Proceeds, Converges
<1> DEFINE t == rows'
           n == Position'
           h == Reached(produced)
           m == Reached(produced')
<1>3. Converging(t, n, h) /\ n \in Nat
  <2>1. CASE rows' = rows /\ Position' \in 0 .. Position
    BY <1>2, <2>1, ConvergingBack
  <2>2. CASE /\ Position < Reached(produced)
             /\ rows' = ApplyItem(rows, All[Position + 1])
             /\ Position' = Position + 1
    <3>1. Reached(produced) \in Position + 1 .. Len(All)
      BY <1>2, <2>2, AllType
    <3>2. Converging(ApplyItem(rows, All[Position + 1]), Position + 1, h)
      BY <1>2, <3>1, ConvergingApply
    <3> QED BY <1>2, <2>2, <3>2
  <2> QED BY <1>1, <2>1, <2>2 DEF Proceeds
<1> HIDE DEF t, n, h, m
<1>4. h \in Nat /\ m \in Nat /\ h <= m
  BY <1>2 DEF h, m
<1>5. Converging(t, n, m)
  BY <1>3, <1>4, ConvergingOn
<1> QED BY <1>5 DEF t, n, m

(* The invariant of the consumer: its table converges, and is exact while  *)
(* no offset was lost, at every step of ConsumeLoop and of a restart.      *)
THEOREM ReplayInvariance ==
    ASSUME "freed" \notin Faults
    PROVE  Spec => []RInv
<1>1. Init /\ IInv => RInv
  BY RInvInit
<1>2. RInv /\ IInv' /\ [Next]_vars => RInv'
  BY CourseStep, ExactStep, ConvergesStep DEF RInv
<1> QED BY <1>1, <1>2, Invariance, PTL DEF Spec

(* When the consumer has caught up, every key is there that the messages   *)
(* leave when each is applied once, with the scalar they leave and at      *)
(* least their array elements, and no other key: for any topic and import, *)
(* however often consumers that follow one another applied messages again  *)
(* after a crash, a failed save or a catch-up from before the watermark,   *)
(* and wherever in a message a crash fell.                                 *)
THEOREM ReplaysConverge ==
    ASSUME "freed" \notin Faults
    PROVE  Spec => []ReplayConverges
<1>1. RInv => ReplayConverges
  <2> SUFFICES ASSUME RInv, CaughtUp, NEW p \in Pks
               PROVE  Near(rows[p], TableAfter(produced)[p], FALSE)
    BY DEF ReplayConverges, Near, AtLeast
  <2>1. /\ Position = Reached(produced)
        /\ puts = 0 /\ phase # "failed"
    BY DEF RInv, CaughtUp, Position, Course
  <2>2. Reached(produced) \in Nat
    BY ReachedType, AllType DEF RInv, IInv, Typed, TypeOK
  <2>3. Converging(rows, Reached(produced), Reached(produced))
    BY <2>1 DEF RInv, Converges
  <2>4. Near(rows[p], Once(Reached(produced), p), FALSE)
    BY <2>2, <2>3, Converged
  <2> QED BY <2>4 DEF Once, TableAfter, Reached
<1> QED BY <1>1, ReplayInvariance, PTL

(* Without a crash or a failed save, and with a catch-up that begins no    *)
(* earlier than the imported data ends, consumers that follow one another, *)
(* each joined before the next starts, have together applied every message *)
(* exactly once when the last has caught up, arrays included.              *)
THEOREM StopsReplayNothing ==
    ASSUME "freed" \notin Faults
    PROVE  Spec => []StopsAreExact
<1>1. RInv => StopsAreExact
  <2> SUFFICES ASSUME RInv, CaughtUp, ~lossy
               PROVE  rows = TableAfter(produced)
    BY DEF StopsAreExact
  <2>1. /\ Position = Reached(produced)
        /\ puts = 0 /\ phase # "failed"
    BY DEF RInv, CaughtUp, Position, Course
  <2> QED BY <2>1 DEF RInv, Exact, TableAfter, Reached
<1> QED BY <1>1, ReplayInvariance, PTL
=============================================================================
