--------------------------- MODULE ReleaseProofs ---------------------------
(***************************************************************************)
(* More proofs about PipelineAgent: what a pull that runs by itself takes  *)
(* out of the release directory and what it leaves there, whatever the     *)
(* pulls, kills and failures before it have left behind.                   *)
(***************************************************************************)
EXTENDS PipelineAgentProofs

-----------------------------------------------------------------------------
(* The n greatest ids of a set.                                            *)

Above(S, v) == {j \in S : j > v}

LEMMA NamesAreFinite ==
    ASSUME NEW S, S \subseteq Names
    PROVE  IsFiniteSet(S) /\ Cardinality(S) \in Nat
<1>1. Names = 1 .. TmpName /\ 1 \in Int /\ TmpName \in Int
  BY SyncAssumption DEF Names, Ids, TmpName
<1>2. IsFiniteSet(Names)
  BY <1>1, FS_Interval
<1> QED BY <1>2, FS_Subset, FS_CardinalityType

LEMMA MoreIsMore ==
    ASSUME NEW S, NEW T, S \subseteq T, T \subseteq Names
    PROVE  Cardinality(S) <= Cardinality(T)
BY NamesAreFinite, FS_Subset

LEMMA LeastOfNames ==
    ASSUME NEW S, S \subseteq Names, S # {}
    PROVE  \E m \in S : \A y \in S : m <= y
<1>1. S \subseteq Nat
  BY Numbers
<1>2. PICK m \in S : \A y \in S : <<y, m>> \notin OpToRel(<, Nat)
  BY <1>1, NatLessThanWellFounded, WFMin
<1>3. \A y \in S : ~(y < m)
  BY <1>1, <1>2 DEF OpToRel
<1> QED BY <1>1, <1>3

(* There are no more of them than n: only the least has fewer than n       *)
(* greater ones beside itself.                                             *)
LEMMA GreatestBounded ==
    ASSUME NEW S, S \subseteq Names, NEW n \in Nat
    PROVE  Cardinality(Greatest(S, n)) <= n
<1> DEFINE G == Greatest(S, n)
<1>1. G \subseteq S /\ \A i \in G : Cardinality(Above(S, i)) < n
  BY DEF Greatest, Above
<1> HIDE DEF G
<1>2. CASE G = {}
  BY <1>2, FS_EmptySet DEF G
<1>3. CASE G # {}
  <2>1. PICK m \in G : \A y \in G : m <= y
    BY <1>1, <1>3, LeastOfNames
  <2>2. G \subseteq Above(S, m) \cup {m}
    <3> SUFFICES ASSUME NEW y \in G, y # m PROVE y \in Above(S, m)
      OBVIOUS
    <3>1. y \in Nat /\ m \in Nat /\ m <= y
      BY <1>1, <2>1, Numbers
    <3> QED BY <1>1, <3>1 DEF Above
  <2>3. Above(S, m) \subseteq Names /\ m \in Names
    BY <1>1 DEF Above
  <2>4. /\ IsFiniteSet(Above(S, m)) /\ Cardinality(Above(S, m)) \in Nat
        /\ Cardinality(Above(S, m)) < n
    BY <1>1, <2>3, NamesAreFinite
  <2>5. Cardinality(Above(S, m) \cup {m}) <= Cardinality(Above(S, m)) + 1
    <3>1. Cardinality(Above(S, m) \cup {m}) =
             IF m \in Above(S, m) THEN Cardinality(Above(S, m))
             ELSE Cardinality(Above(S, m)) + 1
      BY <2>4, FS_AddElement
    <3>2. Cardinality(Above(S, m)) <= Cardinality(Above(S, m)) + 1
      BY <2>4
    <3> QED BY <2>4, <3>1, <3>2
  <2>6. Cardinality(G) <= Cardinality(Above(S, m) \cup {m})
    BY <2>2, <2>3, MoreIsMore
  <2>7. Cardinality(G) \in Nat /\ Cardinality(Above(S, m) \cup {m}) \in Nat
    BY <1>1, <2>2, <2>3, NamesAreFinite
  <2>8. Cardinality(G) <= n
    BY <2>4, <2>5, <2>6, <2>7
  <2> QED BY <2>8 DEF G
<1> QED BY <1>2, <1>3 DEF G

(* Of an id with n greater ones in a set, n greater ones are among the n   *)
(* greatest.                                                               *)
LEMMA GreatestAbove ==
    ASSUME NEW S, S \subseteq Names, NEW n \in Nat, NEW v \in Names,
           Cardinality(Above(S, v)) >= n
    PROVE  Cardinality(Above(Greatest(S, n), v)) >= n
<1> DEFINE A == Above(S, v)
           B == Above(Greatest(S, n), v)
<1>1. A \subseteq Names /\ B \subseteq A
  BY DEF Above, Greatest
<1>2. CASE A = B
  BY <1>2
<1>3. CASE A # B
  <2>1. PICK m \in A \ B : \A y \in A \ B : m >= y
    <3>1. A \ B \subseteq Names /\ A \ B # {}
      BY <1>1, <1>3
    <3> HIDE DEF A, B
    <3> QED BY <3>1, MaxIsGreatest
  <2>2. m \in S /\ m > v /\ m \notin Greatest(S, n)
    BY <2>1 DEF Above
  <2>3. Above(S, m) \subseteq B
    <3> SUFFICES ASSUME NEW y \in S, y > m PROVE y \in B
      BY DEF Above
    <3>1. y \in Nat /\ m \in Nat /\ v \in Nat
      BY <2>2, Numbers
    <3>2. y \in A /\ ~(m >= y)
      BY <2>2, <3>1 DEF Above
    <3> QED BY <2>1, <3>2
  <2>4. Cardinality(Above(S, m)) <= Cardinality(B)
    BY <1>1, <2>3, MoreIsMore
  <2>5. ~(Cardinality(Above(S, m)) < n)
    BY <2>2 DEF Greatest, Above
  <2>6. Cardinality(Above(S, m)) \in Nat /\ Cardinality(B) \in Nat
    BY <1>1, <2>3, NamesAreFinite
  <2> QED BY <2>4, <2>5, <2>6
<1> QED BY <1>2, <1>3
-----------------------------------------------------------------------------
(* What a pull takes out, and what it leaves.                              *)

(* No more than Keep builds, and not only older ones than the pulled one.  *)
Settled(S, id) ==
    Keep > 0 =>
        /\ Cardinality(S) <= Keep
        /\ Keep > 1 => Newest(S) >= id

(* active.tmp, where there is one.                                         *)
TmpLink == {TmpName : t \in {tmp} \ {None}}

(* What is left is settled, and is reason enough for what is taken out.    *)
Justified(left, victims, id) ==
    /\ Settled(left, id)
    /\ \A v \in victims : Cardinality(Above(left, v) \cup TmpLink) >= Keep

LEMMA NewerThan ==
    ASSUME NEW S, S \subseteq Ids, NEW m \in S, NEW id \in Ids, m >= id
    PROVE  Newest(S) >= id
<1>1. S # {} /\ S \subseteq Names
  BY Numbers
<1>2. Max(S) \in S /\ Max(S) >= m
  BY <1>1, MaxIsGreatest
<1>3. Max(S) \in Nat /\ m \in Nat /\ id \in Nat
  BY <1>2, Numbers
<1> QED BY <1>1, <1>2, <1>3 DEF Newest

(* With two builds to keep, the greatest id of a pull survives: only       *)
(* active.tmp is greater.                                                  *)
LEMMA GreatestIdStays ==
    ASSUME NEW kept, kept \subseteq Names, NEW id \in Ids, id \in kept,
           Keep > 1
    PROVE  \E m \in Greatest(kept, Keep) \cap Ids : m >= id
<1>1. kept \cap Ids # {} /\ kept \cap Ids \subseteq Names
  BY Numbers
<1>2. PICK m \in kept \cap Ids : \A y \in kept \cap Ids : m >= y
  BY <1>1, MaxIsGreatest
<1>3. Above(kept, m) \subseteq {TmpName}
  <2> SUFFICES ASSUME NEW y \in kept \cap Ids, y > m PROVE FALSE
    BY DEF Above, Names
  <2> QED BY <1>2, Numbers
<1>4. {TmpName} \subseteq Names /\ Cardinality({TmpName}) = 1
  BY Numbers, FS_Singleton
<1>5. Cardinality(Above(kept, m)) <= 1
  BY <1>3, <1>4, MoreIsMore
<1>6. Cardinality(Above(kept, m)) \in Nat
  BY <1>3, <1>4, NamesAreFinite
<1>7. m \in Greatest(kept, Keep)
  BY <1>2, <1>5, <1>6, SyncAssumption DEF Greatest, Above
<1> QED BY <1>2, <1>7

LEMMA EvictionJustified ==
    ASSUME Typed, NEW id \in In(release)
    PROVE  LET victims == Evicted(Versions, id) IN
           Justified(In(release) \ victims, victims, id)
<1> DEFINE kept == Greatest(Versions \cup {id}, Keep) \cup {id}
           G == Greatest(kept, Keep)
           victims == Evicted(Versions, id)
           left == In(release) \ victims
<1>v. /\ id \in Ids /\ Versions \subseteq Names
      /\ Versions \cup {id} = Versions /\ Versions # {}
      /\ In(release) = Versions \cap Ids
      /\ Versions \subseteq In(release) \cup TmpLink
  <2>1. id \in Ids
    BY DEF In
  <2>2. tmp \in In(release) => tmp # None
    BY Numbers DEF In
  <2> QED BY <2>1, <2>2, Numbers DEF Versions, In, TmpLink
<1>k. CASE Keep = 0
  <2>1. victims = {}
    BY <1>k DEF Evicted
  <2> QED BY <1>k, <2>1 DEF Justified, Settled
<1>n. CASE Keep > 0
  <2>0. Keep \in Nat /\ Keep # 0
    BY <1>n, SyncAssumption
  <2>1. victims = Versions \ G
    BY <1>v, <2>0 DEF Evicted
  <2>2. kept \subseteq Versions /\ G \subseteq kept /\ id \in kept
    BY <1>v DEF Greatest
  <2>3. left = G \cap Ids
    BY <1>v, <2>1, <2>2
  <2>4. kept \subseteq Names
    BY <1>v, <2>2
  <2>5. Settled(left, id)
    <3>1. Cardinality(G) <= Keep
      BY <2>0, <2>4, GreatestBounded
    <3>2. Cardinality(left) <= Cardinality(G)
      BY <2>2, <2>3, <2>4, MoreIsMore
    <3>3. Cardinality(left) \in Nat /\ Cardinality(G) \in Nat
      BY <2>2, <2>3, <2>4, NamesAreFinite
    <3>4. ASSUME Keep > 1 PROVE Newest(left) >= id
      <4>1. PICK m \in left : m >= id
        BY <1>v, <2>2, <2>3, <2>4, <3>4, GreatestIdStays
      <4> QED BY <1>v, <2>3, <4>1, NewerThan
    <3>5. Cardinality(left) <= Keep
      BY <2>0, <3>1, <3>2, <3>3
    <3> HIDE DEF left
    <3> QED BY <3>4, <3>5 DEF Settled
  <2>6. ASSUME NEW v \in victims
        PROVE  Cardinality(Above(left, v) \cup TmpLink) >= Keep
    <3>1. v \in Versions /\ v \notin G /\ v \in Names
      BY <1>v, <2>1, <2>6
    <3>2. Cardinality(Above(kept, v)) >= Keep
      <4>1. CASE v \in kept
        <5>1. ~(Cardinality(Above(kept, v)) < Keep)
          BY <3>1, <4>1 DEF Greatest, Above
        <5>2. Cardinality(Above(kept, v)) \in Nat
          BY <2>4, NamesAreFinite DEF Above
        <5> QED BY <2>0, <5>1, <5>2
      <4>2. CASE v \notin kept
        <5>1. ~(Cardinality(Above(Versions, v)) < Keep)
          BY <1>v, <3>1, <4>2 DEF Greatest, Above
        <5>2. Cardinality(Above(Versions, v)) \in Nat
          BY <1>v, NamesAreFinite DEF Above
        <5>3. Cardinality(Above(Greatest(Versions, Keep), v)) >= Keep
          BY <1>v, <2>0, <3>1, <5>1, <5>2, GreatestAbove
        <5>4. Above(Greatest(Versions, Keep), v) \subseteq Above(kept, v)
          BY <1>v DEF Above
        <5>5. Above(kept, v) \subseteq Names
          BY <2>4 DEF Above
        <5>6. /\ Cardinality(Above(Greatest(Versions, Keep), v)) \in Nat
              /\ Cardinality(Above(kept, v)) \in Nat
          BY <5>4, <5>5, NamesAreFinite
        <5>7. Cardinality(Above(Greatest(Versions, Keep), v))
                 <= Cardinality(Above(kept, v))
          BY <5>4, <5>5, MoreIsMore
        <5> QED BY <2>0, <5>3, <5>6, <5>7
      <4> QED BY <4>1, <4>2
    <3>3. Cardinality(Above(G, v)) >= Keep
      BY <2>0, <2>4, <3>1, <3>2, GreatestAbove
    <3>4. Above(G, v) \subseteq Above(left, v) \cup TmpLink
      <4> SUFFICES ASSUME NEW y \in G, y > v, y \notin Ids PROVE y \in TmpLink
        BY <2>3 DEF Above
      <4>1. y \in Versions /\ y \notin In(release)
        BY <1>v, <2>2
      <4> QED BY <1>v, <4>1
    <3>5. Above(left, v) \cup TmpLink \subseteq Names
      BY <2>3, Numbers DEF Above, TmpLink
    <3>6. /\ Cardinality(Above(G, v)) \in Nat
          /\ Cardinality(Above(left, v) \cup TmpLink) \in Nat
      BY <3>4, <3>5, NamesAreFinite
    <3>7. Cardinality(Above(G, v))
             <= Cardinality(Above(left, v) \cup TmpLink)
      BY <3>4, <3>5, MoreIsMore
    <3> QED BY <2>0, <3>3, <3>6, <3>7
  <2> HIDE DEF left, victims
  <2> QED BY <2>5, <2>6 DEF Justified, left, victims
<1> QED BY <1>k, <1>n, SyncAssumption
-----------------------------------------------------------------------------
(* A directory is there until it is removed: it is a copy of an index, and *)
(* neither a copy nor a kill makes it look as if there were none.          *)

Real(d) == d.build = 0 => d = NoDir

LEMMA RealRemoved ==
    ASSUME NEW d \in Dir, Real(d), NEW e \in RemovedTree(d)
    PROVE  Real(e) /\ (e = NoDir \/ (d # NoDir /\ e # NoDir))
<1>1. CASE d.by = None
  BY <1>1 DEF RemovedTree, Real
<1>2. CASE d.by # None /\ e # NoDir
  <2>1. e = [d EXCEPT !.whole = FALSE] /\ d # NoDir
    BY <1>2 DEF RemovedTree, NoDir
  <2>2. e.build = d.build /\ d.build # 0
    BY <2>1 DEF Real, Dir
  <2> QED BY <1>2, <2>1, <2>2 DEF Real
<1> QED BY <1>1, <1>2 DEF Real

LEMMA RealBegun ==
    ASSUME NEW from \in Dir, NEW to \in Dir, NEW r \in Agents,
           Real(from), Real(to)
    PROVE  LET begun == BeginCopy(r, from, to) IN
           /\ Real(begun.dir)
           /\ \/ begun.dir = to
              \/ to = NoDir /\ begun.dir # NoDir
<1>1. CASE from # NoDir /\ to = NoDir
  <2> DEFINE dir == [from EXCEPT !.whole = FALSE, !.by = r]
  <2>1. BeginCopy(r, from, to).dir = dir
    BY <1>1 DEF BeginCopy
  <2>2. dir.build = from.build /\ from.build # 0
    BY <1>1 DEF Real, Dir
  <2> HIDE DEF dir
  <2> QED BY <1>1, <2>1, <2>2 DEF Real, NoDir
<1>2. CASE ~(from # NoDir /\ to = NoDir)
  BY <1>2 DEF BeginCopy
<1> QED BY <1>1, <1>2

LEMMA RealEnded ==
    ASSUME NEW from \in Dir, NEW to \in Dir, NEW r \in Agents, Real(to),
           NEW result \in EndCopy(r, from, to)
    PROVE  /\ Real(result.dir)
           /\ result.dir = NoDir <=> to = NoDir
           /\ result.ok => to # NoDir
<1> DEFINE left(w) == [to EXCEPT !.whole = w, !.by = None]
<1>1. \A w : left(w).build = to.build
  BY DEF Dir
<1>2. to.by = r => to # NoDir
  BY SyncAssumption DEF NoDir
<1>3. \/ result.dir = to /\ (result.ok => to # NoDir)
      \/ to # NoDir /\ \E w : result.dir = left(w)
  <2>1. CASE to.by = r
    <3>1. \/ result.dir \in {left(from.whole), left(FALSE)}
          \/ \E w \in {sync[r].from.whole,
                        from.build = sync[r].from.build /\ from.whole} :
                result.dir = left(w)
      BY <2>1 DEF EndCopy
    <3> HIDE DEF left
    <3> QED BY <1>2, <2>1, <3>1
  <2>2. CASE to.by # r
    <3>1. \/ ~result.ok /\ result.dir = to
          \/ to # NoDir /\ result.dir \in {left(FALSE), to}
      BY <2>2 DEF EndCopy
    <3> HIDE DEF left
    <3> QED BY <3>1
  <2> QED BY <2>1, <2>2
<1>4. ASSUME to # NoDir, NEW w, result.dir = left(w)
      PROVE  result.dir.build # 0
  BY <1>1, <1>4 DEF Real
<1>5. CASE result.dir = to /\ (result.ok => to # NoDir)
  BY <1>5
<1>6. CASE to # NoDir /\ \E w : result.dir = left(w)
  <2> HIDE DEF left
  <2> QED BY <1>4, <1>6 DEF Real, NoDir
<1> QED BY <1>3, <1>5, <1>6

LEMMA RealLeft ==
    ASSUME NEW d \in Dir, Real(d)
    PROVE  LET e == [d EXCEPT !.by = None] IN
           Real(e) /\ (e = NoDir <=> d = NoDir)
<1> DEFINE e == [d EXCEPT !.by = None]
<1>1. e.build = d.build
  BY DEF Dir
<1>2. d = NoDir => e = NoDir
  <2>1. /\ e \in Dir /\ e.by = None
        /\ d = NoDir => e.build = 0 /\ e.whole = FALSE
    BY DEF Dir, NoDir
  <2> HIDE DEF e
  <2> QED BY <2>1 DEF Dir, NoDir
<1> HIDE DEF e
<1>3. Real(e) /\ (e = NoDir <=> d = NoDir)
  BY <1>1, <1>2 DEF Real, NoDir
<1> QED BY <1>3 DEF e

RealFiles ==
    /\ Real(source)
    /\ \A i \in Ids : Real(store[i]) /\ Real(release[i])

Made ==
    /\ RealFiles
    /\ \A r \in Agents : pc[r] = "importing" => source.build # 0

(* The builds of the release directory over a step of artifact_sync.       *)
Released(q) ==
    \/ In(release') = In(release)
    \/ /\ PullFetch(q) /\ sync[q].force
       /\ In(release') = In(release) \ {sync[q].id}
    \/ PullCopy(q) /\ In(release') = In(release) \cup {sync[q].id}
    \/ /\ PullRemove(q)
       /\ \E v \in sync[q].victims :
             /\ In(release') = In(release) \ {v}
             /\ sync' = [sync EXCEPT ![q].victims = @ \ {v}]

LEMMA PushReleases ==
    ASSUME Typed, RealFiles, NEW q \in Agents,
           PushResolve(q) \/ PushReplace(q) \/ PushCopy(q) \/ PushCopied(q)
    PROVE  RealFiles' /\ release' = release
<1>t. /\ sync[q] \in Process /\ InOrder(sync[q]) /\ source \in Dir
      /\ store \in [Ids -> Dir] /\ release \in [Ids -> Dir]
  BY DEF Typed, TypeOK, SyncTypeOK
<1>r. release' = release /\ source' = source
  BY DEF PushResolve, PushReplace, PushCopy, PushCopied, files
<1> DEFINE id == sync[q].id
<1>s. SUFFICES \/ store' = store
               \/ \E d : Real(d) /\ store' = [store EXCEPT ![id] = d]
  <2>1. ASSUME NEW d, Real(d), store' = [store EXCEPT ![id] = d],
               NEW i \in Ids
        PROVE  Real(store'[i])
    BY <1>t, <2>1 DEF RealFiles
  <2> QED BY <1>r, <2>1 DEF RealFiles
<1>i. PushReplace(q) \/ PushCopy(q) \/ PushCopied(q) => id \in Ids
  BY <1>t, Numbers DEF PushReplace, PushCopy, PushCopied, At, InOrder
<1>1. CASE PushResolve(q)
  BY <1>1 DEF PushResolve, files
<1>2. CASE PushReplace(q)
  <2>1. \A e \in RemovedTree(store[id]) : Real(e)
    BY <1>t, <1>i, <1>2, RealRemoved DEF RealFiles
  <2>2. store' = store \/ \E e \in RemovedTree(store[id]) :
                              store' = [store EXCEPT ![id] = e]
    BY <1>2 DEF PushReplace
  <2> QED BY <2>1, <2>2
<1>3. CASE PushCopy(q)
  <2> DEFINE begun == BeginCopy(q, source, store[id])
  <2>1. Real(begun.dir)
    BY <1>t, <1>i, <1>3, RealBegun DEF RealFiles
  <2>2. store' = [store EXCEPT ![id] = begun.dir]
    BY <1>3 DEF PushCopy
  <2> HIDE DEF begun
  <2> QED BY <2>1, <2>2
<1>4. CASE PushCopied(q)
  <2>1. PICK result \in EndCopy(q, source, store[id]) :
           store' = [store EXCEPT ![id] = result.dir]
    BY <1>4 DEF PushCopied
  <2>2. Real(result.dir)
    BY <1>t, <1>i, <1>4, RealEnded DEF RealFiles
  <2> QED BY <2>1, <2>2
<1> QED BY <1>1, <1>2, <1>3, <1>4

LEMMA OneChanged ==
    ASSUME release \in [Ids -> Dir], RealFiles, NEW id \in Ids, NEW d, Real(d),
           release' = [release EXCEPT ![id] = d]
    PROVE  /\ \A i \in Ids : Real(release'[i])
           /\ (d = NoDir <=> release[id] = NoDir) =>
                 In(release') = In(release)
           /\ d = NoDir => In(release') = In(release) \ {id}
           /\ d # NoDir => In(release') = In(release) \cup {id}
BY DEF RealFiles, In

LEMMA PullReleases ==
    ASSUME Typed, RealFiles, NEW q \in Agents,
           \/ PullResolve(q) \/ PullFetch(q) \/ PullCopy(q) \/ PullCopied(q)
           \/ PullPrune(q) \/ PullRemove(q) \/ PullDone(q)
    PROVE  RealFiles' /\ Released(q)
<1>t. /\ sync[q] \in Process /\ InOrder(sync[q])
      /\ store \in [Ids -> Dir] /\ release \in [Ids -> Dir]
  BY DEF Typed, TypeOK, SyncTypeOK
<1>r. store' = store /\ source' = source
  BY DEF PullResolve, PullFetch, PullCopy, PullCopied, PullPrune, PullRemove,
         PullDone, files
<1> DEFINE id == sync[q].id
<1>s. (\A i \in Ids : Real(release'[i])) => RealFiles'
  BY <1>r DEF RealFiles
<1>i. PullFetch(q) \/ PullCopy(q) \/ PullCopied(q) => id \in Ids
  BY <1>t, Numbers DEF PullFetch, PullCopy, PullCopied, At, InOrder
<1>u. release' = release => RealFiles' /\ Released(q)
  BY <1>s DEF RealFiles, Released
<1>1. CASE PullResolve(q) \/ PullPrune(q) \/ PullDone(q)
  BY <1>1, <1>u DEF PullResolve, PullPrune, PullDone, files
<1>2. CASE PullFetch(q)
  <2>1. CASE release' = release
    BY <1>u, <2>1
  <2>2. CASE release' # release
    <3>1. PICK d \in RemovedTree(release[id]) :
             release' = [release EXCEPT ![id] = d]
      BY <1>2, <2>2 DEF PullFetch
    <3>2. sync[q].force
      BY <1>2, <2>2 DEF PullFetch
    <3>3. Real(d) /\ (d = NoDir \/ (release[id] # NoDir /\ d # NoDir))
      BY <1>t, <1>i, <1>2, RealRemoved DEF RealFiles
    <3> QED BY <1>t, <1>i, <1>s, <1>2, <3>1, <3>2, <3>3, OneChanged DEF Released
  <2> QED BY <2>1, <2>2
<1>3. CASE PullCopy(q)
  <2> DEFINE begun == BeginCopy(q, store[id], release[id])
  <2>1. /\ Real(begun.dir)
        /\ \/ begun.dir = release[id]
           \/ release[id] = NoDir /\ begun.dir # NoDir
    BY <1>t, <1>i, <1>3, RealBegun DEF RealFiles
  <2>2. release' = [release EXCEPT ![id] = begun.dir]
    BY <1>3 DEF PullCopy
  <2> HIDE DEF begun
  <2> QED BY <1>t, <1>i, <1>s, <1>3, <2>1, <2>2, OneChanged DEF Released
<1>4. CASE PullCopied(q)
  <2>1. PICK result \in EndCopy(q, store[id], release[id]) :
           release' = [release EXCEPT ![id] = result.dir]
    BY <1>4 DEF PullCopied
  <2>2. Real(result.dir) /\ (result.dir = NoDir <=> release[id] = NoDir)
    BY <1>t, <1>i, <1>4, RealEnded DEF RealFiles
  <2> QED BY <1>t, <1>i, <1>s, <1>4, <2>1, <2>2, OneChanged DEF Released
<1>5. CASE PullRemove(q)
  <2>1. CASE release' = release
    BY <1>u, <2>1
  <2>2. CASE release' # release
    <3>1. PICK v \in sync[q].victims : \E e \in RemovedTree(release[v]) :
             /\ release' = [release EXCEPT ![v] = e]
             /\ e = NoDir => sync' = [sync EXCEPT ![q].victims = @ \ {v}]
      BY <1>5, <2>2 DEF PullRemove
    <3>2. PICK d \in RemovedTree(release[v]) :
             /\ release' = [release EXCEPT ![v] = d]
             /\ d = NoDir => sync' = [sync EXCEPT ![q].victims = @ \ {v}]
      BY <3>1
    <3>3. v \in Ids
      BY <1>t DEF Process
    <3>4. Real(d) /\ (d = NoDir \/ (release[v] # NoDir /\ d # NoDir))
      BY <1>t, <3>3, RealRemoved DEF RealFiles
    <3> QED BY <1>t, <1>s, <1>5, <3>2, <3>3, <3>4, OneChanged DEF Released
  <2> QED BY <2>1, <2>2
<1> QED BY <1>1, <1>2, <1>3, <1>4, <1>5

LEMMA SyncReleases ==
    ASSUME Typed, RealFiles, NEW q \in Agents, Sync(q)
    PROVE  RealFiles' /\ Released(q) /\ source' = source
<1>0. source' = source
  BY SyncFrame
<1>1. CASE SwitchResolve(q) \/ UnlinkTmp(q) \/ SymlinkTmp(q)
           \/ ReplaceActive(q)
  <2>1. store' = store /\ release' = release
    BY <1>1 DEF SwitchResolve, UnlinkTmp, SymlinkTmp, ReplaceActive, files
  <2> QED BY <1>0, <2>1 DEF RealFiles, Released
<1>2. CASE Killed(q)
  <2>t. store \in [Ids -> Dir] /\ release \in [Ids -> Dir]
    BY DEF Typed, TypeOK, SyncTypeOK
  <2>1. \A i \in Ids :
           /\ store'[i] \in {store[i], [store[i] EXCEPT !.by = None]}
           /\ release'[i] \in {release[i], [release[i] EXCEPT !.by = None]}
    BY <1>2 DEF Killed
  <2>2. \A i \in Ids : Real(store'[i]) /\ Real(release'[i])
                       /\ (release'[i] = NoDir <=> release[i] = NoDir)
    BY <2>t, <2>1, RealLeft DEF RealFiles
  <2>3. In(release') = In(release)
    BY <2>2 DEF In
  <2> QED BY <1>0, <2>2, <2>3 DEF RealFiles, Released
<1>3. CASE PushResolve(q) \/ PushReplace(q) \/ PushCopy(q) \/ PushCopied(q)
  BY <1>0, <1>3, PushReleases DEF Released
<1> QED BY <1>0, <1>1, <1>2, <1>3, PullReleases DEF Sync

LEMMA MadeInit == Init => Made
<1> SUFFICES ASSUME Init PROVE Made
  OBVIOUS
<1>1. /\ source = NoDir /\ \A r \in Agents : pc[r] = "idle"
      /\ \A i \in Ids : store[i] \in {Whole(i), NoDir} /\ release[i] = store[i]
  BY DEF Init, SyncInit
<1>2. \A i \in Ids : Real(Whole(i))
  BY Numbers DEF Real, Whole, Ids
<1>3. Real(NoDir)
  BY DEF Real
<1> QED BY <1>1, <1>2, <1>3 DEF Made, RealFiles

(* The index that is built is there from its import on, for the lock is    *)
(* held.                                                                   *)
LEMMA MadeStep == Typed /\ LockHeld /\ Made /\ [Next]_vars => Made'
<1> SUFFICES ASSUME Typed, LockHeld, Made, [Next]_vars PROVE Made'
  OBVIOUS
<1>t. /\ pc \in [Agents -> AgentLabels] /\ source \in Dir
      /\ builds \in 0 .. MaxBuild /\ MaxBuild \in Nat
  BY SyncAssumption DEF Typed, TypeOK, SyncTypeOK
<1>1. ASSUME NEW q \in Agents, RunSync(q) PROVE Made'
  BY <1>1, SyncReleases DEF RunSync, Made
<1>2. ASSUME UNCHANGED <<source, store, release>>,
             \A r \in Agents : pc'[r] = "importing" => pc[r] = "importing"
      PROVE  Made'
  BY <1>2 DEF Made, RealFiles
<1>3. ASSUME NEW q \in Agents, Clear(q) PROVE Made'
  <2>1. /\ source' = NoDir /\ UNCHANGED <<store, release>>
        /\ pc'[q] = "import" /\ \A r \in Agents \ {q} : pc'[r] = pc[r]
    BY <1>t, <1>3 DEF Clear, Goto
  <2>2. \A r \in Agents : pc[r] = "importing" => importLock = r
    BY DEF LockHeld
  <2>3. importLock = q
    BY <1>3 DEF Clear, LockHeld
  <2> QED BY <2>1, <2>2, <2>3 DEF Made, RealFiles, Real
<1>4. ASSUME NEW q \in Agents, Import(q) PROVE Made'
  <2>1. source'.build # 0 /\ UNCHANGED <<store, release>>
    BY <1>t, <1>4 DEF Import
  <2> QED BY <2>1 DEF Made, RealFiles, Real
<1>5. ASSUME NEW q \in Agents, Imported(q) PROVE Made'
  <2>1. source'.build = source.build /\ UNCHANGED <<store, release>>
        /\ pc[q] = "importing"
    BY <1>t, <1>5 DEF Imported, Dir
  <2>2. source.build # 0
    BY <2>1 DEF Made
  <2> QED BY <2>1, <2>2 DEF Made, RealFiles, Real
<1>6. ASSUME NEW q \in Agents, Lock(q) \/ ImportFails(q) PROVE Made'
  <2>1. UNCHANGED <<source, store, release>>
    BY <1>6 DEF Lock, ImportFails, syncVars, files
  <2>2. \A r \in Agents : pc'[r] = "importing" => pc[r] = "importing"
    BY <1>t, <1>6 DEF Lock, ImportFails, Goto
  <2> QED BY <1>2, <2>1, <2>2
<1>7. ASSUME NEW q \in Agents,
             \/ SyncEnds(q) \/ UnlinkTable(q) \/ SymlinkTable(q)
             \/ SendReload(q) \/ Reload(q) \/ ReloadTimesOut(q)
      PROVE  Made'
  <2>1. UNCHANGED <<source, store, release>>
    BY <1>7 DEF SyncEnds, UnlinkTable, SymlinkTable, SendReload, Reload,
                ReloadTimesOut, syncVars, files
  <2>2. \A r \in Agents : pc'[r] = "importing" => pc[r] = "importing"
    <3>1. \E l \in AgentLabels \ {"importing"} : Goto(q, l)
      <4>1. CASE SyncEnds(q)
        BY <4>1 DEF SyncEnds, AgentLabels
      <4>2. CASE UnlinkTable(q) \/ SymlinkTable(q) \/ SendReload(q)
        BY <4>2 DEF UnlinkTable, SymlinkTable, SendReload, AgentLabels
      <4>3. CASE Reload(q) \/ ReloadTimesOut(q)
        BY <4>3 DEF Reload, ReloadTimesOut, AgentLabels
      <4> QED BY <1>7, <4>1, <4>2, <4>3
    <3> QED BY <1>t, <3>1 DEF Goto
  <2> QED BY <1>2, <2>1, <2>2
<1>8. ASSUME NEW q \in Agents, NEW route \in Ops, Request(q, route) PROVE Made'
  <2>1. UNCHANGED <<source, store, release>>
    BY <1>8 DEF Request, files
  <2>2. \A r \in Agents : pc'[r] = "importing" => pc[r] = "importing"
    BY <1>t, <1>8 DEF Request, Goto
  <2> QED BY <1>2, <2>1, <2>2
<1>9. CASE \/ NextSecond \/ LateReload \/ RestartServer
           \/ ScanOpens \/ ScanEnds \/ UNCHANGED vars
  <2>1. UNCHANGED <<source, store, release>>
    BY <1>9 DEF NextSecond, Tick, LateReload, RestartServer, ScanOpens,
                ScanEnds, vars, syncVars, files
  <2>2. \A r \in Agents : pc'[r] = "importing" => pc[r] = "importing"
    BY <1>t, <1>9 DEF NextSecond, LateReload, RestartServer, ScanOpens,
                      ScanEnds, vars
  <2> QED BY <1>2, <2>1, <2>2
<1> QED BY <1>1, <1>3, <1>4, <1>5, <1>6, <1>7, <1>8, <1>9 DEF Next, Agent
-----------------------------------------------------------------------------
(* The prune of a pull that runs by itself.                                *)

Pulls == {"pullIndex", "deployIndex"}

(* A pull, from its prune on: the pulled build is there, what is being     *)
(* removed may go, and what is left then is settled.                       *)
Pruned(r) ==
    LET p == sync[r] IN
    p.cmd = "pull" =>
        /\ p.at = "prune" => p.id \in In(release)
        /\ p.at = "rmtree" =>
              Justified(In(release) \ p.victims, p.victims, p.id)
        /\ p.at \in {"tmp", "symlink", "replace", "ok"} =>
              Settled(In(release), p.id)

Pruning ==
    \A r \in Agents : alone[r] =>
        /\ \A q \in Agents \ {r} : pc[q] \in Answered
        /\ pc[r] = "sync" => Pruned(r)
        /\ pc[r] = "sync" /\ op[r] \in Pulls => sync[r].cmd = "pull"
        /\ (pc[r] \in {"unlink", "symlink", "reload", "wait", "ok", "blind"}
            /\ op[r] \in Pulls) =>
              sync[r].cmd = "pull" /\ Settled(In(release), sync[r].id)

LEMMA PruningInit == Init => Pruning
BY DEF Init, Pruning

LEMMA PrunedSync ==
    ASSUME Typed, RealFiles, NEW r \in Agents, Sync(r), sync[r].cmd = "pull",
           Pruned(r)
    PROVE  Pruned(r)'
<1>t. /\ sync \in [Agents -> Process] /\ sync[r] \in Process
      /\ InOrder(sync[r]) /\ store \in [Ids -> Dir] /\ release \in [Ids -> Dir]
  BY DEF Typed, TypeOK, SyncTypeOK
<1> DEFINE id == sync[r].id
<1>e. \A status \in {"ok", "failed"} : End(r, status) =>
         sync'[r].at = status /\ sync'[r].id = id
  BY <1>t DEF End, Started
<1>f. Fail(r) => sync'[r].at = "failed"
  BY <1>e DEF Fail
<1>s. \A l \in SyncLabels : Step(r, l) =>
         /\ sync'[r].at = l /\ sync'[r].id = id
         /\ sync'[r].victims = sync[r].victims
  BY <1>t DEF Step, Process
<1>n. sync'[r].at \in {"fetch", "copy", "copying", "failed"} =>
         Pruned(r)'
  BY DEF Pruned
<1>1. CASE Killed(r)
  BY <1>1, <1>f, <1>n DEF Killed
<1>2. CASE PullResolve(r)
  BY <1>2, <1>t, <1>f, <1>n DEF PullResolve, Process
<1>3. CASE PullFetch(r)
  <2>1. CASE Step(r, "copy") \/ Fail(r)
    BY <2>1, <1>f, <1>n, <1>s DEF SyncLabels
  <2>2. CASE Step(r, "prune") /\ release' = release /\ release[id] # NoDir
    <3>1. id \in Ids
      BY <1>3, <1>t, Numbers DEF PullFetch, At, InOrder
    <3> QED BY <2>2, <3>1, <1>s DEF Pruned, In, SyncLabels
  <2> QED BY <1>3, <2>1, <2>2 DEF PullFetch
<1>4. CASE PullCopy(r)
  <2> DEFINE begun == BeginCopy(r, store[id], release[id])
  <2>1. begun.at \in {"copying", "failed"}
    BY DEF BeginCopy
  <2>2. sync'[r].at = begun.at
    BY <1>4, <1>t DEF PullCopy, Process
  <2> QED BY <2>1, <2>2, <1>n
<1>5. CASE PullCopied(r)
  <2>0. id \in Ids
    BY <1>5, <1>t, Numbers DEF PullCopied, At, InOrder
  <2>1. PICK result \in EndCopy(r, store[id], release[id]) :
           /\ release' = [release EXCEPT ![id] = result.dir]
           /\ IF result.ok
              THEN sync' = [sync EXCEPT ![r].at = "prune", ![r].from = NoDir]
              ELSE Fail(r)
    BY <1>5 DEF PullCopied
  <2>2. /\ result.dir = NoDir <=> release[id] = NoDir
        /\ result.ok => release[id] # NoDir
    BY <1>t, <2>0, RealEnded DEF RealFiles
  <2>3. CASE result.ok
    <3>1. sync'[r].at = "prune" /\ sync'[r].id = id
      BY <1>t, <2>1, <2>3 DEF Process
    <3>2. id \in In(release')
      BY <1>t, <2>0, <2>1, <2>2, <2>3 DEF In
    <3> QED BY <3>1, <3>2 DEF Pruned
  <2>4. CASE ~result.ok
    BY <2>1, <2>4, <1>f, <1>n
  <2> QED BY <2>3, <2>4
<1>6. CASE PullPrune(r)
  <2> DEFINE victims == Evicted(Versions, id)
  <2>1. id \in In(release)
    BY <1>6 DEF Pruned, PullPrune, At
  <2>2. Justified(In(release) \ victims, victims, id)
    BY <2>1, EvictionJustified
  <2>3. /\ sync'[r].at = "rmtree" /\ sync'[r].id = id
        /\ sync'[r].victims = victims
        /\ release' = release /\ tmp' = tmp
    BY <1>6, <1>t DEF PullPrune, Process, files
  <2> HIDE DEF victims
  <2> QED BY <2>2, <2>3 DEF Pruned, Justified, TmpLink
<1>7. CASE PullRemove(r)
  <2>1. CASE Fail(r)
    BY <2>1, <1>f, <1>n
  <2>2. CASE ~Fail(r)
    <3>1. PICK v \in sync[r].victims :
             /\ release' = [release EXCEPT ![v] = NoDir]
             /\ sync' = [sync EXCEPT ![r].victims = @ \ {v}]
      BY <1>7, <2>2 DEF PullRemove
    <3>2. /\ sync'[r].at = "rmtree" /\ sync'[r].id = id
          /\ sync'[r].victims = sync[r].victims \ {v}
          /\ tmp' = tmp /\ sync[r].at = "rmtree"
      BY <1>7, <1>t, <3>1 DEF PullRemove, Process, At
    <3>3. In(release') = In(release) \ {v}
      BY <1>t, <3>1 DEF In, Process
    <3>4. In(release') \ sync'[r].victims = In(release) \ sync[r].victims
      BY <3>1, <3>2, <3>3
    <3>5. Justified(In(release) \ sync[r].victims, sync[r].victims, id)
      BY <3>2 DEF Pruned
    <3> QED BY <3>2, <3>4, <3>5 DEF Pruned, Justified, TmpLink
  <2> QED BY <2>1, <2>2
<1>8. CASE PullDone(r)
  <2>1. sync[r].at = "rmtree" /\ sync[r].victims = {} /\ release' = release
    BY <1>8 DEF PullDone, At, files
  <2>2. In(release) \ sync[r].victims = In(release)
    BY <2>1
  <2>3. Settled(In(release), id)
    BY <2>1, <2>2 DEF Pruned, Justified
  <2>4. sync'[r].at \in {"tmp", "ok"} /\ sync'[r].id = id
    BY <1>8, <1>e, <1>s DEF PullDone, SyncLabels
  <2> QED BY <2>1, <2>3, <2>4 DEF Pruned
<1>9. CASE UnlinkTmp(r) \/ SymlinkTmp(r) \/ ReplaceActive(r)
  <2>1. release' = release /\ sync[r].at \in {"tmp", "symlink", "replace"}
    BY <1>9 DEF UnlinkTmp, SymlinkTmp, ReplaceActive, At
  <2>2. Settled(In(release), id)
    BY <2>1 DEF Pruned
  <2>3. \/ sync'[r].at = "failed"
        \/ sync'[r].at \in {"symlink", "replace", "ok"} /\ sync'[r].id = id
    BY <1>9, <1>e, <1>f, <1>s
       DEF UnlinkTmp, SymlinkTmp, ReplaceActive, SyncLabels
  <2> QED BY <2>1, <2>2, <2>3 DEF Pruned
<1>10. ~(\/ PushResolve(r) \/ PushReplace(r) \/ PushCopy(r) \/ PushCopied(r)
         \/ SwitchResolve(r))
  BY <1>t DEF PushResolve, PushReplace, PushCopy, PushCopied, SwitchResolve,
              At, InOrder
<1> QED BY <1>1, <1>2, <1>3, <1>4, <1>5, <1>6, <1>7, <1>8, <1>9, <1>10 DEF Sync

LEMMA PruningRequest ==
    ASSUME Typed, Pruning, NEW q \in Agents, NEW route \in Ops,
           Request(q, route)
    PROVE  Pruning'
<1>t. /\ sync \in [Agents -> Process] /\ pc \in [Agents -> AgentLabels]
      /\ op \in [Agents -> AgentOps]
  BY DEF Typed, TypeOK, SyncTypeOK
<1>1. \A r \in Agents : alone'[r] =>
         r = q /\ \A p \in Agents \ {q} : pc[p] \in Answered
  BY DEF Request
<1>2. op'[q] = route /\ pc'[q] \in {"lock", "sync"}
      /\ \A p \in Agents \ {q} : pc'[p] = pc[p]
  BY <1>t DEF Request, Goto
<1>3. ASSUME pc'[q] = "sync"
      PROVE  Pruned(q)' /\ (route \in Pulls => sync'[q].cmd = "pull")
  <2>1. route \notin {"buildIndex", "publishIndex"}
    BY <1>3, <1>t DEF Request, Goto
  <2>2. PICK id \in AskedIds \cup {None} :
          \E process \in FirstProcesses(route, id) :
             sync' = [sync EXCEPT ![q] = process]
    BY <2>1 DEF Request
  <2>3. \A process \in FirstProcesses(route, id) :
           /\ process.at = process.cmd /\ process.cmd \in Commands
           /\ route \in Pulls => process.cmd = "pull"
    <3>0. route \in AgentOps
      BY AgentAssumption
    <3>1. CASE route = "pushIndex"
      BY <3>1 DEF FirstProcesses, Started, Pulls, Commands
    <3>2. CASE route = "pullIndex"
      BY <3>2 DEF FirstProcesses, Started, Pulls, Commands
    <3>3. CASE route = "deployIndex"
      BY <3>3 DEF FirstProcesses, Started, Pulls, Commands
    <3>4. CASE route = "switchReloadIndex"
      BY <3>4 DEF FirstProcesses, Started, Pulls, Commands
    <3> QED BY <2>1, <3>0, <3>1, <3>2, <3>3, <3>4 DEF AgentOps
  <2>4. /\ sync'[q].at = sync'[q].cmd
        /\ route \in Pulls => sync'[q].cmd = "pull"
    BY <1>t, <2>2, <2>3
  <2> QED BY <2>4 DEF Pruned
<1> QED BY <1>1, <1>2, <1>3 DEF Pruning

LEMMA PruningStep ==
    Typed /\ Routes /\ Made /\ Pruning /\ [Next]_vars => Pruning'
<1> SUFFICES ASSUME Typed, Routes, Made, Pruning, [Next]_vars PROVE Pruning'
  OBVIOUS
<1>t. /\ pc \in [Agents -> AgentLabels] /\ sync \in [Agents -> Process]
  BY DEF Typed, TypeOK, SyncTypeOK
<1>1. ASSUME NEW q \in Agents, Agent(q)
      PROVE  Pruning'
  <2>1. /\ pc[q] \notin Answered /\ UNCHANGED <<alone, op>>
        /\ \A r \in Agents \ {q} : pc'[r] = pc[r]
    <3>1. CASE RunSync(q)
      BY <3>1 DEF RunSync, Answered, theRequests
    <3>2. CASE Lock(q) \/ Clear(q) \/ Import(q) \/ Imported(q) \/ ImportFails(q)
      BY <3>2, <1>t DEF Lock, Clear, Import, Imported, ImportFails, Goto,
                        Answered, theRequests
    <3>3. CASE SyncEnds(q) \/ UnlinkTable(q) \/ SymlinkTable(q)
      BY <3>3, <1>t DEF SyncEnds, UnlinkTable, SymlinkTable, Goto, Answered,
                        theRequests
    <3>4. CASE SendReload(q) \/ Reload(q) \/ ReloadTimesOut(q)
      BY <3>4, <1>t DEF SendReload, Reload, ReloadTimesOut, Goto, Answered,
                        theRequests
    <3> QED BY <1>1, <3>1, <3>2, <3>3, <3>4 DEF Agent
  <2>2. ASSUME NEW r \in Agents, alone[r]
        PROVE  r = q
    BY <2>1, <2>2 DEF Pruning
  <2>3. SUFFICES
          ASSUME alone[q]
          PROVE  /\ pc'[q] = "sync" => Pruned(q)'
                 /\ pc'[q] = "sync" /\ op[q] \in Pulls =>
                       sync'[q].cmd = "pull"
                 /\ (pc'[q] \in {"unlink", "symlink", "reload", "wait", "ok",
                               "blind"}
                     /\ op[q] \in Pulls) =>
                       /\ sync'[q].cmd = "pull"
                       /\ Settled(In(release'), sync'[q].id)
    BY <2>1, <2>2 DEF Pruning, Settled
  <2>4. CASE RunSync(q)
    <3>1. pc[q] = "sync" /\ pc' = pc /\ Sync(q) /\ Pruned(q)
      BY <2>3, <2>4 DEF RunSync, Pruning
    <3>2. sync'[q].cmd = sync[q].cmd
      BY <3>1, SyncFrame
    <3>3. CASE sync[q].cmd = "pull"
      BY <3>1, <3>2, <3>3, PrunedSync DEF Made
    <3>4. CASE sync[q].cmd # "pull"
      BY <2>3, <3>1, <3>2, <3>4 DEF Pruned, Pruning
    <3> QED BY <3>3, <3>4
  <2>5. CASE Lock(q) \/ Clear(q) \/ Import(q) \/ ImportFails(q)
    <3>1. pc'[q] \in {"clear", "import", "importing", "failed"}
      BY <1>t, <2>5 DEF Lock, Clear, Import, ImportFails, Goto
    <3> QED BY <3>1
  <2>6. CASE Imported(q)
    <3>1. op[q] \notin Pulls
      BY <2>6 DEF Imported, Routes, Pulls
    <3>2. pc'[q] = "sync" => sync'[q].cmd = "push"
      BY <1>t, <2>6 DEF Imported, Goto, Started
    <3> QED BY <3>1, <3>2 DEF Pruned
  <2>7. CASE SyncEnds(q)
    <3>1. /\ pc[q] = "sync" /\ UNCHANGED <<sync, release>>
          /\ pc'[q] \in {"unlink", "ok", "failed"}
          /\ pc'[q] # "failed" => sync[q].at = "ok"
      BY <1>t, <2>7 DEF SyncEnds, Goto, syncVars, files
    <3>2. Pruned(q) /\ (op[q] \in Pulls => sync[q].cmd = "pull")
      BY <2>3, <3>1 DEF Pruning
    <3> QED BY <3>1, <3>2 DEF Pruned
  <2>8. CASE \/ UnlinkTable(q) \/ SymlinkTable(q)
             \/ SendReload(q) \/ Reload(q) \/ ReloadTimesOut(q)
    <3>1. /\ pc[q] \in {"unlink", "symlink", "reload", "wait"}
          /\ UNCHANGED <<sync, release>>
      BY <2>8 DEF UnlinkTable, SymlinkTable, SendReload, Reload,
                  ReloadTimesOut, syncVars, files
    <3>2. pc'[q] # "sync"
      BY <1>t, <2>8 DEF UnlinkTable, SymlinkTable, SendReload, Reload,
                        ReloadTimesOut, Goto
    <3> QED BY <2>3, <3>1, <3>2 DEF Pruning
  <2> QED BY <1>1, <2>4, <2>5, <2>6, <2>7, <2>8 DEF Agent
<1>2. CASE LateReload \/ ScanOpens \/ ScanEnds \/ NextSecond \/ UNCHANGED vars
  <2>1. UNCHANGED <<sync, release, tmp, pc, op, alone>>
    BY <1>2 DEF LateReload, ScanOpens, ScanEnds, NextSecond, Tick, vars,
                syncVars, files, theRequests
  <2> QED BY <2>1 DEF Pruning, Pruned, Justified, Settled, TmpLink, In
<1>3. CASE RestartServer
  <2>1. UNCHANGED <<sync, release, tmp, op, alone>>
    BY <1>3 DEF RestartServer, syncVars, files
  <2>2. \A r \in Agents : \/ pc'[r] = pc[r]
                          \/ pc[r] = "wait" /\ pc'[r] = "failed"
    BY <1>3, <1>t DEF RestartServer
  <2>3. /\ In(release)' = In(release)
        /\ \A r \in Agents : Pruned(r)' = Pruned(r)
    BY <2>1 DEF Pruned, Justified, Settled, TmpLink, In
  <2>4. \A id : Settled(In(release), id)' = Settled(In(release), id)
    BY <2>3 DEF Settled
  <2>5. ASSUME NEW r \in Agents, alone[r]
        PROVE  /\ \A q \in Agents \ {r} : pc'[q] \in Answered
               /\ pc'[r] = "sync" => Pruned(r)'
               /\ pc'[r] = "sync" /\ op[r] \in Pulls => sync[r].cmd = "pull"
               /\ (pc'[r] \in {"unlink", "symlink", "reload", "wait", "ok",
                               "blind"}
                   /\ op[r] \in Pulls) =>
                     sync[r].cmd = "pull" /\ Settled(In(release), sync[r].id)
    <3>1. pc'[r] = pc[r] \/ pc'[r] = "failed"
      BY <2>2
    <3>2. \A q \in Agents \ {r} : pc'[q] \in Answered
      BY <2>2, <2>5 DEF Pruning, Answered
    <3> QED BY <2>3, <2>5, <3>1, <3>2 DEF Pruning
  <2> QED BY <2>1, <2>3, <2>4, <2>5 DEF Pruning
<1> QED BY <1>1, <1>2, <1>3, PruningRequest DEF Next

(* The invariant of a pull that runs by itself.                            *)
PullInv == Typed /\ Publishing /\ Made /\ Pruning

LEMMA PullInvariant == Spec => []PullInv
<1>1. Init => PullInv
  BY TypedInit, PublishingInit, MadeInit, PruningInit DEF PullInv
<1>2. PullInv /\ [Next]_vars => PullInv'
  BY TypedStep, PublishingStep, MadeStep, PruningStep DEF PullInv, Publishing
<1> QED BY <1>1, <1>2, PTL DEF Spec

(* A pull or a deploy that ran by itself and was answered ok has left at   *)
(* most Keep builds in the release directory and, where more than one is   *)
(* kept, one that is not older than its own.                               *)
THEOREM PullLeavesNewest == Spec => []PullKeepsNewest
<1>1. PullInv => PullKeepsNewest
  BY DEF PullInv, Pruning, PullKeepsNewest, Pulls, Settled
<1> QED BY <1>1, PullInvariant, PTL

(* A request that runs by itself takes the build under "active" out of the *)
(* release directory only when Keep newer names are there, or to copy that *)
(* very build again.                                                       *)
THEOREM ActiveYields == Spec => ActiveYieldsToNewer
<1>1. ASSUME PullInv, [Next]_vars, NEW r \in Agents, alone[r],
             active \in In(release) \ In(release')
      PROVE  \/ Cardinality({i \in In(release) : i > active} \cup TmpLink) >= Keep
             \/ sync[r].force /\ sync[r].id = active
  <2>1. /\ \A q \in Agents \ {r} : pc[q] \in Answered
        /\ pc[r] = "sync" => Pruned(r)
    BY <1>1 DEF PullInv, Pruning
  <2>2. \E q \in Agents : RunSync(q)
    <3>1. release' # release
      BY <1>1
    <3> QED BY <1>1, <3>1 DEF Next, Agent, vars, syncVars, files, Request,
       Lock, Clear, Import, Imported, ImportFails, SyncEnds, UnlinkTable,
       SymlinkTable, SendReload, Reload, ReloadTimesOut, NextSecond, Tick,
       LateReload, RestartServer, ScanOpens, ScanEnds
  <2>3. RunSync(r) /\ pc[r] = "sync" /\ Sync(r)
    BY <2>1, <2>2 DEF RunSync, Answered
  <2>4. Released(r)
    BY <1>1, <2>3, SyncReleases DEF PullInv, Made
  <2>5. CASE /\ PullFetch(r) /\ sync[r].force
             /\ In(release') = In(release) \ {sync[r].id}
    BY <1>1, <2>5
  <2>6. CASE PullRemove(r)
    <3>1. PICK v \in sync[r].victims : In(release') = In(release) \ {v}
      BY <1>1, <2>4, <2>6 DEF Released, PullFetch, PullCopy, PullRemove, At
    <3>2. active = v
      BY <1>1, <3>1
    <3>3. sync[r].at = "rmtree" /\ sync[r].cmd = "pull"
      BY <1>1, <2>6 DEF PullRemove, At, PullInv, Typed, InOrder
    <3> DEFINE left == In(release) \ sync[r].victims
    <3>4. Cardinality(Above(left, active) \cup TmpLink) >= Keep
      BY <2>1, <2>3, <3>2, <3>3 DEF Pruned, Justified
    <3>5. /\ Above(left, active) \cup TmpLink
                \subseteq Above(In(release), active) \cup TmpLink
          /\ Above(In(release), active) \cup TmpLink \subseteq Names
      BY Numbers DEF Above, TmpLink, In
    <3>6. Cardinality(Above(left, active) \cup TmpLink)
             <= Cardinality(Above(In(release), active) \cup TmpLink)
      BY <3>5, MoreIsMore
    <3>7. /\ Cardinality(Above(left, active) \cup TmpLink) \in Nat
          /\ Cardinality(Above(In(release), active) \cup TmpLink) \in Nat
      BY <3>5, NamesAreFinite
    <3>8. Cardinality(Above(In(release), active) \cup TmpLink) >= Keep
      BY <3>4, <3>6, <3>7, SyncAssumption
    <3> QED BY <3>8 DEF Above
  <2>7. CASE \/ In(release') = In(release)
             \/ In(release') = In(release) \cup {sync[r].id}
    BY <1>1, <2>7
  <2> QED BY <2>4, <2>5, <2>6, <2>7 DEF Released
<1>2. PullInv /\ [Next]_vars =>
         [\A r \in Agents :
             (alone[r] /\ active \in In(release) \ In(release')) =>
                 \/ Cardinality({i \in In(release) : i > active}
                                \cup {TmpName : t \in {tmp} \ {None}}) >= Keep
                 \/ sync[r].force /\ sync[r].id = active
         ]_vars
  BY <1>1 DEF TmpLink
<1> QED BY <1>2, PullInvariant, PTL DEF Spec, ActiveYieldsToNewer
=============================================================================
