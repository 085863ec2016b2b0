------------------------ MODULE PipelineAgentProofs ------------------------
(***************************************************************************)
(* Proofs about PipelineAgent.tla and ArtifactSync.tla, for any number of  *)
(* request threads, build ids and requests, and any failures.              *)
(***************************************************************************)
EXTENDS PipelineAgent, Integers, FiniteSetTheorems, WellFoundedInduction,
        TLAPS

(* Where a process of each command can be, and when it has an id.          *)
InOrder(p) ==
    /\ p.at \in {"push", "store"} => p.cmd = "push"
    /\ p.at \in {"pull", "fetch", "prune", "rmtree"} => p.cmd = "pull"
    /\ p.at \in {"copy", "copying"} => p.cmd \in {"push", "pull"}
    /\ p.at = "switch" => p.cmd = "switch"
    /\ p.at \in {"tmp", "symlink", "replace"} => p.cmd # "push"
    /\ p.cmd \in {"push", "pull"} => p.id \in Ids \cup {None}
    /\ p.at \in {"store", "copy", "copying", "fetch", "prune", "rmtree", "tmp",
                 "symlink", "replace"} => p.id \in Names

Typed == TypeOK /\ \A r \in Agents : InOrder(sync[r])

(* The names are numbers, so that a set of them has a greatest one.        *)
LEMMA Numbers ==
    /\ MaxId \in Nat /\ Ids \subseteq Nat /\ Names \subseteq Nat
    /\ Ids \subseteq Names /\ TmpName \in Names /\ TmpName \notin Ids
    /\ None \notin Names /\ TmpName \in Nat
    /\ \A x \in Names : x <= TmpName
BY SyncAssumption DEF Ids, Names, TmpName, None

LEMMA MaxIsGreatest ==
    ASSUME NEW S, S \subseteq Names, S # {}
    PROVE  Max(S) \in S /\ \A y \in S : Max(S) >= y
<1> DEFINE below(x) == TmpName - x
           T == {below(x) : x \in S}
<1>1. T \subseteq Nat /\ T # {}
  <2>1. \A x \in Names : TmpName - x \in Nat
    BY Numbers
  <2> QED BY <2>1
<1>2. PICK t \in T : \A u \in T : <<u, t>> \notin OpToRel(<, Nat)
  <2> HIDE DEF T
  <2> QED BY <1>1, NatLessThanWellFounded, WFMin
<1>3. \A u \in T : ~(u < t)
  BY <1>1, <1>2 DEF OpToRel
<1>4. PICK x \in S : t = below(x)
  BY <1>2
<1>5. \A y \in S : x >= y
  <2> TAKE y \in S
  <2>1. below(y) \in T
    OBVIOUS
  <2>2. ~(TmpName - y < TmpName - x)
    BY <1>3, <1>4, <2>1
  <2> QED BY <2>2, Numbers DEF TmpName
<1> QED BY <1>5 DEF Max

LEMMA NewestIsOne ==
    ASSUME NEW S, S \subseteq Names
    PROVE  Newest(S) \in S \cup {None}
BY MaxIsGreatest DEF Newest
-----------------------------------------------------------------------------
(* What the operators on directories return.                               *)

LEMMA Directories ==
    ASSUME NEW d \in Dir, NEW r \in Agents
    PROVE  /\ NoDir \in Dir
           /\ [d EXCEPT !.by = None] \in Dir
           /\ RemovedTree(d) \subseteq Dir
           /\ \A w \in BOOLEAN :
                 [d EXCEPT !.whole = w, !.by = None] \in Dir
           /\ [d EXCEPT !.whole = FALSE, !.by = r] \in Dir
<1>1. 0 \in 0 .. MaxBuild
  BY SyncAssumption
<1>2. /\ [d EXCEPT !.by = None] \in Dir
      /\ [d EXCEPT !.whole = FALSE] \in Dir
      /\ NoDir \in Dir
  BY <1>1 DEF Dir, NoDir
<1> QED BY <1>2 DEF RemovedTree, Dir

LEMMA WholeDirectory ==
    ASSUME NEW d \in Dir
    PROVE  /\ [d EXCEPT !.whole = TRUE, !.by = None] = Whole(d.build)
           /\ d.by = None => [d EXCEPT !.whole = TRUE] = Whole(d.build)
<1> DEFINE e == [d EXCEPT !.whole = TRUE, !.by = None]
           f == [d EXCEPT !.whole = TRUE]
<1>1. e \in Dir /\ e.build = d.build /\ e.whole = TRUE /\ e.by = None
  BY DEF Dir
<1>2. f \in Dir /\ f.build = d.build /\ f.whole = TRUE /\ f.by = d.by
  BY DEF Dir
<1> HIDE DEF e, f
<1> QED BY <1>1, <1>2 DEF Dir, Whole

LEMMA CopyBegins ==
    ASSUME NEW from \in Dir, NEW to \in Dir, NEW r \in Agents
    PROVE  /\ BeginCopy(r, from, to).dir \in Dir
           /\ BeginCopy(r, from, to).at \in {"copying", "failed"}
BY Directories DEF BeginCopy

LEMMA CopyEnds ==
    ASSUME NEW from \in Dir, NEW to \in Dir, NEW r \in Agents,
           sync[r].from \in Dir,
           NEW result \in EndCopy(r, from, to)
    PROVE  result.dir \in Dir
<1>1. \A w \in BOOLEAN : [to EXCEPT !.whole = w, !.by = None] \in Dir
  BY Directories
<1>2. /\ from.whole \in BOOLEAN /\ sync[r].from.whole \in BOOLEAN
      /\ (from.build = sync[r].from.build /\ from.whole) \in BOOLEAN
  BY DEF Dir
<1> DEFINE left(w) == [to EXCEPT !.whole = w, !.by = None]
           completed == {sync[r].from.whole,
                         from.build = sync[r].from.build /\ from.whole}
<1>3. /\ completed \subseteq BOOLEAN /\ to \in Dir
      /\ left(FALSE) \in Dir /\ left(from.whole) \in Dir
      /\ \A w \in completed : left(w) \in Dir
  BY <1>1, <1>2
<1>4. \/ result.dir \in {to, left(FALSE), left(from.whole)}
      \/ \E w \in completed : result.dir = left(w)
  BY DEF EndCopy
<1> QED BY <1>3, <1>4

LEMMA EvictedAreIds ==
    ASSUME NEW id \in Names, TypeOK
    PROVE  Evicted(Versions, id) \subseteq Ids
<1> DEFINE kept == Greatest(Versions \cup {id}, Keep) \cup {id}
<1>1. Versions \subseteq Names
  BY Numbers DEF Versions, In
<1>2. ASSUME TmpName \in Versions, Keep # 0
      PROVE  TmpName \in Greatest(kept, Keep)
  <2>1. \A S : S \subseteq Names => {j \in S : j > TmpName} = {}
    <3>1. \A j \in Names : ~(j > TmpName)
      BY Numbers
    <3> QED BY <3>1
  <2>2. /\ {j \in Versions \cup {id} : j > TmpName} = {}
        /\ {j \in kept : j > TmpName} = {}
    BY <1>1, <2>1 DEF Greatest
  <2>3. Cardinality({}) < Keep
    BY <1>2, SyncAssumption, FS_EmptySet
  <2> QED BY <1>2, <2>2, <2>3 DEF Greatest
<1> QED BY <1>1, <1>2 DEF Evicted, Names
-----------------------------------------------------------------------------
(* Types.                                                                  *)

(* What a process may become in a step.                                    *)
Becomes(r, p) == p \in Process /\ InOrder(p) /\ sync' = [sync EXCEPT ![r] = p]

LEMMA ProcessStarts ==
    ASSUME NEW cmd \in Commands, NEW id \in Names \cup {None},
           cmd \in {"push", "pull"} => id \in Ids \cup {None},
           NEW force \in BOOLEAN, NEW switch \in BOOLEAN,
           NEW l \in {cmd, "none", "ok", "failed"}
    PROVE  LET p == [Started(cmd, id, force, switch) EXCEPT !.at = l] IN
           p \in Process /\ InOrder(p)
<1>1. /\ NoDir \in Dir /\ {} \in SUBSET Ids /\ l \in SyncLabels
      /\ cmd \in SyncLabels
  BY SyncAssumption DEF Commands, SyncLabels, NoDir, Dir
<1> DEFINE p == [Started(cmd, id, force, switch) EXCEPT !.at = l]
<1>2. p = [at |-> l, cmd |-> cmd, id |-> id, force |-> force, link |-> switch,
           from |-> NoDir, victims |-> {}]
  BY DEF Started
<1>3. p \in Process
  BY <1>1, <1>2 DEF Process
<1>4. InOrder(p)
  BY <1>2 DEF InOrder, Commands
<1> QED BY <1>3, <1>4

LEMMA ProcessEnds ==
    ASSUME Typed, NEW r \in Agents, NEW status \in {"ok", "failed"},
           End(r, status)
    PROVE  \E p : Becomes(r, p)
<1>1. sync[r] \in Process /\ InOrder(sync[r])
  BY DEF Typed, TypeOK, SyncTypeOK
<1> DEFINE p == [Started(sync[r].cmd, sync[r].id, FALSE, FALSE)
                   EXCEPT !.at = status]
<1>2. /\ sync[r].cmd \in Commands /\ sync[r].id \in Names \cup {None}
      /\ sync[r].cmd \in {"push", "pull"} => sync[r].id \in Ids \cup {None}
  BY <1>1 DEF Process, InOrder
<1>3. p \in Process /\ InOrder(p)
  BY <1>2, ProcessStarts
<1>4. sync' = [sync EXCEPT ![r] = p]
  BY DEF End
<1> QED BY <1>3, <1>4 DEF Becomes

(* A process that goes on with its command.                                *)
LEMMA ProcessGoesOn ==
    ASSUME NEW p \in Process, NEW l \in SyncLabels,
           p.id \in Names, p.cmd \in {"push", "pull"} => p.id \in Ids,
           l \in {"push", "store"} => p.cmd = "push",
           l \in {"pull", "fetch", "prune", "rmtree"} => p.cmd = "pull",
           l \in {"copy", "copying"} => p.cmd \in {"push", "pull"},
           l # "switch",
           l \in {"tmp", "symlink", "replace"} => p.cmd # "push"
    PROVE  LET q == [p EXCEPT !.at = l] IN q \in Process /\ InOrder(q)
<1> DEFINE q == [p EXCEPT !.at = l]
<1>1. q \in Process /\ q.at = l /\ q.id = p.id /\ q.cmd = p.cmd
  BY DEF Process
<1>2. InOrder(q)
  <2> HIDE DEF q
  <2> QED BY <1>1 DEF InOrder
<1> QED BY <1>1, <1>2

LEMMA ProcessSteps ==
    ASSUME Typed, NEW r \in Agents, NEW l \in SyncLabels, Step(r, l),
           sync[r].id \in Names,
           sync[r].cmd \in {"push", "pull"} => sync[r].id \in Ids,
           l \in {"push", "store"} => sync[r].cmd = "push",
           l \in {"pull", "fetch", "prune", "rmtree"} => sync[r].cmd = "pull",
           l \in {"copy", "copying"} => sync[r].cmd \in {"push", "pull"},
           l # "switch",
           l \in {"tmp", "symlink", "replace"} => sync[r].cmd # "push"
    PROVE  \E p : Becomes(r, p)
<1>1. sync[r] \in Process
  BY DEF Typed, TypeOK, SyncTypeOK
<1> DEFINE q == [sync[r] EXCEPT !.at = l]
<1>2. q \in Process /\ InOrder(q)
  BY <1>1, ProcessGoesOn
<1>3. sync' = [sync EXCEPT ![r] = q]
  BY DEF Step
<1> QED BY <1>2, <1>3 DEF Becomes

(* What a step of artifact_sync makes of the directories.                  *)
FilesTyped ==
    /\ store' \in [Ids -> Dir] /\ release' \in [Ids -> Dir]
    /\ active' \in Names /\ tmp' \in Names \cup {None}
    /\ chosen' \in [Ids -> Nat]

LEMMA PushTyped ==
    ASSUME Typed, NEW r \in Agents,
           PushResolve(r) \/ PushReplace(r) \/ PushCopy(r) \/ PushCopied(r)
    PROVE  FilesTyped /\ \E p : Becomes(r, p)
<1>t. /\ sync[r] \in Process /\ InOrder(sync[r])
      /\ source \in Dir /\ store \in [Ids -> Dir] /\ chosen \in [Ids -> Nat]
      /\ UNCHANGED <<release, active, tmp>> => /\ release' \in [Ids -> Dir]
                                              /\ active' \in Names
                                              /\ tmp' \in Names \cup {None}
  BY DEF Typed, TypeOK, SyncTypeOK
<1>1. CASE PushResolve(r)
  <2> DEFINE id == IF sync[r].id # None THEN sync[r].id ELSE Allocated
  <2>1. id \in Ids /\ sync[r].cmd = "push"
    <3>1. Allocated \in Ids \cup {None}
      BY NewestIsOne, Numbers DEF Allocated
    <3> QED BY <1>t, <1>1, <3>1 DEF PushResolve, At, InOrder
  <2>2. CASE source = NoDir
    BY <1>t, <1>1, <2>2, ProcessEnds
       DEF PushResolve, Fail, FilesTyped, files
  <2>3. CASE source # NoDir
    <3>1. /\ sync' = [sync EXCEPT ![r] = [sync[r] EXCEPT !.at = "store",
                                                         !.id = id]]
          /\ chosen' = [chosen EXCEPT ![id] = @ + 1]
          /\ UNCHANGED files
      BY <1>1, <2>3 DEF PushResolve
    <3> DEFINE p == [sync[r] EXCEPT !.at = "store", !.id = id]
    <3>2. p \in Process /\ p.at = "store" /\ p.id = id /\ p.cmd = "push"
      BY <1>t, <2>1, Numbers DEF Process, SyncLabels
    <3>3. InOrder(p)
      <4> HIDE DEF p
      <4> QED BY <2>1, <3>2, Numbers DEF InOrder
    <3>4. chosen' \in [Ids -> Nat]
      BY <1>t, <2>1, <3>1
    <3> QED BY <1>t, <3>1, <3>2, <3>3, <3>4
               DEF FilesTyped, Becomes, files
  <2> QED BY <2>2, <2>3
<1>2. CASE PushReplace(r)
  <2> DEFINE id == sync[r].id
  <2>1. id \in Ids /\ sync[r].cmd = "push" /\ id \in Names
    BY <1>t, <1>2, Numbers DEF PushReplace, At, InOrder
  <2>2. Step(r, "copy") \/ Fail(r)
    BY <1>2 DEF PushReplace
  <2>3. \E p : Becomes(r, p)
    BY <2>1, <2>2, ProcessEnds, ProcessSteps DEF Fail, SyncLabels
  <2>4. store' \in [Ids -> Dir]
    <3>1. store' = store \/ \E d \in Dir : store' = [store EXCEPT ![id] = d]
      <4>1. RemovedTree(store[id]) \subseteq Dir
        BY <1>t, <2>1, Directories
      <4> QED BY <1>2, <1>t, <2>1, <4>1 DEF PushReplace
    <3> QED BY <1>t, <3>1
  <2> QED BY <1>t, <1>2, <2>3, <2>4 DEF PushReplace, FilesTyped
<1>3. CASE PushCopy(r)
  <2> DEFINE id == sync[r].id
             begun == BeginCopy(r, source, store[id])
  <2>1. id \in Ids /\ sync[r].cmd = "push" /\ id \in Names
    BY <1>t, <1>3, Numbers DEF PushCopy, At, InOrder
  <2>2. begun.dir \in Dir /\ begun.at \in {"copying", "failed"}
    BY <1>t, <2>1, CopyBegins
  <2>3. /\ store' = [store EXCEPT ![id] = begun.dir]
        /\ sync' = [sync EXCEPT ![r] = [sync[r] EXCEPT !.at = begun.at,
                                                       !.from = source]]
    BY <1>3 DEF PushCopy
  <2> HIDE DEF begun
  <2> DEFINE p == [sync[r] EXCEPT !.at = begun.at, !.from = source]
  <2>4. p \in Process /\ p.at = begun.at /\ p.id = id /\ p.cmd = "push"
    BY <1>t, <2>1, <2>2 DEF Process, SyncLabels
  <2>5. InOrder(p)
    <3> HIDE DEF p
    <3> QED BY <2>1, <2>2, <2>4 DEF InOrder
  <2>6. store' \in [Ids -> Dir]
    BY <1>t, <2>2, <2>3
  <2> QED BY <1>t, <1>3, <2>3, <2>4, <2>5, <2>6
             DEF PushCopy, FilesTyped, Becomes
<1>4. CASE PushCopied(r)
  <2> DEFINE id == sync[r].id
  <2>1. id \in Ids
    BY <1>t, <1>4, Numbers DEF PushCopied, At, InOrder
  <2>2. PICK result \in EndCopy(r, source, store[id]) :
           /\ store' = [store EXCEPT ![id] = result.dir]
           /\ End(r, IF result.ok THEN "ok" ELSE "failed")
    BY <1>4 DEF PushCopied
  <2>3. result.dir \in Dir
    BY <1>t, <2>1, CopyEnds DEF Process
  <2>4. \E p : Becomes(r, p)
    BY <2>2, ProcessEnds
  <2>5. store' \in [Ids -> Dir]
    BY <1>t, <2>2, <2>3
  <2> QED BY <1>t, <1>4, <2>4, <2>5 DEF PushCopied, FilesTyped
<1> QED BY <1>1, <1>2, <1>3, <1>4

LEMMA PullTyped ==
    ASSUME Typed, NEW r \in Agents,
           \/ PullResolve(r) \/ PullFetch(r) \/ PullCopy(r) \/ PullCopied(r)
           \/ PullPrune(r) \/ PullRemove(r) \/ PullDone(r)
    PROVE  FilesTyped /\ \E p : Becomes(r, p)
<1> DEFINE id == sync[r].id
<1>t. /\ sync[r] \in Process /\ InOrder(sync[r])
      /\ store \in [Ids -> Dir] /\ release \in [Ids -> Dir]
      /\ UNCHANGED <<store, active, tmp, chosen>> =>
            /\ store' \in [Ids -> Dir] /\ chosen' \in [Ids -> Nat]
            /\ active' \in Names /\ tmp' \in Names \cup {None}
  BY DEF Typed, TypeOK, SyncTypeOK
<1>i. ASSUME ~PullResolve(r), ~PullCopy(r), ~PullCopied(r)
      PROVE  id \in Ids /\ id \in Names /\ sync[r].cmd = "pull"
  BY <1>t, <1>i, Numbers
     DEF PullFetch, PullPrune, PullRemove, PullDone, At, InOrder
<1>d. \A i \in Ids : RemovedTree(release[i]) \subseteq Dir
  BY <1>t, Directories
<1>1. CASE PullResolve(r)
  <2> DEFINE new == IF id # None THEN id ELSE Newest(In(store))
             p == [sync[r] EXCEPT !.at = "fetch", !.id = new]
  <2>1. CASE new \in In(store)
    <3>1. new \in Ids /\ sync[r].cmd = "pull" /\ new \in Names
      BY <1>t, <1>1, <2>1, Numbers DEF In, PullResolve, At, InOrder
    <3>2. sync' = [sync EXCEPT ![r] = p]
      BY <1>1, <2>1 DEF PullResolve
    <3>3. p \in Process /\ p.at = "fetch" /\ p.id = new /\ p.cmd = "pull"
      BY <1>t, <3>1 DEF Process, SyncLabels
    <3>4. InOrder(p)
      <4> HIDE DEF p
      <4> QED BY <3>1, <3>3 DEF InOrder
    <3> QED BY <1>t, <1>1, <3>2, <3>3, <3>4
               DEF PullResolve, files, FilesTyped, Becomes
  <2>2. CASE new \notin In(store)
    <3>1. \E q : Becomes(r, q)
      BY <1>1, <2>2, ProcessEnds DEF PullResolve, Fail
    <3> QED BY <1>t, <1>1, <3>1 DEF PullResolve, files, FilesTyped
  <2> QED BY <2>1, <2>2
<1>2. CASE PullFetch(r)
  <2>1. id \in Ids /\ id \in Names /\ sync[r].cmd = "pull"
    BY <1>t, <1>2, Numbers DEF PullFetch, At, InOrder
  <2>2. \E p : Becomes(r, p)
    <3>1. Step(r, "copy") \/ Step(r, "prune") \/ Fail(r)
      BY <1>2 DEF PullFetch
    <3> QED BY <2>1, <3>1, ProcessEnds, ProcessSteps DEF Fail, SyncLabels
  <2>3. release' \in [Ids -> Dir]
    <3>1. \/ release' = release
          \/ \E d \in Dir : release' = [release EXCEPT ![id] = d]
      BY <1>2, <1>d, <2>1 DEF PullFetch
    <3> QED BY <1>t, <3>1
  <2> QED BY <1>t, <1>2, <2>2, <2>3 DEF PullFetch, FilesTyped
<1>3. CASE PullCopy(r)
  <2> DEFINE begun == BeginCopy(r, store[id], release[id])
             p == [sync[r] EXCEPT !.at = begun.at, !.from = store[id]]
  <2>1. id \in Ids /\ sync[r].cmd = "pull" /\ id \in Names
    BY <1>t, <1>3, Numbers DEF PullCopy, At, InOrder
  <2>2. begun.dir \in Dir /\ begun.at \in {"copying", "failed"}
    BY <1>t, <2>1, CopyBegins
  <2>3. /\ release' = [release EXCEPT ![id] = begun.dir]
        /\ sync' = [sync EXCEPT ![r] = p]
    BY <1>3 DEF PullCopy
  <2> HIDE DEF begun
  <2>4. p \in Process /\ p.at = begun.at /\ p.id = id /\ p.cmd = "pull"
    BY <1>t, <2>1, <2>2 DEF Process, SyncLabels
  <2>5. InOrder(p)
    <3> HIDE DEF p
    <3> QED BY <2>1, <2>2, <2>4 DEF InOrder
  <2>6. release' \in [Ids -> Dir]
    BY <1>t, <2>2, <2>3
  <2> QED BY <1>t, <1>3, <2>3, <2>4, <2>5, <2>6
             DEF PullCopy, FilesTyped, Becomes
<1>4. CASE PullCopied(r)
  <2> DEFINE p == [sync[r] EXCEPT !.at = "prune", !.from = NoDir]
  <2>1. id \in Ids /\ sync[r].cmd = "pull" /\ id \in Names
    BY <1>t, <1>4, Numbers DEF PullCopied, At, InOrder
  <2>2. PICK result \in EndCopy(r, store[id], release[id]) :
           /\ release' = [release EXCEPT ![id] = result.dir]
           /\ \/ sync' = [sync EXCEPT ![r] = p]
              \/ Fail(r)
    BY <1>4 DEF PullCopied
  <2>3. result.dir \in Dir
    BY <1>t, <2>1, CopyEnds DEF Process
  <2>4. p \in Process /\ InOrder(p)
    <3>1. NoDir \in Dir
      BY SyncAssumption DEF NoDir, Dir
    <3>2. p \in Process /\ p.at = "prune" /\ p.id = id /\ p.cmd = "pull"
      BY <1>t, <2>1, <3>1 DEF Process, SyncLabels
    <3> HIDE DEF p
    <3> QED BY <2>1, <3>2 DEF InOrder
  <2>5. \E q : Becomes(r, q)
    BY <2>2, <2>4, ProcessEnds DEF Fail, Becomes
  <2>6. release' \in [Ids -> Dir]
    BY <1>t, <2>2, <2>3
  <2> QED BY <1>t, <1>4, <2>5, <2>6 DEF PullCopied, FilesTyped
<1>5. CASE PullPrune(r)
  <2> DEFINE gone == Evicted(Versions, id)
             p == [sync[r] EXCEPT !.at = "rmtree", !.victims = gone]
  <2>1. id \in Ids /\ id \in Names /\ sync[r].cmd = "pull"
    BY <1>t, <1>5, Numbers DEF PullPrune, At, InOrder
  <2>2. gone \in SUBSET Ids
    BY <2>1, EvictedAreIds DEF Typed
  <2>3. sync' = [sync EXCEPT ![r] = p]
    BY <1>5 DEF PullPrune
  <2> HIDE DEF gone
  <2>4. p \in Process /\ p.at = "rmtree" /\ p.id = id /\ p.cmd = "pull"
    BY <1>t, <2>1, <2>2 DEF Process, SyncLabels
  <2>5. InOrder(p)
    <3> HIDE DEF p
    <3> QED BY <2>1, <2>4 DEF InOrder
  <2> QED BY <1>t, <1>5, <2>3, <2>4, <2>5
             DEF PullPrune, files, FilesTyped, Becomes
<1>6. CASE PullRemove(r)
  <2>1. /\ id \in Ids /\ id \in Names /\ sync[r].cmd = "pull"
        /\ sync[r].at = "rmtree" /\ sync[r].victims \subseteq Ids
    BY <1>t, <1>6, Numbers DEF PullRemove, At, InOrder, Process
  <2>2. PICK v \in sync[r].victims :
           \/ Fail(r) /\ UNCHANGED release
           \/ \E d \in RemovedTree(release[v]) :
                 /\ release' = [release EXCEPT ![v] = d]
                 /\ \/ sync' = [sync EXCEPT ![r].victims = @ \ {v}]
                    \/ Fail(r)
    BY <1>6 DEF PullRemove
  <2> DEFINE p == [sync[r] EXCEPT !.victims = @ \ {v}]
  <2>3. p \in Process /\ InOrder(p)
    <3>1. p \in Process /\ p.at = "rmtree" /\ p.id = id /\ p.cmd = "pull"
      BY <1>t, <2>1 DEF Process
    <3> HIDE DEF p
    <3> QED BY <2>1, <3>1 DEF InOrder
  <2>4. \E q : Becomes(r, q)
    BY <2>2, <2>3, ProcessEnds DEF Fail, Becomes
  <2>5. release' \in [Ids -> Dir]
    <3>1. \/ release' = release
          \/ \E d \in Dir : release' = [release EXCEPT ![v] = d]
      BY <1>d, <2>1, <2>2
    <3> QED BY <1>t, <3>1
  <2> QED BY <1>t, <1>6, <2>4, <2>5 DEF PullRemove, FilesTyped
<1>7. CASE PullDone(r)
  <2>1. id \in Ids /\ id \in Names /\ sync[r].cmd = "pull"
    BY <1>t, <1>7, Numbers DEF PullDone, At, InOrder
  <2>2. Step(r, "tmp") \/ End(r, "ok")
    BY <1>7 DEF PullDone
  <2>3. \E p : Becomes(r, p)
    BY <2>1, <2>2, ProcessEnds, ProcessSteps DEF SyncLabels
  <2> QED BY <1>t, <1>7, <2>3 DEF PullDone, files, FilesTyped
<1> QED BY <1>1, <1>2, <1>3, <1>4, <1>5, <1>6, <1>7

LEMMA SwitchTyped ==
    ASSUME Typed, NEW r \in Agents,
           \/ SwitchResolve(r) \/ UnlinkTmp(r) \/ SymlinkTmp(r)
           \/ ReplaceActive(r) \/ Killed(r)
    PROVE  FilesTyped /\ \E p : Becomes(r, p)
<1> DEFINE id == sync[r].id
<1>t. /\ sync[r] \in Process /\ InOrder(sync[r]) /\ id \in Names \cup {None}
      /\ store \in [Ids -> Dir] /\ release \in [Ids -> Dir]
      /\ chosen \in [Ids -> Nat]
      /\ active \in Names /\ tmp \in Names \cup {None}
  BY DEF Typed, TypeOK, SyncTypeOK, Process
<1>1. CASE SwitchResolve(r)
  <2> DEFINE new == IF id # None THEN id ELSE Newest(Versions)
             p == [sync[r] EXCEPT !.at = "tmp", !.id = new]
  <2>1. CASE new \in Versions
    <3>1. new \in Names /\ new # None
      BY <2>1, Numbers DEF In, Versions
    <3>2. sync' = [sync EXCEPT ![r] = p]
      BY <1>1, <2>1 DEF SwitchResolve
    <3>3. /\ p \in Process /\ p.at = "tmp" /\ p.id = new
          /\ p.cmd = sync[r].cmd
      BY <1>t, <3>1 DEF Process, SyncLabels
    <3>4. (p.cmd \in {"push", "pull"} => new \in Ids) /\ p.cmd = "switch"
      <4>1. CASE id # None
        BY <1>t, <1>1, <3>3, <4>1 DEF SwitchResolve, At, InOrder
      <4>2. CASE id = None
        BY <1>t, <1>1, <3>3, <4>2 DEF SwitchResolve, At, InOrder
      <4> QED BY <4>1, <4>2
    <3>5. InOrder(p)
      <4> HIDE DEF p
      <4> QED BY <3>1, <3>3, <3>4 DEF InOrder
    <3> QED BY <1>t, <1>1, <3>2, <3>3, <3>5
               DEF SwitchResolve, files, FilesTyped, Becomes
  <2>2. CASE new \notin Versions
    <3>1. \E q : Becomes(r, q)
      BY <1>1, <2>2, ProcessEnds DEF SwitchResolve, Fail
    <3> QED BY <1>t, <1>1, <3>1 DEF SwitchResolve, files, FilesTyped
  <2> QED BY <2>1, <2>2
<1>2. CASE UnlinkTmp(r)
  <2>1. \E p : Becomes(r, p)
    <3>1. /\ id \in Names /\ (sync[r].cmd \in {"push", "pull"} => id \in Ids)
          /\ sync[r].cmd # "push"
      BY <1>t, <1>2, Numbers DEF UnlinkTmp, At, InOrder
    <3> QED BY <1>2, <3>1, ProcessSteps DEF UnlinkTmp, SyncLabels
  <2> QED BY <1>t, <1>2, <2>1 DEF UnlinkTmp, FilesTyped
<1>3. CASE SymlinkTmp(r)
  <2>1. /\ id \in Names /\ (sync[r].cmd \in {"push", "pull"} => id \in Ids)
        /\ sync[r].cmd # "push"
    BY <1>t, <1>3, Numbers DEF SymlinkTmp, At, InOrder
  <2>2. \E p : Becomes(r, p)
    <3>1. Step(r, "replace") \/ Fail(r)
      BY <1>3 DEF SymlinkTmp
    <3> QED BY <2>1, <3>1, ProcessSteps, ProcessEnds DEF Fail, SyncLabels
  <2> QED BY <1>t, <1>3, <2>1, <2>2 DEF SymlinkTmp, FilesTyped
<1>4. CASE ReplaceActive(r)
  <2>1. \E p : Becomes(r, p)
    BY <1>4, ProcessEnds DEF ReplaceActive, Fail
  <2> QED BY <1>t, <1>4, <2>1 DEF ReplaceActive, FilesTyped
<1>5. CASE Killed(r)
  <2>1. \E p : Becomes(r, p)
    BY <1>5, ProcessEnds DEF Killed, Fail
  <2>2. \A d \in Dir : [d EXCEPT !.by = None] \in Dir
    BY Directories
  <2>3. store' \in [Ids -> Dir] /\ release' \in [Ids -> Dir]
    BY <1>t, <1>5, <2>2 DEF Killed
  <2> QED BY <1>t, <1>5, <2>1, <2>3 DEF Killed, FilesTyped
<1> QED BY <1>1, <1>2, <1>3, <1>4, <1>5

LEMMA SyncTyped ==
    ASSUME Typed, NEW r \in Agents, Sync(r)
    PROVE  SyncTypeOK' /\ \A q \in Agents : InOrder(sync[q])'
<1>1. FilesTyped /\ \E p : Becomes(r, p)
  BY PushTyped, PullTyped, SwitchTyped DEF Sync
<1>2. /\ sync' \in [Agents -> Process]
      /\ \A q \in Agents : InOrder(sync'[q])
  BY <1>1 DEF Becomes, Typed, TypeOK, SyncTypeOK
<1>3. source' = source /\ clock' = clock
  BY DEF Sync, PushResolve, PushReplace, PushCopy, PushCopied, PullResolve,
         PullFetch, PullCopy, PullCopied, PullPrune, PullRemove, PullDone,
         SwitchResolve, UnlinkTmp, SymlinkTmp, ReplaceActive, Killed, files
<1> QED BY <1>1, <1>2, <1>3 DEF FilesTyped, Typed, TypeOK, SyncTypeOK, InOrder

(* The process that a request starts.                                      *)
LEMMA FirstProcessTyped ==
    ASSUME NEW route \in AgentOps \ {"buildIndex", "publishIndex"},
           NEW id \in AskedIds \cup {None},
           NEW process \in FirstProcesses(route, id)
    PROVE  process \in Process /\ InOrder(process)
<1>1. \E cmd \in Commands, force, switch \in BOOLEAN :
         process = Started(cmd, id, force, switch)
  <2>1. CASE route = "pushIndex"
    <3>1. process = Started("push", id, FALSE, FALSE)
      BY <2>1 DEF FirstProcesses
    <3> QED BY <3>1 DEF Commands
  <2>2. CASE route = "pullIndex"
    BY <2>2 DEF FirstProcesses, Commands
  <2>3. CASE route = "deployIndex"
    <3>1. FirstProcesses(route, id) =
             {Started("pull", id, force, TRUE) : force \in BOOLEAN}
      BY <2>3 DEF FirstProcesses
    <3> QED BY <3>1 DEF Commands
  <2>4. CASE route = "switchReloadIndex"
    <3>1. process = Started("switch", id, FALSE, TRUE)
      BY <2>4 DEF FirstProcesses
    <3> QED BY <3>1 DEF Commands
  <2> QED BY <2>1, <2>2, <2>3, <2>4 DEF AgentOps
<1>2. PICK cmd \in Commands, force \in BOOLEAN, switch \in BOOLEAN :
         process = Started(cmd, id, force, switch)
  BY <1>1
<1>3. id \in Ids \cup {None} /\ id \in Names \cup {None}
  BY AgentAssumption, Numbers
<1>4. process = [Started(cmd, id, force, switch) EXCEPT !.at = cmd]
  BY <1>2 DEF Started
<1> QED BY <1>3, <1>4, ProcessStarts

LEMMA TypedInit == Init => Typed
<1> SUFFICES ASSUME Init PROVE Typed
  OBVIOUS
<1>1. /\ Max(Seeds) \in Seeds /\ Max(Seeds) \in Ids /\ Max(Seeds) \in Names
      /\ Max(Seeds) \in 1 .. MaxBuild
  BY MaxIsGreatest, SyncAssumption, Numbers
<1>2. NoDir \in Dir /\ \A n \in 0 .. MaxBuild : Whole(n) \in Dir
  BY SyncAssumption DEF NoDir, Whole, Dir
<1>3. NoProcess \in Process /\ InOrder(NoProcess)
  BY ProcessStarts DEF NoProcess, Commands
<1>4. store \in [Ids -> Dir] /\ release \in [Ids -> Dir]
  <2>1. \A i \in Seeds : Whole(i) \in Dir
    BY <1>2, SyncAssumption
  <2> QED BY <1>2, <2>1 DEF Init, SyncInit
<1>5. SyncTypeOK /\ \A r \in Agents : InOrder(sync[r])
  BY <1>1, <1>2, <1>3, <1>4, Numbers DEF Init, SyncInit, SyncTypeOK, Names, Ids
<1>6. /\ served \in [id : Ids \cup {None}, dir : Dir]
      /\ registered \in [id : Ids \cup {None}, dir : Dir]
  BY <1>1, <1>2, <1>4 DEF Init, SyncInit, Nothing
<1>7. builds \in 0 .. MaxBuild /\ built \in [Agents -> 0 .. MaxBuild]
  BY <1>1, SyncAssumption DEF Init
<1> QED BY <1>5, <1>6, <1>7, AgentAssumption
           DEF Typed, TypeOK, Init, AgentLabels, AgentOps

(* What the server opens is a directory that is there, or nothing.         *)
LEMMA ResolvedType ==
    ASSUME Typed
    PROVE  /\ Resolved \in [id : Ids \cup {None}, dir : Dir]
           /\ Nothing \in [id : Ids \cup {None}, dir : Dir]
<1>1. Nothing \in [id : Ids \cup {None}, dir : Dir]
  BY SyncAssumption DEF Nothing, NoDir, Dir
<1>2. \A id \in Ids : release[id] \in Dir
  BY DEF Typed, TypeOK, SyncTypeOK
<1> QED BY <1>1, <1>2 DEF Resolved, In

(* What the server serves or has registered was so before, or is what the  *)
(* table directory leads to.                                               *)
LEMMA TableMoves ==
    ASSUME NEW answer, ReloadTable(answer)
    PROVE  {served', registered'} \subseteq {served, registered, Resolved, Nothing}
BY DEF ReloadTable, Reopen, HotOpen, OpenedByName

LEMMA ServerMoves ==
    ASSUME \/ LateReload \/ RestartServer \/ ScanOpens \/ ScanEnds
           \/ \E r \in Agents : Reload(r)
    PROVE  {served', registered'} \subseteq {served, registered, Resolved, Nothing}
<1>1. CASE \E answer : ReloadTable(answer)
  BY <1>1, TableMoves
<1>2. CASE UNCHANGED <<served, registered>>
  BY <1>2
<1>3. CASE RestartServer
  BY <1>3 DEF RestartServer
<1>4. CASE ScanOpens
  BY <1>4 DEF ScanOpens, OpenedByName
<1>5. CASE ScanServes
  BY <1>5 DEF ScanServes
<1>6. CASE ScanEnds
  BY <1>6 DEF ScanEnds, ScanServes
<1>7. LateReload \/ (\E r \in Agents : Reload(r)) =>
         \/ \E answer : ReloadTable(answer)
         \/ UNCHANGED <<served, registered>>
         \/ ScanServes
  BY DEF LateReload, Reload
<1> QED BY <1>1, <1>2, <1>3, <1>4, <1>5, <1>6, <1>7

LEMMA TypedStep == Typed /\ [Next]_vars => Typed'
<1> SUFFICES ASSUME Typed, [Next]_vars PROVE Typed'
  OBVIOUS
<1>t. /\ SyncTypeOK /\ \A r \in Agents : InOrder(sync[r])
      /\ importLock \in Agents \cup {None} /\ builds \in 0 .. MaxBuild
      /\ link \in BOOLEAN /\ served \in [id : Ids \cup {None}, dir : Dir]
      /\ registered \in [id : Ids \cup {None}, dir : Dir]
      /\ scan \in {"ahead", "open", "missed", "done"}
      /\ late \in Nat /\ pc \in [Agents -> AgentLabels]
      /\ op \in [Agents -> AgentOps]
      /\ built \in [Agents -> 0 .. MaxBuild]
      /\ alone \in [Agents -> BOOLEAN] /\ events \in 0 .. MaxEvents
  BY DEF Typed, TypeOK
<1>s. UNCHANGED syncVars => SyncTypeOK' /\ \A r \in Agents : InOrder(sync[r])'
  BY <1>t DEF syncVars, files, SyncTypeOK, InOrder
<1>g. \A r \in Agents, l \in AgentLabels :
         Goto(r, l) => pc' \in [Agents -> AgentLabels]
  BY <1>t DEF Goto
<1>1. ASSUME NEW r \in Agents, NEW route \in Ops, Request(r, route)
      PROVE  Typed'
  <2>1. route \in AgentOps
    BY AgentAssumption
  <2>2. \E p \in Process : InOrder(p) /\ sync' = [sync EXCEPT ![r] = p]
    <3>1. CASE route \in {"buildIndex", "publishIndex"}
      <4>1. NoProcess \in Process /\ InOrder(NoProcess)
        BY ProcessStarts DEF NoProcess, Commands
      <4> QED BY <1>1, <3>1, <4>1 DEF Request
    <3>2. CASE route \notin {"buildIndex", "publishIndex"}
      <4>1. PICK id \in AskedIds \cup {None} :
              \E process \in FirstProcesses(route, id) :
                 sync' = [sync EXCEPT ![r] = process]
        BY <1>1, <3>2 DEF Request
      <4> QED BY <2>1, <3>2, <4>1, FirstProcessTyped
    <3> QED BY <3>1, <3>2
  <2>3. SyncTypeOK' /\ \A q \in Agents : InOrder(sync[q])'
    <3>1. /\ sync' \in [Agents -> Process]
          /\ \A q \in Agents : InOrder(sync'[q])
      BY <1>t, <2>2 DEF SyncTypeOK
    <3>2. UNCHANGED <<files, clock, chosen>>
      BY <1>1 DEF Request
    <3> QED BY <1>t, <3>1, <3>2 DEF SyncTypeOK, files, InOrder
  <2>4. pc' \in [Agents -> AgentLabels]
    <3>1. Goto(r, "lock") \/ Goto(r, "sync")
      BY <1>1 DEF Request
    <3> QED BY <1>g, <3>1 DEF AgentLabels
  <2>5. events' \in 0 .. MaxEvents
    BY <1>1, <1>t, AgentAssumption DEF Request
  <2>6. built' \in [Agents -> 0 .. MaxBuild]
    BY <1>1, <1>t, SyncAssumption DEF Request
  <2>7. /\ op' \in [Agents -> AgentOps] /\ alone' \in [Agents -> BOOLEAN]
        /\ UNCHANGED <<importLock, builds, theServer>>
    BY <1>1, <1>t, <2>1 DEF Request
  <2> QED BY <1>t, <2>3, <2>4, <2>5, <2>6, <2>7
             DEF Typed, TypeOK, theServer, theProcess
<1>2. ASSUME NEW r \in Agents, RunSync(r)
      PROVE  Typed'
  <2>1. SyncTypeOK' /\ \A q \in Agents : InOrder(sync[q])'
    BY <1>2, SyncTyped DEF RunSync
  <2> QED BY <1>2, <1>t, <2>1
             DEF RunSync, theServer, theProcess, theRequests, Typed, TypeOK
<1>3. ASSUME NEW r \in Agents, Clear(r) \/ Import(r) \/ Imported(r)
      PROVE  Typed'
  <2>1. CASE Clear(r)
    <3>1. SyncTypeOK' /\ \A q \in Agents : InOrder(sync[q])'
      <4>1. NoDir \in Dir
        BY SyncAssumption DEF NoDir, Dir
      <4> QED BY <2>1, <1>t, <4>1 DEF Clear, SyncTypeOK, InOrder
    <3>2. pc' \in [Agents -> AgentLabels]
      BY <2>1, <1>g DEF Clear, AgentLabels
    <3> QED BY <2>1, <1>t, <3>1, <3>2
               DEF Clear, theServer, theProcess, theRequests, Typed, TypeOK
  <2>2. CASE Import(r)
    <3>1. builds + 1 \in 0 .. MaxBuild
      BY <2>2, <1>t, SyncAssumption DEF Import
    <3>2. [build |-> builds + 1, whole |-> FALSE, by |-> None] \in Dir
      BY <3>1 DEF Dir
    <3>3. SyncTypeOK' /\ \A q \in Agents : InOrder(sync[q])'
      BY <2>2, <1>t, <3>2 DEF Import, SyncTypeOK, InOrder
    <3>4. pc' \in [Agents -> AgentLabels]
      BY <2>2, <1>g DEF Import, AgentLabels
    <3>5. /\ builds' \in 0 .. MaxBuild /\ built' \in [Agents -> 0 .. MaxBuild]
          /\ UNCHANGED <<importLock, theServer, op, alone, events>>
      BY <2>2, <1>t, <3>1 DEF Import
    <3> QED BY <1>t, <3>3, <3>4, <3>5 DEF theServer, theProcess, Typed, TypeOK
  <2>3. CASE Imported(r)
    <3>1. source' \in Dir
      <4>1. [source EXCEPT !.whole = TRUE] \in Dir
        BY <1>t DEF SyncTypeOK, Dir
      <4> QED BY <2>3, <4>1 DEF Imported
    <3>2. /\ sync' \in [Agents -> Process]
          /\ \A q \in Agents : InOrder(sync'[q])
      <4>1. \A id \in AskedIds \cup {None} :
               /\ Started("push", id, FALSE, FALSE) \in Process
               /\ InOrder(Started("push", id, FALSE, FALSE))
        <5>1. \A id \in AskedIds \cup {None} :
                 Started("push", id, FALSE, FALSE)
                    \in FirstProcesses("pushIndex", id)
          BY DEF FirstProcesses
        <5> QED BY <5>1, FirstProcessTyped DEF AgentOps
      <4>2. \/ sync' = sync
            \/ \E id \in AskedIds \cup {None} :
                  sync' = [sync EXCEPT ![r] = Started("push", id, FALSE, FALSE)]
        BY <2>3 DEF Imported
      <4> QED BY <1>t, <4>1, <4>2 DEF SyncTypeOK
    <3>3. SyncTypeOK' /\ \A q \in Agents : InOrder(sync[q])'
      BY <2>3, <1>t, <3>1, <3>2 DEF Imported, SyncTypeOK, InOrder
    <3>4. pc' \in [Agents -> AgentLabels]
      BY <2>3, <1>g DEF Imported, AgentLabels
    <3>5. importLock' \in Agents \cup {None}
      BY <2>3, <1>t DEF Imported
    <3> QED BY <2>3, <1>t, <3>3, <3>4, <3>5
               DEF Imported, theServer, theProcess, theRequests, Typed, TypeOK
  <2> QED BY <1>3, <2>1, <2>2, <2>3
<1>4. ASSUME NEW r \in Agents,
             \/ Lock(r) \/ ImportFails(r) \/ SyncEnds(r) \/ UnlinkTable(r)
             \/ SymlinkTable(r) \/ SendReload(r) \/ ReloadTimesOut(r)
      PROVE  Typed'
  <2>1. UNCHANGED <<syncVars, builds, scan, registered, served, theRequests>>
    BY <1>4 DEF Lock, ImportFails, SyncEnds, UnlinkTable, SymlinkTable,
                SendReload, ReloadTimesOut, theServer, theProcess
  <2>2. pc' \in [Agents -> AgentLabels]
    BY <1>4, <1>g DEF Lock, ImportFails, SyncEnds, UnlinkTable, SymlinkTable,
                      SendReload, ReloadTimesOut, AgentLabels
  <2>3. importLock' \in {importLock, r, None}
    BY <1>4 DEF Lock, ImportFails, SyncEnds, UnlinkTable, SymlinkTable,
                SendReload, ReloadTimesOut
  <2>4. link' \in {link, TRUE, FALSE}
    BY <1>4 DEF Lock, ImportFails, SyncEnds, UnlinkTable, SymlinkTable,
                SendReload, ReloadTimesOut, theServer, theProcess
  <2>5. late' \in {late, late + 1}
    BY <1>4 DEF Lock, ImportFails, SyncEnds, UnlinkTable, SymlinkTable,
                SendReload, ReloadTimesOut, theServer, theProcess
  <2>6. SyncTypeOK' /\ \A q \in Agents : InOrder(sync[q])'
    BY <1>s, <2>1
  <2>7. importLock' \in Agents \cup {None} /\ late' \in Nat
    BY <1>t, <2>3, <2>5
  <2>8. link' \in BOOLEAN
    BY <1>t, <2>4, Zenon
  <2> QED BY <1>t, <2>1, <2>2, <2>6, <2>7, <2>8
             DEF theRequests, Typed, TypeOK
<1>o. ASSUME \/ LateReload \/ RestartServer \/ ScanOpens \/ ScanEnds
             \/ \E r \in Agents : Reload(r)
      PROVE  /\ served' \in [id : Ids \cup {None}, dir : Dir]
             /\ registered' \in [id : Ids \cup {None}, dir : Dir]
             /\ scan' \in {"ahead", "open", "missed", "done"}
  <2>1. {served', registered'} \subseteq {served, registered, Resolved, Nothing}
    BY <1>o, ServerMoves
  <2>2. scan' \in {scan, "ahead", "open", "missed", "done"}
    BY <1>o DEF LateReload, RestartServer, ScanOpens, ScanEnds, ScanServes, Reload
  <2> QED BY <1>t, <2>1, <2>2, ResolvedType
<1>5. ASSUME NEW r \in Agents, Reload(r)
      PROVE  Typed'
  <2>1. pc' \in [Agents -> AgentLabels]
    BY <1>5, <1>g DEF Reload, AgentLabels
  <2>2. UNCHANGED <<syncVars, importLock, builds, link, late, theRequests>>
    BY <1>5 DEF Reload
  <2> QED BY <1>5, <1>s, <1>t, <1>o, <2>1, <2>2
             DEF theRequests, Typed, TypeOK
<1>6. CASE LateReload \/ ScanOpens \/ ScanEnds
  <2>1. /\ UNCHANGED <<syncVars, importLock, builds, link, pc, theRequests>>
        /\ late' \in Nat
    BY <1>6, <1>t DEF LateReload, ScanOpens, ScanEnds
  <2> QED BY <1>6, <1>s, <1>t, <1>o, <2>1 DEF theRequests, Typed, TypeOK
<1>7. CASE RestartServer
  <2>1. events' \in 0 .. MaxEvents /\ late' \in Nat
    BY <1>7, <1>t, AgentAssumption DEF RestartServer
  <2>2. pc' \in [Agents -> AgentLabels]
    BY <1>7, <1>t DEF RestartServer, AgentLabels
  <2>3. UNCHANGED <<syncVars, importLock, builds, link, op, built, alone>>
    BY <1>7 DEF RestartServer
  <2> QED BY <1>7, <1>s, <1>t, <1>o, <2>1, <2>2, <2>3 DEF Typed, TypeOK
<1>8. CASE NextSecond
  <2>1. clock' \in Nat
    <3> DEFINE used == {i \in Ids : chosen[i] > 0}
    <3>1. used \subseteq Names
      BY Numbers
    <3>2. Newest(used) \in Nat
      <4> HIDE DEF used
      <4>1. Newest(used) \in used \cup {None}
        BY <3>1, NewestIsOne
      <4>2. None \in Nat /\ used \subseteq Nat
        BY <3>1, Numbers DEF None
      <4> QED BY <4>1, <4>2
    <3> QED BY <1>8, <3>2 DEF NextSecond, Tick
  <2> QED BY <1>8, <1>t, <2>1
             DEF NextSecond, Tick, files, SyncTypeOK, InOrder, theServer,
                 theProcess, theRequests, Typed, TypeOK
<1>9. CASE UNCHANGED vars
  BY <1>9, <1>s, <1>t DEF vars, theServer, theProcess, theRequests, Typed, TypeOK
<1> QED BY <1>1, <1>2, <1>3, <1>4, <1>5, <1>6, <1>7, <1>8, <1>9
           DEF Next, Agent

(* The variables of the agent and of artifact_sync keep their types.       *)
THEOREM TypeCorrect == Spec => []TypeOK
<1>1. Typed => TypeOK
  BY DEF Typed
<1> QED BY <1>1, TypedInit, TypedStep, PTL DEF Spec
-----------------------------------------------------------------------------
(* A publish stores what it built.                                         *)

(* A push that has chosen its id and has not failed.                       *)
Claims(r) ==
    /\ sync[r].cmd = "push"
    /\ sync[r].at \in {"store", "copy", "copying", "ok"}

(* The lock is held from the clearing of the index to the end of a build,  *)
(* and of the push of a publish.                                           *)
LockHeld ==
    \A r \in Agents :
        (\/ pc[r] \in {"clear", "import", "importing"}
         \/ pc[r] = "sync" /\ op[r] = "publishIndex") => importLock = r

Routes ==
    \A r \in Agents :
        /\ pc[r] \in {"lock", "clear", "import", "importing"} =>
              op[r] \in {"buildIndex", "publishIndex"}
        /\ pc[r] \in {"unlink", "symlink", "reload", "wait"} =>
              op[r] \in {"deployIndex", "switchReloadIndex"}
        /\ op[r] = "publishIndex" /\ pc[r] \in {"sync", "ok"} =>
              sync[r].cmd = "push"
        /\ op[r] = "publishIndex" /\ pc[r] = "ok" => sync[r].at = "ok"

(* Each push that claims an id is counted.                                 *)
Counted ==
    \A r \in Agents : Claims(r) =>
        /\ sync[r].id \in Ids /\ chosen[sync[r].id] >= 1
        /\ \A q \in Agents \ {r} :
              Claims(q) /\ sync[q].id = sync[r].id => chosen[sync[r].id] >= 2

(* The index of a publish, from the import to the end of its copy.         *)
Published ==
    \A r \in Agents : op[r] = "publishIndex" =>
        /\ pc[r] = "importing" =>
              source = [build |-> built[r], whole |-> FALSE, by |-> None]
        /\ pc[r] = "sync" => source = Whole(built[r])
        /\ (pc[r] = "sync" /\ sync[r].at = "copying"
            /\ chosen[sync[r].id] = 1) =>
              /\ sync[r].from = Whole(built[r])
              /\ store[sync[r].id] =
                    [build |-> built[r], whole |-> FALSE, by |-> r]
        /\ (pc[r] \in {"sync", "ok"} /\ sync[r].at = "ok"
            /\ chosen[sync[r].id] = 1) => store[sync[r].id] = Whole(built[r])

Publishing == LockHeld /\ Routes /\ Counted /\ Published

(* What a step of one process of artifact_sync leaves alone.               *)
LEMMA SyncFrame ==
    ASSUME Typed, NEW q \in Agents, Sync(q)
    PROVE  /\ \A r \in Agents \ {q} : sync'[r] = sync[r]
           /\ sync'[q].cmd = sync[q].cmd
           /\ source' = source
           /\ ~PushResolve(q) =>
                 /\ chosen' = chosen
                 /\ Claims(q)' => Claims(q) /\ sync'[q].id = sync[q].id
           /\ \A i \in Ids : \/ store'[i] = store[i]
                             \/ Claims(q) /\ i = sync[q].id
                             \/ store[i].by = q
<1>t. /\ sync \in [Agents -> Process] /\ sync[q] \in Process
      /\ InOrder(sync[q]) /\ store \in [Ids -> Dir]
  BY DEF Typed, TypeOK, SyncTypeOK
<1>e. ASSUME NEW status \in {"ok", "failed"}, End(q, status)
      PROVE  /\ \A r \in Agents \ {q} : sync'[r] = sync[r]
             /\ sync'[q].cmd = sync[q].cmd /\ sync'[q].id = sync[q].id
             /\ sync'[q].at = status
  BY <1>t, <1>e DEF End, Started
<1>f. Fail(q) => /\ \A r \in Agents \ {q} : sync'[r] = sync[r]
                 /\ sync'[q].cmd = sync[q].cmd /\ ~Claims(q)'
  BY <1>e DEF Fail, Claims
<1>s. ASSUME NEW l \in SyncLabels, Step(q, l)
      PROVE  /\ \A r \in Agents \ {q} : sync'[r] = sync[r]
             /\ sync'[q].cmd = sync[q].cmd /\ sync'[q].id = sync[q].id
             /\ sync'[q].at = l
  BY <1>t, <1>s DEF Step, Process
<1>1. CASE PushResolve(q)
  BY <1>1, <1>t, <1>f DEF PushResolve, Process, files
<1>2. CASE PushReplace(q)
  <2>1. Claims(q)
    BY <1>2, <1>t DEF PushReplace, At, Claims, InOrder
  <2>2. Step(q, "copy") \/ Fail(q)
    BY <1>2 DEF PushReplace
  <2>3. \A i \in Ids : i # sync[q].id => store'[i] = store[i]
    BY <1>2, <1>t DEF PushReplace
  <2>4. source' = source /\ chosen' = chosen
    BY <1>2 DEF PushReplace
  <2> QED BY <1>f, <1>s, <2>1, <2>2, <2>3, <2>4 DEF SyncLabels
<1>3. CASE PushCopy(q)
  <2>1. Claims(q)
    BY <1>3, <1>t DEF PushCopy, At, Claims, InOrder
  <2>2. /\ \A r \in Agents \ {q} : sync'[r] = sync[r]
        /\ sync'[q].cmd = sync[q].cmd /\ sync'[q].id = sync[q].id
    BY <1>3, <1>t DEF PushCopy, Process
  <2>3. \A i \in Ids : i # sync[q].id => store'[i] = store[i]
    BY <1>3, <1>t DEF PushCopy
  <2>4. source' = source /\ chosen' = chosen
    BY <1>3 DEF PushCopy
  <2> QED BY <2>1, <2>2, <2>3, <2>4
<1>4. CASE PushCopied(q)
  <2>1. Claims(q)
    BY <1>4, <1>t DEF PushCopied, At, Claims, InOrder
  <2>2. End(q, "ok") \/ End(q, "failed")
    BY <1>4 DEF PushCopied
  <2>3. \A i \in Ids : i # sync[q].id => store'[i] = store[i]
    BY <1>4, <1>t DEF PushCopied
  <2>4. source' = source /\ chosen' = chosen
    BY <1>4 DEF PushCopied
  <2> QED BY <1>e, <2>1, <2>2, <2>3, <2>4
<1>5. ASSUME \/ PullResolve(q) \/ PullFetch(q) \/ PullCopy(q) \/ PullCopied(q)
             \/ PullPrune(q) \/ PullRemove(q) \/ PullDone(q)
             \/ SwitchResolve(q) \/ UnlinkTmp(q) \/ SymlinkTmp(q)
             \/ ReplaceActive(q)
      PROVE  /\ sync[q].cmd # "push" /\ sync'[q].cmd = sync[q].cmd
             /\ \A r \in Agents \ {q} : sync'[r] = sync[r]
             /\ UNCHANGED <<source, store, chosen>>
  <2>1. sync[q].cmd # "push"
    BY <1>5, <1>t DEF PullResolve, PullFetch, PullCopy, PullCopied, PullPrune,
       PullRemove, PullDone, SwitchResolve, UnlinkTmp, SymlinkTmp,
       ReplaceActive, At, InOrder
  <2>2. UNCHANGED <<source, store, chosen>>
    BY <1>5 DEF PullResolve, PullFetch, PullCopy, PullCopied, PullPrune,
       PullRemove, PullDone, SwitchResolve, UnlinkTmp, SymlinkTmp,
       ReplaceActive, files
  <2>3. \/ Fail(q) \/ End(q, "ok")
        \/ \E l \in SyncLabels : Step(q, l)
        \/ \E p : sync' = [sync EXCEPT ![q] = p] /\ p.cmd = sync[q].cmd
    <3>1. CASE PullResolve(q) \/ PullCopy(q) \/ PullPrune(q)
               \/ SwitchResolve(q)
      BY <3>1, <1>t DEF PullResolve, PullCopy, PullPrune, SwitchResolve, Process
    <3>2. CASE PullFetch(q) \/ PullDone(q) \/ UnlinkTmp(q) \/ SymlinkTmp(q)
               \/ ReplaceActive(q)
      BY <3>2 DEF PullFetch, PullDone, UnlinkTmp, SymlinkTmp, ReplaceActive,
                  SyncLabels
    <3>3. CASE PullCopied(q) \/ PullRemove(q)
      BY <3>3, <1>t DEF PullCopied, PullRemove, Process
    <3> QED BY <1>5, <3>1, <3>2, <3>3
  <2> QED BY <1>t, <1>e, <1>f, <1>s, <2>1, <2>2, <2>3
<1>6. CASE Killed(q)
  BY <1>6, <1>t, <1>f DEF Killed
<1> QED BY <1>1, <1>2, <1>3, <1>4, <1>5, <1>6 DEF Sync, Claims

LEMMA CountedSync ==
    ASSUME Typed, Counted, NEW q \in Agents, Sync(q)
    PROVE  Counted' /\ \A i \in Ids : chosen'[i] >= chosen[i]
<1>t. sync[q] \in Process /\ InOrder(sync[q]) /\ chosen \in [Ids -> Nat]
  BY DEF Typed, TypeOK, SyncTypeOK
<1>f. /\ \A r \in Agents \ {q} : sync'[r] = sync[r]
      /\ ~PushResolve(q) =>
            /\ chosen' = chosen
            /\ Claims(q)' => Claims(q) /\ sync'[q].id = sync[q].id
  BY SyncFrame
<1>1. CASE ~PushResolve(q)
  <2>1. \A r \in Agents :
           Claims(r)' => Claims(r) /\ sync'[r].id = sync[r].id
    BY <1>1, <1>f DEF Claims
  <2> QED BY <1>1, <1>f, <1>t, <2>1 DEF Counted
<1>2. CASE PushResolve(q)
  <2>1. CASE source = NoDir
    <3>1. ~Claims(q)' /\ chosen' = chosen
      BY <1>2, <2>1, <1>t DEF PushResolve, Fail, End, Started, Claims, Typed,
                              TypeOK, SyncTypeOK
    <3>2. \A r \in Agents :
             Claims(r)' => Claims(r) /\ sync'[r].id = sync[r].id
      BY <3>1, <1>f DEF Claims
    <3> QED BY <1>t, <3>1, <3>2 DEF Counted
  <2>2. CASE source # NoDir
    <3> DEFINE id == IF sync[q].id # None THEN sync[q].id ELSE Allocated
    <3>1. id \in Ids
      <4>1. Allocated \in Ids \cup {None}
        BY NewestIsOne, Numbers DEF Allocated
      <4> QED BY <1>t, <1>2, <4>1 DEF PushResolve, At, InOrder
    <3>2. chosen' = [chosen EXCEPT ![id] = @ + 1] /\ sync'[q].id = id
      BY <1>2, <2>2, <1>t DEF PushResolve, Typed, TypeOK, SyncTypeOK, Process
    <3> HIDE DEF id
    <3>3. /\ \A i \in Ids : /\ chosen'[i] >= chosen[i]
                            /\ chosen[i] \in Nat /\ chosen'[i] \in Nat
          /\ chosen'[id] = chosen[id] + 1
      BY <1>t, <3>1, <3>2
    <3>4. \A r \in Agents \ {q} : Claims(r)' =>
             /\ sync'[r].id = sync[r].id /\ Claims(r)
             /\ sync'[r].id \in Ids /\ chosen[sync[r].id] >= 1
      BY <1>f DEF Claims, Counted
    <3>5. \A r \in Agents \ {q} : Claims(r)' /\ sync'[r].id = id =>
             chosen'[id] >= 2
      BY <3>1, <3>3, <3>4
    <3>6. ASSUME NEW r \in Agents \ {q}, Claims(r)'
          PROVE  /\ sync'[r].id \in Ids /\ chosen'[sync'[r].id] >= 1
                 /\ \A p \in Agents \ {r} :
                       Claims(p)' /\ sync'[p].id = sync'[r].id =>
                          chosen'[sync'[r].id] >= 2
      <4>1. sync'[r].id \in Ids /\ chosen'[sync'[r].id] >= 1
        BY <1>t, <3>3, <3>4, <3>6
      <4>2. ASSUME NEW p \in Agents \ {r}, Claims(p)',
                   sync'[p].id = sync'[r].id
            PROVE  chosen'[sync'[r].id] >= 2
        <5>1. CASE p = q
          BY <3>2, <3>5, <3>6, <4>2, <5>1
        <5>2. CASE p # q
          <6>1. /\ Claims(p) /\ Claims(r) /\ sync[p].id = sync[r].id
                /\ sync'[r].id = sync[r].id
            BY <3>4, <3>6, <4>2, <5>2
          <6>2. chosen[sync[r].id] >= 2
            BY <6>1, <4>2 DEF Counted
          <6> QED BY <3>3, <4>1, <6>1, <6>2
        <5> QED BY <5>1, <5>2
      <4> QED BY <4>1, <4>2
    <3>7. /\ sync'[q].id \in Ids /\ chosen'[sync'[q].id] >= 1
          /\ \A p \in Agents \ {q} :
                Claims(p)' /\ sync'[p].id = sync'[q].id =>
                   chosen'[sync'[q].id] >= 2
      BY <3>1, <3>2, <3>3, <3>5
    <3> QED BY <3>3, <3>6, <3>7 DEF Counted
  <2> QED BY <2>1, <2>2
<1> QED BY <1>1, <1>2

(* The copy of a push whose id nobody else chose is its own, whole when it *)
(* is ok.                                                                  *)
LEMMA PublishedSync ==
    ASSUME Typed, Publishing, NEW q \in Agents, RunSync(q)
    PROVE  Publishing'
<1>t. /\ sync \in [Agents -> Process] /\ sync[q] \in Process
      /\ InOrder(sync[q]) /\ store \in [Ids -> Dir]
      /\ chosen \in [Ids -> Nat] /\ sync' \in [Agents -> Process]
  <2>1. SyncTypeOK'
    BY SyncTyped DEF RunSync
  <2> QED BY <2>1 DEF Typed, TypeOK, SyncTypeOK
<1>u. /\ UNCHANGED <<importLock, pc, op, built, source>>
      /\ pc[q] = "sync" /\ Sync(q)
  BY SyncFrame DEF RunSync, theRequests
<1>f. /\ \A r \in Agents \ {q} : sync'[r] = sync[r]
      /\ \A r \in Agents : sync'[r].cmd = sync[r].cmd
      /\ \A i \in Ids : \/ store'[i] = store[i]
                        \/ Claims(q) /\ i = sync[q].id
                        \/ store[i].by = q
  BY <1>u, SyncFrame
<1>a. /\ Killed(q) => sync'[q].at = "failed"
      /\ PushResolve(q) => sync'[q].at \in {"store", "failed"}
      /\ PushReplace(q) => sync'[q].at \in {"copy", "failed"}
      /\ PushCopy(q) => sync'[q].at \in {"copying", "failed"}
      /\ PushCopied(q) => sync'[q].at \in {"ok", "failed"}
  <2>1. \A status \in {"ok", "failed"} : End(q, status) => sync'[q].at = status
    BY <1>t DEF End, Started
  <2>2. \A l \in SyncLabels : Step(q, l) => sync'[q].at = l
    BY <1>t DEF Step, Process
  <2>3. Killed(q) => sync'[q].at = "failed"
    BY <2>1 DEF Killed, Fail
  <2>4. PushResolve(q) => sync'[q].at \in {"store", "failed"}
    BY <1>t, <2>1 DEF PushResolve, Fail, Process
  <2>5. PushReplace(q) => sync'[q].at \in {"copy", "failed"}
    <3>1. PushReplace(q) => Step(q, "copy") \/ Fail(q)
      BY DEF PushReplace
    <3> QED BY <2>1, <2>2, <3>1 DEF Fail, SyncLabels
  <2>6. PushCopy(q) => sync'[q].at \in {"copying", "failed"}
    <3> DEFINE begun == BeginCopy(q, source, store[sync[q].id])
    <3>1. begun.at \in {"copying", "failed"}
      BY DEF BeginCopy
    <3>2. PushCopy(q) => sync'[q].at = begun.at
      BY <1>t DEF PushCopy, Process
    <3> QED BY <3>1, <3>2
  <2>7. PushCopied(q) => sync'[q].at \in {"ok", "failed"}
    <3>1. PushCopied(q) => End(q, "ok") \/ End(q, "failed")
      BY DEF PushCopied
    <3> QED BY <2>1, <3>1
  <2> QED BY <2>3, <2>4, <2>5, <2>6, <2>7
<1>1. LockHeld'
  BY <1>u DEF LockHeld, Publishing
<1>2. Routes'
  <2>1. \A r \in Agents : pc[r] = "ok" => sync'[r] = sync[r]
    BY <1>u, <1>f
  <2> QED BY <1>u, <1>f, <2>1 DEF Routes, Publishing
<1>3. Counted' /\ \A i \in Ids : chosen'[i] >= chosen[i]
  BY <1>u, CountedSync DEF Publishing
<1>4. ASSUME NEW r \in Agents \ {q}, op[r] = "publishIndex",
             pc[r] \in {"sync", "ok"}, sync[r].at \in {"copying", "ok"},
             chosen'[sync[r].id] = 1
      PROVE  /\ chosen[sync[r].id] = 1
             /\ store[sync[r].id].by \in {r, None} =>
                   store'[sync[r].id] = store[sync[r].id]
  <2>1. Claims(r)
    BY <1>4 DEF Claims, Publishing, Routes
  <2>2. sync[r].id \in Ids /\ chosen[sync[r].id] >= 1
    BY <2>1 DEF Publishing, Counted
  <2>3. chosen[sync[r].id] = 1
    BY <1>t, <1>3, <1>4, <2>2
  <2>4. ~(Claims(q) /\ sync[q].id = sync[r].id)
    BY <2>1, <2>3 DEF Publishing, Counted
  <2>5. q # None
    BY SyncAssumption
  <2> QED BY <1>f, <2>2, <2>3, <2>4, <2>5
<1>5. ASSUME op[q] = "publishIndex", sync'[q].at = "copying",
             chosen'[sync'[q].id] = 1
      PROVE  /\ sync'[q].from = Whole(built[q])
             /\ store'[sync'[q].id] =
                   [build |-> built[q], whole |-> FALSE, by |-> q]
  <2>1. sync[q].cmd = "push" /\ source = Whole(built[q])
    BY <1>5, <1>u DEF Publishing, Routes, Published
  <2>2. PushCopy(q)
    <3>1. sync[q].at \in {"push", "store", "copy", "copying"}
      BY <1>u, <2>1, <1>t DEF Sync, PushResolve, PushReplace, PushCopy,
         PushCopied, PullResolve, PullFetch, PullCopy, PullCopied, PullPrune,
         PullRemove, PullDone, SwitchResolve, UnlinkTmp, SymlinkTmp,
         ReplaceActive, Killed, At, InOrder, SyncLabels, Process
    <3>2. /\ ~Killed(q) /\ ~PushCopied(q)
          /\ ~PushResolve(q) /\ ~PushReplace(q)
      BY <1>5, <1>a
    <3> QED BY <1>u, <2>1, <3>1, <3>2 DEF Sync, PullResolve, PullFetch,
       PullCopy, PullCopied, PullPrune, PullRemove, PullDone, SwitchResolve,
       UnlinkTmp, SymlinkTmp, ReplaceActive, At
  <2> DEFINE begun == BeginCopy(q, source, store[sync[q].id])
  <2>3. /\ begun.at = "copying" /\ sync'[q].from = source
        /\ sync'[q].id = sync[q].id
        /\ store' = [store EXCEPT ![sync[q].id] = begun.dir]
    BY <1>5, <1>t, <2>2 DEF PushCopy
  <2>4. begun.dir = [source EXCEPT !.whole = FALSE, !.by = q]
    BY <2>3 DEF BeginCopy
  <2>5. sync[q].id \in Ids
    BY <1>t, <2>1, <2>2, Numbers DEF PushCopy, At, InOrder
  <2>6. begun.dir = [build |-> built[q], whole |-> FALSE, by |-> q]
    BY <2>1, <2>4 DEF Whole
  <2> HIDE DEF begun
  <2> QED BY <1>t, <2>1, <2>3, <2>5, <2>6
<1>6. ASSUME op[q] = "publishIndex", sync'[q].at = "ok",
             chosen'[sync'[q].id] = 1
      PROVE  store'[sync'[q].id] = Whole(built[q])
  <2>1. sync[q].cmd = "push" /\ source = Whole(built[q])
    BY <1>6, <1>u DEF Publishing, Routes, Published
  <2>2. PushCopied(q)
    <3>1. /\ ~Killed(q) /\ ~PushResolve(q)
          /\ ~PushReplace(q) /\ ~PushCopy(q)
      BY <1>6, <1>a
    <3> QED BY <1>u, <1>t, <2>1, <3>1 DEF Sync, PullResolve,
       PullFetch, PullCopy, PullCopied, PullPrune, PullRemove, PullDone,
       SwitchResolve, UnlinkTmp, SymlinkTmp, ReplaceActive, At, InOrder
  <2>3. PICK result \in EndCopy(q, source, store[sync[q].id]) :
           /\ store' = [store EXCEPT ![sync[q].id] = result.dir]
           /\ End(q, IF result.ok THEN "ok" ELSE "failed")
    BY <2>2 DEF PushCopied
  <2>4. sync'[q].id = sync[q].id /\ result.ok
    BY <1>6, <1>t, <2>3 DEF End, Started
  <2>5. sync[q].id \in Ids /\ sync[q].at = "copying"
    BY <1>t, <2>1, <2>2, Numbers DEF PushCopied, At, InOrder
  <2>6. chosen[sync[q].id] = 1
    <3>1. Claims(q)
      BY <2>1, <2>5 DEF Claims
    <3>2. chosen[sync[q].id] >= 1
      BY <3>1 DEF Publishing, Counted
    <3> QED BY <1>t, <1>3, <1>6, <2>4, <2>5, <3>2
  <2>7. /\ sync[q].from = source
        /\ store[sync[q].id] =
              [build |-> built[q], whole |-> FALSE, by |-> q]
    BY <1>6, <1>u, <2>1, <2>5, <2>6 DEF Publishing, Published
  <2>8. result.dir = [store[sync[q].id] EXCEPT !.whole = source.whole,
                                               !.by = None]
    BY <2>3, <2>4, <2>7 DEF EndCopy
  <2>9. result.dir = Whole(built[q])
    <3>1. source.whole = TRUE
      BY <2>1 DEF Whole
    <3>2. store[sync[q].id] \in Dir /\ store[sync[q].id].build = built[q]
      BY <1>t, <2>5, <2>7
    <3> QED BY <2>8, <3>1, <3>2, WholeDirectory
  <2> QED BY <1>t, <2>3, <2>4, <2>5, <2>9
<1>7. Published'
  <2> SUFFICES ASSUME NEW r \in Agents, op[r] = "publishIndex"
               PROVE  /\ pc[r] = "importing" =>
                            source = [build |-> built[r], whole |-> FALSE,
                                      by |-> None]
                      /\ pc[r] = "sync" => source = Whole(built[r])
                      /\ (pc[r] = "sync" /\ sync'[r].at = "copying"
                          /\ chosen'[sync'[r].id] = 1) =>
                            /\ sync'[r].from = Whole(built[r])
                            /\ store'[sync'[r].id] =
                                  [build |-> built[r], whole |-> FALSE,
                                   by |-> r]
                      /\ (pc[r] \in {"sync", "ok"} /\ sync'[r].at = "ok"
                          /\ chosen'[sync'[r].id] = 1) =>
                            store'[sync'[r].id] = Whole(built[r])
    BY <1>u DEF Published
  <2>1. /\ pc[r] = "importing" =>
              source = [build |-> built[r], whole |-> FALSE, by |-> None]
        /\ pc[r] = "sync" => source = Whole(built[r])
    BY DEF Publishing, Published
  <2>2. CASE r = q
    BY <1>5, <1>6, <1>u, <2>1, <2>2
  <2>3. CASE r # q
    <3>1. ASSUME pc[r] = "sync", sync'[r].at = "copying",
                 chosen'[sync'[r].id] = 1
          PROVE  /\ sync'[r].from = Whole(built[r])
                 /\ store'[sync'[r].id] =
                       [build |-> built[r], whole |-> FALSE, by |-> r]
      <4>1. sync'[r] = sync[r]
        BY <1>f, <2>3
      <4>2. chosen[sync[r].id] = 1
        BY <1>4, <2>3, <3>1, <4>1
      <4>3. /\ sync[r].from = Whole(built[r])
            /\ store[sync[r].id] =
                  [build |-> built[r], whole |-> FALSE, by |-> r]
        BY <3>1, <4>1, <4>2 DEF Publishing, Published
      <4> QED BY <1>4, <2>3, <3>1, <4>1, <4>3
    <3>2. ASSUME pc[r] \in {"sync", "ok"}, sync'[r].at = "ok",
                 chosen'[sync'[r].id] = 1
          PROVE  store'[sync'[r].id] = Whole(built[r])
      <4>1. sync'[r] = sync[r]
        BY <1>f, <2>3
      <4>2. chosen[sync[r].id] = 1
        BY <1>4, <2>3, <3>2, <4>1
      <4>3. store[sync[r].id] = Whole(built[r])
        BY <3>2, <4>1, <4>2 DEF Publishing, Published
      <4> QED BY <1>4, <2>3, <3>2, <4>1, <4>3 DEF Whole
    <3> QED BY <2>1, <3>1, <3>2
  <2> QED BY <2>2, <2>3
<1> QED BY <1>1, <1>2, <1>3, <1>7 DEF Publishing

LEMMA PublishingInit == Init => Publishing
BY DEF Init, SyncInit, NoProcess, Started, Publishing, LockHeld, Routes,
       Counted, Published, Claims

(* Of two requests only one holds the lock.                                *)
LEMMA PublishingBuild ==
    ASSUME Typed, Publishing, NEW q \in Agents,
           Lock(q) \/ Clear(q) \/ Import(q) \/ Imported(q) \/ ImportFails(q)
    PROVE  Publishing'
<1>t. /\ sync \in [Agents -> Process] /\ pc \in [Agents -> AgentLabels]
      /\ built \in [Agents -> 0 .. MaxBuild] /\ op \in [Agents -> AgentOps]
      /\ source \in Dir /\ q # None
  BY SyncAssumption DEF Typed, TypeOK, SyncTypeOK
<1>u. /\ UNCHANGED <<store, chosen, op>>
      /\ \E l \in AgentLabels : pc' = [pc EXCEPT ![q] = l]
      /\ pc[q] \in {"lock", "clear", "import", "importing"}
  BY DEF Lock, Clear, Import, Imported, ImportFails, Goto, AgentLabels,
         syncVars, files, theRequests
<1>f. /\ \A r \in Agents \ {q} : /\ pc'[r] = pc[r] /\ sync'[r] = sync[r]
                                /\ built'[r] = built[r]
      /\ UNCHANGED sync \/ sync'[q].at = "push"
  <2>1. CASE Imported(q)
    <3>1. \/ UNCHANGED sync
          \/ \E id \in AskedIds \cup {None} :
                sync' = [sync EXCEPT ![q] = Started("push", id, FALSE, FALSE)]
      BY <2>1 DEF Imported
    <3>2. built' = built
      BY <2>1 DEF Imported, theRequests
    <3> QED BY <1>t, <1>u, <3>1, <3>2 DEF Started
  <2>2. CASE Import(q)
    BY <1>t, <1>u, <2>2 DEF Import
  <2>3. CASE Lock(q) \/ Clear(q) \/ ImportFails(q)
    BY <1>t, <1>u, <2>3 DEF Lock, Clear, ImportFails, syncVars, theRequests
  <2> QED BY <2>1, <2>2, <2>3
<1>1. LockHeld'
  <2>1. ASSUME NEW r \in Agents \ {q},
               \/ pc[r] \in {"clear", "import", "importing"}
               \/ pc[r] = "sync" /\ op[r] = "publishIndex"
        PROVE  importLock' = r
    <3>1. importLock = r /\ r # None
      BY <2>1, SyncAssumption DEF Publishing, LockHeld
    <3>2. ~Lock(q)
      BY <3>1 DEF Lock
    <3>3. pc[q] # "lock" => importLock = q
      BY <1>u DEF Publishing, LockHeld
    <3> QED BY <3>1, <3>2, <3>3 DEF Clear, Import, Imported, ImportFails
  <2>2. (\/ pc'[q] \in {"clear", "import", "importing"}
         \/ pc'[q] = "sync" /\ op[q] = "publishIndex") => importLock' = q
    <3>1. CASE Lock(q)
      BY <3>1 DEF Lock
    <3>2. CASE ImportFails(q)
      BY <3>2, <1>t DEF ImportFails, Goto
    <3>3. CASE Clear(q) \/ Import(q)
      BY <3>3 DEF Clear, Import, Publishing, LockHeld
    <3>4. CASE Imported(q)
      <4>1. importLock = q
        BY <3>4 DEF Imported, Publishing, LockHeld
      <4> QED BY <3>4, <4>1, <1>t DEF Imported, Goto
    <3> QED BY <3>1, <3>2, <3>3, <3>4
  <2> QED BY <1>f, <1>u, <2>1, <2>2 DEF LockHeld
<1>2. /\ \/ pc'[q] \in {"clear", "import", "importing", "failed", "sync"}
         \/ pc'[q] = "ok" /\ op[q] = "buildIndex"
      /\ pc'[q] = "sync" => /\ sync'[q].cmd = "push"
                            /\ sync'[q].at = "push"
                            /\ op[q] # "buildIndex"
  <2>1. CASE Imported(q)
    <3>1. CASE op[q] = "buildIndex"
      BY <2>1, <3>1, <1>t DEF Imported, Goto
    <3>2. CASE op[q] # "buildIndex"
      BY <2>1, <3>2, <1>t DEF Imported, Goto, Started
    <3> QED BY <3>1, <3>2
  <2>2. CASE Lock(q) \/ Clear(q) \/ Import(q) \/ ImportFails(q)
    BY <2>2, <1>t DEF Lock, Clear, Import, ImportFails, Goto
  <2> QED BY <2>1, <2>2
<1>3. Routes'
  <2>1. op[q] \in {"buildIndex", "publishIndex"}
    BY <1>u DEF Publishing, Routes
  <2> QED BY <1>2, <1>f, <1>u, <2>1 DEF Routes, Publishing
<1>4. Counted'
  <2>1. \A r \in Agents : Claims(r)' => Claims(r) /\ sync'[r].id = sync[r].id
    BY <1>f DEF Claims
  <2> QED BY <1>u, <2>1 DEF Counted, Publishing
<1>5. ASSUME NEW r \in Agents \ {q},
             \/ pc[r] = "importing"
             \/ pc[r] = "sync" /\ op[r] = "publishIndex"
      PROVE  source' = source
  <2>1. importLock = r /\ r # None
    BY <1>5, SyncAssumption DEF Publishing, LockHeld
  <2>2. ~Clear(q) /\ ~Import(q) /\ ~Imported(q)
    BY <2>1 DEF Clear, Import, Imported, Publishing, LockHeld
  <2> QED BY <2>2 DEF Lock, ImportFails, syncVars, files
<1>6. op[q] = "publishIndex" =>
         /\ pc'[q] = "importing" =>
               source' = [build |-> built'[q], whole |-> FALSE, by |-> None]
         /\ pc'[q] = "sync" => source' = Whole(built'[q])
  <2>1. CASE Import(q)
    BY <2>1, <1>t DEF Import, Goto
  <2>2. CASE Imported(q)
    <3>1. op[q] = "publishIndex" =>
             source = [build |-> built[q], whole |-> FALSE, by |-> None]
      BY <2>2 DEF Imported, Publishing, Published
    <3>2. source' = [source EXCEPT !.whole = TRUE] /\ built' = built
          /\ pc'[q] # "importing"
      BY <2>2, <1>t DEF Imported, theRequests, Goto
    <3>3. op[q] = "publishIndex" => source.build = built[q] /\ source.by = None
      BY <3>1
    <3> QED BY <1>t, <3>2, <3>3, WholeDirectory
  <2>3. CASE Lock(q) \/ Clear(q) \/ ImportFails(q)
    BY <2>3, <1>t DEF Lock, Clear, ImportFails, Goto
  <2> QED BY <2>1, <2>2, <2>3
<1>7. Published'
  <2>1. ASSUME NEW r \in Agents \ {q}, op[r] = "publishIndex"
        PROVE  /\ pc[r] = "importing" =>
                     source' = [build |-> built[r], whole |-> FALSE,
                                by |-> None]
               /\ pc[r] = "sync" => source' = Whole(built[r])
    BY <1>5, <2>1 DEF Publishing, Published
  <2>2. op[q] = "publishIndex" => pc'[q] # "ok" /\ (pc'[q] = "sync" =>
                                                     sync'[q].at = "push")
    BY <1>2
  <2> QED BY <1>6, <1>f, <1>u, <2>1, <2>2 DEF Published, Publishing
<1> QED BY <1>1, <1>3, <1>4, <1>7 DEF Publishing

LEMMA PublishingRequest ==
    ASSUME Typed, Publishing, NEW q \in Agents, NEW route \in Ops,
           Request(q, route)
    PROVE  Publishing'
<1>t. /\ sync \in [Agents -> Process] /\ pc \in [Agents -> AgentLabels]
      /\ op \in [Agents -> AgentOps] /\ built \in [Agents -> 0 .. MaxBuild]
      /\ route \in AgentOps
  BY AgentAssumption DEF Typed, TypeOK, SyncTypeOK
<1>1. /\ UNCHANGED <<source, store, chosen, importLock>>
      /\ \A r \in Agents \ {q} : /\ pc'[r] = pc[r] /\ op'[r] = op[r]
                                /\ built'[r] = built[r] /\ sync'[r] = sync[r]
  BY <1>t DEF Request, Goto, files
<1>2. /\ op'[q] = route
      /\ \/ pc'[q] = "lock" /\ route \in {"buildIndex", "publishIndex"}
         \/ pc'[q] = "sync" /\ route \notin {"buildIndex", "publishIndex"}
  BY <1>t DEF Request, Goto
<1>3. ~Claims(q)'
  <2>1. sync'[q].at \in {"none", "push", "pull", "switch"}
    <3>1. CASE route \in {"buildIndex", "publishIndex"}
      BY <1>t, <3>1 DEF Request, NoProcess, Started
    <3>2. CASE route \notin {"buildIndex", "publishIndex"}
      <4>1. PICK id \in AskedIds \cup {None} :
              \E process \in FirstProcesses(route, id) :
                 sync' = [sync EXCEPT ![q] = process]
        BY <3>2 DEF Request
      <4>2. \A process \in FirstProcesses(route, id) :
               process.at \in {"push", "pull", "switch"}
        <5>1. CASE route = "pushIndex"
          BY <5>1 DEF FirstProcesses, Started
        <5>2. CASE route = "pullIndex" \/ route = "deployIndex"
          BY <5>2 DEF FirstProcesses, Started
        <5>3. CASE route = "switchReloadIndex"
          BY <5>3 DEF FirstProcesses, Started
        <5> QED BY <3>2, <5>1, <5>2, <5>3, <1>t DEF AgentOps
      <4> QED BY <1>t, <4>1, <4>2
    <3> QED BY <3>1, <3>2
  <2> QED BY <2>1 DEF Claims
<1>4. LockHeld' /\ Routes' /\ Published'
  BY <1>1, <1>2 DEF Publishing, LockHeld, Routes, Published
<1>5. Counted'
  <2>1. \A r \in Agents : Claims(r)' => Claims(r) /\ sync'[r].id = sync[r].id
    BY <1>1, <1>3 DEF Claims
  <2> QED BY <1>1, <2>1 DEF Counted, Publishing
<1> QED BY <1>4, <1>5 DEF Publishing

LEMMA PublishingStep == Typed /\ Publishing /\ [Next]_vars => Publishing'
<1> SUFFICES ASSUME Typed, Publishing, [Next]_vars PROVE Publishing'
  OBVIOUS
<1>t. pc \in [Agents -> AgentLabels]
  BY DEF Typed, TypeOK
<1>1. ASSUME UNCHANGED <<sync, source, store, chosen, importLock, op, built>>,
             \A r \in Agents : pc'[r] \in {pc[r], "failed"}
      PROVE  Publishing'
  BY <1>1 DEF Publishing, LockHeld, Routes, Counted, Published, Claims
<1>2. ASSUME NEW q \in Agents, SyncEnds(q)
      PROVE  Publishing'
  <2>1. /\ UNCHANGED <<sync, source, store, chosen, op, built>>
        /\ \A r \in Agents \ {q} : pc'[r] = pc[r]
        /\ importLock' = IF importLock = q THEN None ELSE importLock
        /\ pc[q] = "sync"
    BY <1>2, <1>t DEF SyncEnds, Goto, syncVars, files, theRequests
  <2>2. /\ pc'[q] \in {"unlink", "ok", "failed"}
        /\ pc'[q] = "unlink" => op[q] \in {"deployIndex", "switchReloadIndex"}
        /\ pc'[q] = "ok" => sync[q].at = "ok"
    BY <1>2, <1>t DEF SyncEnds, Goto
  <2>3. LockHeld' /\ Routes' /\ Published'
    BY <2>1, <2>2 DEF Publishing, LockHeld, Routes, Published
  <2>4. Counted'
    BY <2>1 DEF Publishing, Counted, Claims
  <2> QED BY <2>3, <2>4 DEF Publishing
<1>3. ASSUME NEW q \in Agents,
             \/ UnlinkTable(q) \/ SymlinkTable(q) \/ SendReload(q)
             \/ Reload(q) \/ ReloadTimesOut(q)
      PROVE  Publishing'
  <2>1. /\ UNCHANGED <<sync, source, store, chosen, importLock, op, built>>
        /\ \A r \in Agents \ {q} : pc'[r] = pc[r]
        /\ pc[q] \in {"unlink", "symlink", "reload", "wait"}
        /\ pc'[q] \in {"symlink", "reload", "wait", "ok", "blind", "failed"}
    <3>1. CASE UnlinkTable(q) \/ SymlinkTable(q) \/ SendReload(q)
      BY <3>1, <1>t DEF UnlinkTable, SymlinkTable, SendReload, Goto, syncVars,
                        files, theRequests
    <3>2. CASE Reload(q) \/ ReloadTimesOut(q)
      BY <3>2, <1>t DEF Reload, ReloadTimesOut, Goto, syncVars, files,
                        theRequests
    <3> QED BY <1>3, <3>1, <3>2
  <2>2. op[q] \in {"deployIndex", "switchReloadIndex"}
    BY <2>1 DEF Publishing, Routes
  <2>3. LockHeld' /\ Routes' /\ Published'
    BY <2>1, <2>2 DEF Publishing, LockHeld, Routes, Published
  <2>4. Counted'
    BY <2>1 DEF Publishing, Counted, Claims
  <2> QED BY <2>3, <2>4 DEF Publishing
<1>4. CASE LateReload \/ ScanOpens \/ ScanEnds
  BY <1>1, <1>4 DEF LateReload, ScanOpens, ScanEnds, syncVars, files, theRequests
<1>5. CASE RestartServer
  BY <1>1, <1>5, <1>t DEF RestartServer, syncVars, files
<1>6. CASE NextSecond
  BY <1>1, <1>6 DEF NextSecond, Tick, files, theRequests
<1>7. CASE UNCHANGED vars
  BY <1>1, <1>7 DEF vars, syncVars, files, theRequests
<1> QED BY <1>2, <1>3, <1>4, <1>5, <1>6, <1>7, PublishedSync, PublishingBuild,
           PublishingRequest DEF Next, Agent

(* A publish that was answered ok has stored the index it built: the lock  *)
(* is held until the copy is made, so that no build takes the source away, *)
(* and a push that can touch the copy has chosen the same id.              *)
THEOREM PublishIsItsBuild == Spec => []PublishOkIsItsBuild
<1>1. Publishing => PublishOkIsItsBuild
  BY DEF Publishing, Routes, Published, PublishOkIsItsBuild
<1> QED BY <1>1, TypedInit, TypedStep, PublishingInit, PublishingStep, PTL
        DEF Spec
-----------------------------------------------------------------------------
(* A deploy that ran by itself is served.                                  *)

Deploys == {"deployIndex", "switchReloadIndex"}

(* The links, step by step: active.tmp is of this request's making, then   *)
(* "active" is, the table directory is linked, and what is reloaded is     *)
(* what they lead to.                                                      *)
Deployed(r) == [id |-> sync[r].id, dir |-> release[sync[r].id]]

Linked(r) ==
    /\ pc[r] = "sync" =>
          /\ sync[r].cmd # "push" /\ sync[r].at # "none"
          /\ sync[r].at \notin {"ok", "failed"} => sync[r].link
          /\ sync[r].at = "replace" => tmp = sync[r].id
          /\ sync[r].at = "ok" => active = sync[r].id /\ tmp = None
    /\ pc[r] \in {"unlink", "symlink", "reload", "wait", "ok"} =>
          active = sync[r].id /\ tmp = None
    /\ pc[r] \in {"reload", "wait", "ok"} => link
    /\ pc[r] = "ok" =>
          /\ sync[r].id \in In(release)
          /\ release[sync[r].id].whole =>
                {served, registered} \subseteq {Deployed(r), Nothing}

(* The server's start: while the table is served nothing else is open, and *)
(* the scan is over when it has served the table.                          *)
Starting ==
    /\ scan = "done" => served # Nothing
    /\ served # Nothing => registered = Nothing /\ scan # "open"
    /\ scan = "open" => registered # Nothing

Deploying ==
    \A r \in Agents : alone[r] =>
        /\ \A q \in Agents \ {r} : pc[q] \in Answered
        /\ op[r] \in Deploys => Linked(r)

LEMMA StartingInit == Init => Starting
<1> SUFFICES ASSUME Init PROVE Starting
  OBVIOUS
<1>1. Max(Seeds) \in Ids
  <2>1. Seeds \subseteq Names
    BY SyncAssumption, Numbers
  <2>2. Max(Seeds) \in Seeds
    BY <2>1, MaxIsGreatest, SyncAssumption
  <2> QED BY <2>2, SyncAssumption
<1>2. served.id # None
  BY <1>1, Numbers DEF Init, SyncInit, None
<1> QED BY <1>2 DEF Init, Starting, Nothing

LEMMA StartingStep == Starting /\ [Next]_vars => Starting'
<1> SUFFICES ASSUME Starting, [Next]_vars PROVE Starting'
  OBVIOUS
<1>1. CASE UNCHANGED <<scan, registered, served>>
  BY <1>1 DEF Starting
<1>2. CASE (\E answer : ReloadTable(answer)) /\ UNCHANGED scan
  <2> PICK answer : ReloadTable(answer)
    BY <1>2
  <2>1. CASE Reopen(answer)
    BY <1>2, <2>1 DEF Starting, Reopen, ReloadTable
  <2>2. CASE HotOpen(answer)
    BY <1>2, <2>2 DEF Starting, HotOpen, OpenedByName, ReloadTable
  <2> QED BY <2>1, <2>2 DEF ReloadTable
<1>3. CASE ScanServes
  BY <1>3 DEF Starting, ScanServes
<1>4. CASE RestartServer
  BY <1>4 DEF Starting, RestartServer
<1>5. CASE ScanOpens
  BY <1>5 DEF Starting, ScanOpens, OpenedByName
<1>6. CASE ScanEnds
  BY <1>3, <1>6 DEF Starting, ScanEnds
<1>7. CASE LateReload \/ \E r \in Agents : Reload(r)
  <2>1. \/ UNCHANGED <<scan, registered, served>>
        \/ (\E answer : ReloadTable(answer)) /\ UNCHANGED scan
        \/ ScanServes
    BY <1>7 DEF LateReload, Reload
  <2> QED BY <1>1, <1>2, <1>3, <2>1
<1>8. CASE \E r \in Agents : Agent(r) /\ ~Reload(r)
  <2>1. UNCHANGED <<scan, registered, served>>
    BY <1>8 DEF Agent, Lock, Clear, Import, Imported, ImportFails, RunSync,
                SyncEnds, UnlinkTable, SymlinkTable, SendReload,
                ReloadTimesOut, theServer, theProcess
  <2> QED BY <1>1, <2>1
<1>9. CASE \/ \E r \in Agents, route \in Ops : Request(r, route)
           \/ NextSecond \/ UNCHANGED vars
  <2>1. UNCHANGED <<scan, registered, served>>
    BY <1>9 DEF Request, NextSecond, vars, theServer, theProcess
  <2> QED BY <1>1, <2>1
<1> QED BY <1>4, <1>5, <1>6, <1>7, <1>8, <1>9 DEF Next

LEMMA DeployingInit == Init => Deploying
BY DEF Init, Deploying

(* What "active" leads to when nothing is under way.                       *)
LEMMA LinksLead ==
    ASSUME Typed, link, tmp = None, Resolved # Nothing
    PROVE  /\ active \in In(release) /\ active \in Ids
           /\ Resolved = [id |-> active, dir |-> release[active]]
BY Numbers DEF Resolved, Nothing, In

(* artifact_sync, run for a deploy that runs by itself.                    *)
LEMMA LinkedSync ==
    ASSUME Typed, NEW r \in Agents, Sync(r), pc[r] = "sync", pc' = pc, Linked(r)
    PROVE  Linked(r)'
<1>t. /\ sync \in [Agents -> Process] /\ sync[r] \in Process
      /\ InOrder(sync[r])
  BY DEF Typed, TypeOK, SyncTypeOK
<1>l. /\ sync[r].cmd # "push"
      /\ sync[r].at \notin {"ok", "failed"} => sync[r].link
      /\ sync[r].at = "replace" => tmp = sync[r].id
  BY DEF Linked
<1>c. sync'[r].cmd = sync[r].cmd
  BY SyncFrame
<1>e. \A status \in {"ok", "failed"} : End(r, status) =>
         sync'[r].at = status /\ sync'[r].id = sync[r].id
  BY <1>t DEF End, Started
<1>f. Fail(r) => sync'[r].at = "failed"
  BY <1>e DEF Fail
<1>s. \A l \in SyncLabels : Step(r, l) =>
         /\ sync'[r].at = l /\ sync'[r].link = sync[r].link
         /\ sync'[r].id = sync[r].id
  BY <1>t DEF Step, Process
<1>1. SUFFICES /\ sync'[r].at # "none"
               /\ sync'[r].at \notin {"ok", "failed"} => sync'[r].link
               /\ sync'[r].at = "replace" => tmp' = sync'[r].id
               /\ sync'[r].at = "ok" => active' = sync'[r].id /\ tmp' = None
  BY <1>l, <1>c DEF Linked
<1>2. ~(PushResolve(r) \/ PushReplace(r) \/ PushCopy(r) \/ PushCopied(r))
  BY <1>l, <1>t DEF PushResolve, PushReplace, PushCopy, PushCopied, At, InOrder
<1>3. CASE PullResolve(r) \/ PullPrune(r) \/ SwitchResolve(r)
  <2>1. sync[r].link
    BY <1>3, <1>l DEF PullResolve, PullPrune, SwitchResolve, At
  <2> QED BY <1>3, <1>t, <1>f, <2>1 DEF PullResolve, PullPrune, SwitchResolve,
                                        Process
<1>4. CASE PullCopy(r)
  <2>1. sync[r].link
    BY <1>4, <1>l DEF PullCopy, At
  <2> DEFINE begun == BeginCopy(r, store[sync[r].id], release[sync[r].id])
  <2>2. begun.at \in {"copying", "failed"}
    BY DEF BeginCopy
  <2>3. sync'[r].at = begun.at /\ sync'[r].link = sync[r].link
    BY <1>4, <1>t DEF PullCopy, Process
  <2> QED BY <2>1, <2>2, <2>3
<1>5. CASE PullCopied(r) \/ PullRemove(r)
  <2>1. sync[r].link /\ sync[r].at \in {"copying", "rmtree"}
    BY <1>5, <1>l DEF PullCopied, PullRemove, At
  <2>2. \/ Fail(r)
        \/ sync' = [sync EXCEPT ![r].at = "prune", ![r].from = NoDir]
        \/ \E v : sync' = [sync EXCEPT ![r].victims = @ \ {v}]
    BY <1>5 DEF PullCopied, PullRemove
  <2> QED BY <1>t, <1>f, <2>1, <2>2 DEF Process
<1>6. CASE PullFetch(r) \/ PullDone(r) \/ UnlinkTmp(r)
  <2>1. sync[r].link
    BY <1>6, <1>l DEF PullFetch, PullDone, UnlinkTmp, At
  <2>2. \/ Fail(r)
        \/ \E l \in {"copy", "prune", "tmp", "symlink"} : Step(r, l)
    BY <1>6, <2>1 DEF PullFetch, PullDone, UnlinkTmp
  <2> QED BY <1>f, <1>s, <2>1, <2>2 DEF SyncLabels
<1>7. CASE SymlinkTmp(r)
  <2>1. sync[r].link
    BY <1>7, <1>l DEF SymlinkTmp, At
  <2>2. Fail(r) \/ (Step(r, "replace") /\ tmp' = sync[r].id)
    BY <1>7 DEF SymlinkTmp
  <2> QED BY <1>f, <1>s, <2>1, <2>2 DEF SyncLabels
<1>8. CASE ReplaceActive(r)
  <2>1. Fail(r) \/ (End(r, "ok") /\ active' = tmp /\ tmp' = None)
    BY <1>8 DEF ReplaceActive
  <2>2. tmp = sync[r].id
    BY <1>8, <1>l DEF ReplaceActive, At
  <2> QED BY <1>e, <1>f, <2>1, <2>2
<1>9. CASE Killed(r)
  BY <1>9, <1>f DEF Killed
<1> QED BY <1>2, <1>3, <1>4, <1>5, <1>6, <1>7, <1>8, <1>9 DEF Sync

(* The rest of a deploy.                                                   *)
LEMMA LinkedAgent ==
    ASSUME Typed, Starting, NEW r \in Agents, Linked(r), op[r] \in Deploys,
           \/ SyncEnds(r) \/ UnlinkTable(r) \/ SymlinkTable(r)
           \/ SendReload(r) \/ Reload(r) \/ ReloadTimesOut(r)
    PROVE  Linked(r)'
<1>t. pc \in [Agents -> AgentLabels]
  BY DEF Typed, TypeOK
<1>u. UNCHANGED <<sync, release, active, tmp>>
  BY DEF SyncEnds, UnlinkTable, SymlinkTable, SendReload, Reload,
         ReloadTimesOut, syncVars, files
<1>1. CASE SyncEnds(r)
  <2>1. pc[r] = "sync" /\ pc'[r] \in {"unlink", "failed"}
        /\ (pc'[r] = "unlink" => sync[r].at = "ok")
    BY <1>1, <1>t DEF SyncEnds, Goto, Deploys
  <2> QED BY <1>u, <2>1 DEF Linked
<1>2. CASE UnlinkTable(r)
  <2>1. pc[r] = "unlink" /\ pc'[r] = "symlink"
    BY <1>2, <1>t DEF UnlinkTable, Goto
  <2> QED BY <1>u, <2>1 DEF Linked
<1>3. CASE SymlinkTable(r)
  <2>1. pc[r] = "symlink" /\ pc'[r] \in {"reload", "failed"} /\ link'
    BY <1>3, <1>t DEF SymlinkTable, Goto
  <2> QED BY <1>u, <2>1 DEF Linked
<1>4. CASE SendReload(r)
  <2>1. pc[r] = "reload" /\ pc'[r] = "wait" /\ link' = link
    BY <1>4, <1>t DEF SendReload, Goto, theServer
  <2> QED BY <1>u, <2>1 DEF Linked
<1>5. CASE Reload(r)
  <2>1. link' = link /\ pc[r] = "wait"
    BY <1>5 DEF Reload
  <2>2. CASE pc'[r] = "ok"
    <3>1. ReloadTable("ok")
      BY <1>5, <1>t, <2>2 DEF Reload, Goto
    <3>2. Resolved # Nothing /\ served' = Resolved /\ registered' = Nothing
      <4>1. CASE Reopen("ok")
        BY <4>1 DEF Reopen, Starting
      <4>2. CASE HotOpen("ok")
        BY <4>2 DEF HotOpen, OpenedByName
      <4> QED BY <3>1, <4>1, <4>2 DEF ReloadTable
    <3>3. link /\ tmp = None /\ active = sync[r].id
      BY <2>1 DEF Linked
    <3>4. sync[r].id \in In(release) /\ served' = Deployed(r)
      BY <3>2, <3>3, LinksLead DEF Deployed
    <3> QED BY <1>u, <2>1, <2>2, <3>2, <3>3, <3>4 DEF Linked, Deployed, In
  <2>3. CASE pc'[r] \in {"blind", "failed"}
    BY <2>3 DEF Linked
  <2>4. pc'[r] \in {"ok", "blind", "failed"}
    BY <1>5, <1>t DEF Reload, Goto
  <2> QED BY <2>2, <2>3, <2>4
<1>6. CASE ReloadTimesOut(r)
  <2>1. pc'[r] = "failed"
    BY <1>6, <1>t DEF ReloadTimesOut, Goto
  <2> QED BY <2>1 DEF Linked
<1> QED BY <1>1, <1>2, <1>3, <1>4, <1>5, <1>6

LEMMA DeployingRequest ==
    ASSUME Typed, Deploying, NEW q \in Agents, NEW route \in Ops,
           Request(q, route)
    PROVE  Deploying'
<1>t. /\ sync \in [Agents -> Process] /\ pc \in [Agents -> AgentLabels]
      /\ op \in [Agents -> AgentOps]
  BY DEF Typed, TypeOK, SyncTypeOK
<1>1. \A r \in Agents : alone'[r] =>
         r = q /\ \A p \in Agents \ {q} : pc[p] \in Answered
  BY DEF Request
<1>2. op'[q] = route /\ \A p \in Agents \ {q} : pc'[p] = pc[p]
  BY <1>t DEF Request, Goto
<1>3. ASSUME route \in Deploys
      PROVE  Linked(q)'
  <2>1. pc'[q] = "sync"
    BY <1>3, <1>t DEF Request, Goto, Deploys
  <2>2. PICK id \in AskedIds \cup {None} :
          \E process \in FirstProcesses(route, id) :
             sync' = [sync EXCEPT ![q] = process]
    BY <1>3 DEF Request, Deploys
  <2>3. \A process \in FirstProcesses(route, id) :
           /\ process.cmd # "push" /\ process.at \in {"pull", "switch"}
           /\ process.link
    <3>1. CASE route = "deployIndex"
      BY <3>1 DEF FirstProcesses, Started
    <3>2. CASE route = "switchReloadIndex"
      BY <3>2 DEF FirstProcesses, Started
    <3> QED BY <1>3, <3>1, <3>2 DEF Deploys
  <2>4. sync'[q].cmd # "push" /\ sync'[q].at \in {"pull", "switch"}
        /\ sync'[q].link
    BY <1>t, <2>2, <2>3
  <2> QED BY <2>1, <2>4 DEF Linked
<1> QED BY <1>1, <1>2, <1>3 DEF Deploying

LEMMA DeployingStep ==
    Typed /\ Routes /\ Starting /\ Deploying /\ [Next]_vars => Deploying'
<1> SUFFICES ASSUME Typed, Routes, Starting, Deploying, [Next]_vars
             PROVE  Deploying'
  OBVIOUS
<1>t. /\ pc \in [Agents -> AgentLabels] /\ sync \in [Agents -> Process]
      /\ served \in [id : Ids \cup {None}, dir : Dir]
  BY DEF Typed, TypeOK, SyncTypeOK
<1>1. ASSUME NEW q \in Agents, Agent(q)
      PROVE  Deploying'
  <2>1. /\ pc[q] \notin Answered /\ UNCHANGED <<alone, op>>
        /\ \A r \in Agents \ {q} : pc'[r] = pc[r]
    <3>1. CASE RunSync(q)
      BY <3>1 DEF RunSync, Answered, theRequests
    <3>2. CASE Lock(q) \/ Clear(q) \/ Import(q) \/ Imported(q) \/ ImportFails(q)
      BY <3>2, <1>t DEF Lock, Clear, Import, Imported, ImportFails, Goto,
                        Answered, theRequests
    <3>3. CASE SyncEnds(q) \/ UnlinkTable(q) \/ SymlinkTable(q)
      BY <3>3, <1>t DEF SyncEnds, UnlinkTable, SymlinkTable, Goto, Answered,
                        theRequests
    <3>4. CASE SendReload(q) \/ Reload(q) \/ ReloadTimesOut(q)
      BY <3>4, <1>t DEF SendReload, Reload, ReloadTimesOut, Goto, Answered,
                        theRequests
    <3> QED BY <1>1, <3>1, <3>2, <3>3, <3>4 DEF Agent
  <2>2. ASSUME NEW r \in Agents, alone[r]
        PROVE  r = q
    BY <2>1, <2>2 DEF Deploying
  <2>3. ASSUME alone[q], op[q] \in Deploys
        PROVE  Linked(q)'
    <3>1. Linked(q)
      BY <2>3 DEF Deploying
    <3>2. CASE Lock(q) \/ Clear(q) \/ Import(q) \/ Imported(q) \/ ImportFails(q)
      <4>1. pc[q] \in {"lock", "clear", "import", "importing"}
        BY <3>2 DEF Lock, Clear, Import, Imported, ImportFails
      <4> QED BY <2>3, <4>1 DEF Routes, Deploys
    <3>3. CASE RunSync(q)
      BY <3>1, <3>3, LinkedSync DEF RunSync
    <3>4. CASE \/ SyncEnds(q) \/ UnlinkTable(q) \/ SymlinkTable(q)
               \/ SendReload(q) \/ Reload(q) \/ ReloadTimesOut(q)
      BY <2>3, <3>1, <3>4, LinkedAgent
    <3> QED BY <1>1, <3>2, <3>3, <3>4 DEF Agent
  <2> QED BY <2>1, <2>2, <2>3 DEF Deploying
<1>2. CASE LateReload \/ RestartServer \/ ScanOpens \/ ScanEnds
  <2>1. UNCHANGED <<sync, release, active, tmp, link, op, alone>>
    BY <1>2 DEF LateReload, RestartServer, ScanOpens, ScanEnds, syncVars, files,
                theRequests
  <2>2. \A r \in Agents : \/ pc'[r] = pc[r]
                          \/ pc[r] = "wait" /\ pc'[r] = "failed"
    BY <1>2, <1>t DEF LateReload, RestartServer, ScanOpens, ScanEnds
  <2>3. {served', registered'} \subseteq {served, registered, Resolved, Nothing}
    BY <1>2, ServerMoves
  <2>4. ASSUME NEW r \in Agents, Linked(r), pc[r] = "ok",
               release[sync[r].id].whole
        PROVE  {served', registered'} \subseteq {Deployed(r), Nothing}
    <3>1. /\ link /\ tmp = None /\ active = sync[r].id /\ active \in In(release)
          /\ {served, registered} \subseteq {Deployed(r), Nothing}
      BY <2>4 DEF Linked
    <3>2. Resolved = Deployed(r)
      BY <3>1, Numbers DEF Resolved, In, Deployed
    <3> QED BY <2>3, <3>1, <3>2
  <2> QED BY <2>1, <2>2, <2>4 DEF Deploying, Linked, Deployed, In, Answered
<1>3. CASE NextSecond \/ UNCHANGED vars
  <2>1. UNCHANGED <<sync, release, active, tmp, link, registered, served, pc,
                    op, alone>>
    BY <1>3 DEF NextSecond, Tick, vars, syncVars, files, theServer, theProcess,
                theRequests
  <2> QED BY <2>1 DEF Deploying, Linked, Deployed, In
<1> QED BY <1>1, <1>2, <1>3, DeployingRequest DEF Next

(* A deploy or a switch that ran by itself and was answered ok, other than *)
(* by a hot open that did not look, is what "active" names, and the server *)
(* serves no other build, whatever went on before it and whatever late     *)
(* reload or start of the server comes after it.                           *)
THEOREM DeployIsServed == Spec => []DeployOkIsServed
<1>1. Typed /\ Starting /\ Deploying => DeployOkIsServed
  <2> SUFFICES ASSUME Typed, Starting, Deploying, NEW r \in Agents,
                      pc[r] = "ok", alone[r], op[r] \in Deploys
               PROVE  /\ active = sync[r].id
                      /\ Resolved = Deployed(r)
                      /\ release[sync[r].id].whole =>
                            \/ served = Resolved
                            \/ served = Nothing /\ scan # "done"
    BY DEF DeployOkIsServed, Deploys, Deployed
  <2>1. Linked(r)
    BY DEF Deploying
  <2>2. /\ active = sync[r].id /\ tmp = None /\ link
        /\ sync[r].id \in In(release)
        /\ release[sync[r].id].whole => served \in {Deployed(r), Nothing}
    BY <2>1 DEF Linked
  <2>3. Resolved = Deployed(r)
    BY <2>2, Numbers DEF Resolved, In, Deployed
  <2> QED BY <2>2, <2>3 DEF Starting
<1>2. Publishing => Routes
  BY DEF Publishing
<1> QED BY <1>1, <1>2, TypedInit, TypedStep, PublishingInit, PublishingStep,
           StartingInit, StartingStep, DeployingInit, DeployingStep, PTL
        DEF Spec
=============================================================================
