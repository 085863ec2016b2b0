---------------------------- MODULE ArtifactSync ----------------------------
(***************************************************************************)
(* artifact_sync (tools/artifact_sync/artifact_sync.py) for one table: the *)
(* processes that push a build directory into the local artifact store,    *)
(* pull builds of the store into the release directory, prune that         *)
(* directory and switch its link "active".  No process locks anything: a   *)
(* step is what one of them does between two file system calls that        *)
(* another one can see.                                                    *)
(*                                                                         *)
(* A build id is a number, in the lexicographic order of the time stamps.  *)
(***************************************************************************)
EXTENDS Naturals, FiniteSets, FiniteSetsExt

CONSTANTS Agents,     \* whoever runs artifact_sync, one process at a time
          MaxId,      \* the last build id
          MaxBuild,   \* the last index that is built
          Keep,       \* --max-local-versions
          Seeds,      \* builds pushed and pulled before, the last one active
          Faults      \* which of "disk" (a copy fails), "kill" (a process is
                      \* killed), "import", "reload", "restart" and
                      \* "timeout" may happen

VARIABLES source,          \* BUILD_DB/<table>
          store, release,  \* the build directories, by id
          active, tmp,     \* what "active" and "active.tmp" link to
          clock,           \* the first id of the current second
          chosen,          \* chosen[i]: how many pushes chose id i
          sync             \* sync[r]: the process that r runs

files == <<source, store, release, active, tmp>>
syncVars == <<files, clock, chosen, sync>>

None == 0
Ids == 1 .. MaxId
TmpName == MaxId + 1     \* "active.tmp" sorts after every build id
Names == Ids \cup {TmpName}

ASSUME SyncAssumption ==
    /\ MaxId \in Nat \ {0} /\ MaxBuild \in Nat /\ Keep \in Nat
    /\ Seeds \subseteq Ids \cap 1 .. MaxBuild /\ Seeds # {}
    /\ None \notin Agents

(* A directory: the index it is a copy of, whether it has all its files,   *)
(* and who is writing it.                                                  *)
Dir == [build : 0 .. MaxBuild, whole : BOOLEAN, by : Agents \cup {None}]
NoDir == [build |-> 0, whole |-> FALSE, by |-> None]
Whole(n) == [build |-> n, whole |-> TRUE, by |-> None]

In(root) == {i \in Ids : root[i] # NoDir}

(* The directories that readers of the release directory take for builds:  *)
(* "active" is left out by name, a link "active.tmp" to a build is not.    *)
Versions == In(release) \cup (IF tmp \in In(release) THEN {TmpName} ELSE {})

Newest(ids) == IF ids = {} THEN None ELSE Max(ids)

Commands == {"push", "pull", "switch"}
SyncLabels == {"none", "push", "store", "copy", "copying", "pull", "fetch",
               "prune", "rmtree", "switch", "tmp", "symlink", "replace",
               "ok", "failed"}
Process == [at : SyncLabels, cmd : Commands, id : Names \cup {None},
            force : BOOLEAN, link : BOOLEAN, from : Dir,
            victims : SUBSET Ids]

(* A process that has been started with its options.                       *)
Started(cmd, id, force, link) ==
    [at |-> cmd, cmd |-> cmd, id |-> id, force |-> force, link |-> link,
     from |-> NoDir, victims |-> {}]

NoProcess == [Started("push", None, FALSE, FALSE) EXCEPT !.at = "none"]

SyncInit ==
    /\ source = NoDir
    /\ store = [i \in Ids |-> IF i \in Seeds THEN Whole(i) ELSE NoDir]
    /\ release = store
    /\ active = Max(Seeds)
    /\ tmp = None
    /\ clock = Max(Seeds) + 1
    /\ chosen = [i \in Ids |-> IF i \in Seeds THEN 1 ELSE 0]
    /\ sync = [r \in Agents |-> NoProcess]

At(r, label) == sync[r].at = label
Step(r, label) == sync' = [sync EXCEPT ![r].at = label]

(* The process ends; only its id still counts.                             *)
End(r, status) ==
    sync' = [sync EXCEPT ![r] =
               [Started(@.cmd, @.id, FALSE, FALSE) EXCEPT !.at = status]]
Fail(r) == End(r, "failed")
-----------------------------------------------------------------------------
(* push                                                                    *)

(* The next second: an id of it sorts after those of the seconds before.   *)
Tick ==
    LET used == {i \in Ids : chosen[i] > 0} IN
    /\ Newest(used) >= clock
    /\ clock' = Newest(used) + 1
    /\ UNCHANGED <<files, chosen, sync>>

(* _allocate_build_id: the time stamp, with a suffix when the directory is *)
(* there already.                                                          *)
Allocated ==
    Newest({i \in Ids : /\ i >= clock /\ store[i] = NoDir
                        /\ \A j \in clock .. i - 1 : store[j] # NoDir})

PushResolve(r) ==
    LET id == IF sync[r].id # None THEN sync[r].id ELSE Allocated IN
    /\ At(r, "push") /\ id # None
    /\ IF source = NoDir THEN Fail(r) /\ UNCHANGED chosen
       ELSE /\ sync' = [sync EXCEPT ![r].at = "store", ![r].id = id]
            /\ chosen' = [chosen EXCEPT ![id] = @ + 1]
    /\ UNCHANGED <<files, clock>>

(* shutil.rmtree fails when a copy into the tree goes on.                  *)
RemovedTree(dir) ==
    IF dir.by = None THEN {NoDir} ELSE {NoDir, [dir EXCEPT !.whole = FALSE]}

PushReplace(r) ==
    LET id == sync[r].id IN
    /\ At(r, "store")
    /\ IF store[id] = NoDir THEN Step(r, "copy") /\ UNCHANGED store
       ELSE /\ store' \in {[store EXCEPT ![id] = d] :
                              d \in RemovedTree(store[id])}
            /\ IF store'[id] = NoDir THEN Step(r, "copy") ELSE Fail(r)
    /\ UNCHANGED <<source, release, active, tmp, clock, chosen>>

(* shutil.copytree makes the directory, which must not exist, and then     *)
(* copies file by file.                                                    *)
BeginCopy(r, from, to) ==
    IF from # NoDir /\ to = NoDir
    THEN [at |-> "copying", dir |-> [from EXCEPT !.whole = FALSE, !.by = r]]
    ELSE [at |-> "failed", dir |-> to]

(* What a copy may leave, and whether it fails.  Its source may have been  *)
(* changed or removed under it, its target removed or taken by another     *)
(* copy, whose files are then mixed with its own.                          *)
EndCopy(r, from, to) ==
    LET mine == to.by = r
        read == sync[r].from
        left(whole) == [to EXCEPT !.whole = whole, !.by = None]
        completed == {read.whole, from.build = read.build /\ from.whole}
    IN  IF mine /\ from = read
        THEN {[ok |-> TRUE, dir |-> left(from.whole)]}
             \cup {[ok |-> FALSE, dir |-> left(FALSE)] :
                      f \in Faults \cap {"disk"}}
        ELSE {[ok |-> FALSE, dir |-> IF mine THEN left(FALSE) ELSE to]}
             \cup (IF from = NoDir \/ to = NoDir THEN {}
                   ELSE {[ok |-> TRUE, dir |-> d] :
                           d \in {left(FALSE)} \cup
                                 (IF mine THEN {left(w) : w \in completed}
                                  ELSE {to})})

PushCopy(r) ==
    LET id == sync[r].id
        begun == BeginCopy(r, source, store[id])
    IN  /\ At(r, "copy") /\ sync[r].cmd = "push"
        /\ store' = [store EXCEPT ![id] = begun.dir]
        /\ sync' = [sync EXCEPT ![r].at = begun.at, ![r].from = source]
        /\ UNCHANGED <<source, release, active, tmp, clock, chosen>>

PushCopied(r) ==
    LET id == sync[r].id IN
    /\ At(r, "copying") /\ sync[r].cmd = "push"
    /\ \E result \in EndCopy(r, source, store[id]) :
          /\ store' = [store EXCEPT ![id] = result.dir]
          /\ End(r, IF result.ok THEN "ok" ELSE "failed")
    /\ UNCHANGED <<source, release, active, tmp, clock, chosen>>
-----------------------------------------------------------------------------
(* pull                                                                    *)

(* resolve_build_id_for_pull, and the directory of the build in the store. *)
PullResolve(r) ==
    LET id == IF sync[r].id # None THEN sync[r].id ELSE Newest(In(store)) IN
    /\ At(r, "pull")
    /\ IF id \in In(store)
       THEN sync' = [sync EXCEPT ![r].at = "fetch", ![r].id = id]
       ELSE Fail(r)
    /\ UNCHANGED <<files, clock, chosen>>

(* A directory that exists is kept, whatever is in it, unless the refresh  *)
(* is forced.                                                              *)
PullFetch(r) ==
    LET id == sync[r].id IN
    /\ At(r, "fetch")
    /\ IF release[id] = NoDir THEN Step(r, "copy") /\ UNCHANGED release
       ELSE IF ~sync[r].force THEN Step(r, "prune") /\ UNCHANGED release
       ELSE /\ release' \in {[release EXCEPT ![id] = d] :
                                d \in RemovedTree(release[id])}
            /\ IF release'[id] = NoDir THEN Step(r, "copy") ELSE Fail(r)
    /\ UNCHANGED <<source, store, active, tmp, clock, chosen>>

PullCopy(r) ==
    LET id == sync[r].id
        begun == BeginCopy(r, store[id], release[id])
    IN  /\ At(r, "copy") /\ sync[r].cmd = "pull"
        /\ release' = [release EXCEPT ![id] = begun.dir]
        /\ sync' = [sync EXCEPT ![r].at = begun.at, ![r].from = store[id]]
        /\ UNCHANGED <<source, store, active, tmp, clock, chosen>>

PullCopied(r) ==
    LET id == sync[r].id IN
    /\ At(r, "copying") /\ sync[r].cmd = "pull"
    /\ \E result \in EndCopy(r, store[id], release[id]) :
          /\ release' = [release EXCEPT ![id] = result.dir]
          /\ IF result.ok
             THEN sync' = [sync EXCEPT ![r].at = "prune", ![r].from = NoDir]
             ELSE Fail(r)
    /\ UNCHANGED <<source, store, active, tmp, clock, chosen>>

(* The n greatest of a set of ids.                                         *)
Greatest(ids, n) == {i \in ids : Cardinality({j \in ids : j > i}) < n}

(* Mutant: the oldest versions are kept.                                   *)
OldestEvictions(versions, id) ==
    {i \in versions \cap Ids :
        Cardinality({j \in versions \cup {id} : j < i}) >= Keep}

(* Mutant: ids are taken out until fewer than Keep are left.               *)
OneTooMany(versions, id) ==
    LET kept == Greatest(versions \cup {id}, Keep) \cup {id} IN
    IF Keep = 0 \/ versions = {} THEN {}
    ELSE versions \ Greatest(kept, Keep - 1)

(* _prune_local_versions: the Keep greatest ids, then the pulled one, then *)
(* the least are taken out again until Keep are left.                      *)
Evicted(versions, id) ==
    LET kept == Greatest(versions \cup {id}, Keep) \cup {id} IN
    IF Keep = 0 \/ versions = {} THEN {}
    ELSE versions \ Greatest(kept, Keep)

PullPrune(r) ==
    /\ At(r, "prune")
    /\ sync' = [sync EXCEPT ![r].at = "rmtree",
                            ![r].victims = Evicted(Versions, sync[r].id)]
    /\ UNCHANGED <<files, clock, chosen>>

PullRemove(r) ==
    /\ At(r, "rmtree")
    /\ \E v \in sync[r].victims :
          IF release[v] = NoDir THEN Fail(r) /\ UNCHANGED release
          ELSE \E d \in RemovedTree(release[v]) :
                  /\ release' = [release EXCEPT ![v] = d]
                  /\ IF d = NoDir
                     THEN sync' = [sync EXCEPT ![r].victims = @ \ {v}]
                     ELSE Fail(r)
    /\ UNCHANGED <<source, store, active, tmp, clock, chosen>>

PullDone(r) ==
    /\ At(r, "rmtree") /\ sync[r].victims = {}
    /\ IF sync[r].link THEN Step(r, "tmp") ELSE End(r, "ok")
    /\ UNCHANGED <<files, clock, chosen>>
-----------------------------------------------------------------------------
(* switch, and the end of pull --switch-active                             *)

SwitchResolve(r) ==
    LET id == IF sync[r].id # None THEN sync[r].id ELSE Newest(Versions) IN
    /\ At(r, "switch")
    /\ IF id \in Versions
       THEN sync' = [sync EXCEPT ![r].at = "tmp", ![r].id = id]
       ELSE Fail(r)
    /\ UNCHANGED <<files, clock, chosen>>

(* _atomic_symlink goes through one name for all processes.  The test for  *)
(* it and its removal are one step.                                        *)
UnlinkTmp(r) ==
    /\ At(r, "tmp")
    /\ tmp' = None
    /\ Step(r, "symlink")
    /\ UNCHANGED <<source, store, release, active, clock, chosen>>

SymlinkTmp(r) ==
    /\ At(r, "symlink")
    /\ IF tmp # None THEN Fail(r) /\ UNCHANGED tmp
       ELSE tmp' = sync[r].id /\ Step(r, "replace")
    /\ UNCHANGED <<source, store, release, active, clock, chosen>>

(* Mutant: the link is replaced without one to replace it by.              *)
ReplaceUnchecked(r) ==
    /\ At(r, "replace")
    /\ active' = tmp /\ tmp' = None /\ End(r, "ok")
    /\ UNCHANGED <<source, store, release, clock, chosen>>

ReplaceActive(r) ==
    /\ At(r, "replace")
    /\ IF tmp = None THEN Fail(r) /\ UNCHANGED <<active, tmp>>
       ELSE active' = tmp /\ tmp' = None /\ End(r, "ok")
    /\ UNCHANGED <<source, store, release, clock, chosen>>

(* The process is killed, and leaves what it was writing.                  *)
Killed(r) ==
    LET leave(root) ==
            [i \in Ids |-> IF root[i].by = r
                           THEN [root[i] EXCEPT !.by = None] ELSE root[i]]
    IN  /\ "kill" \in Faults
        /\ sync[r].at \notin {"none", "ok", "failed"}
        /\ Fail(r)
        /\ store' = leave(store) /\ release' = leave(release)
        /\ UNCHANGED <<source, active, tmp, clock, chosen>>

Sync(r) ==
    \/ Killed(r)
    \/ PushResolve(r) \/ PushReplace(r) \/ PushCopy(r) \/ PushCopied(r)
    \/ PullResolve(r) \/ PullFetch(r) \/ PullCopy(r) \/ PullCopied(r)
    \/ PullPrune(r) \/ PullRemove(r) \/ PullDone(r)
    \/ SwitchResolve(r) \/ UnlinkTmp(r) \/ SymlinkTmp(r) \/ ReplaceActive(r)
-----------------------------------------------------------------------------
SyncTypeOK ==
    /\ source \in Dir
    /\ store \in [Ids -> Dir] /\ release \in [Ids -> Dir]
    /\ active \in Names /\ tmp \in Names \cup {None}
    /\ clock \in Nat
    /\ chosen \in [Ids -> Nat]
    /\ sync \in [Agents -> Process]
=============================================================================
