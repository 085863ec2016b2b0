--------------------------- MODULE PipelineAgent ---------------------------
(***************************************************************************)
(* The pipeline agent (tools/pipeline_agent/pipeline_agent.py) for one     *)
(* table: request threads that build an index, run artifact_sync, repoint  *)
(* the table directory of the server and ask it to reload, and the server  *)
(* that answers, of which Registry has the inside.                         *)
(***************************************************************************)
EXTENDS ArtifactSync

CONSTANTS Ops,          \* the routes that are called
          AskedIds,     \* the build ids a caller may ask for
          MaxEvents     \* how many requests and restarts there are

VARIABLES importLock,  \* holder of _import_lock, or None
          builds,      \* indexes built so far
          link,        \* SERVER_DB/<table> is there; it names "active"
          scan,        \* how far the server's startup scan is
          registered,  \* what is open in the server and not served yet
          served,      \* the id and the directory the server serves
          late,        \* reloads in the server that nobody waits for
          pc, op,      \* where a request is, and its route
          built,       \* the index that a request has built
          alone,       \* no other request has run since this one began
          events       \* requests and restarts so far

theProcess == <<scan, registered, served, late>>
theServer == <<link, theProcess>>
theRequests == <<op, built, alone, events>>
vars == <<syncVars, importLock, builds, theServer, pc, theRequests>>

AgentOps == {"buildIndex", "publishIndex", "pushIndex", "pullIndex",
             "deployIndex", "switchReloadIndex"}
ASSUME AgentAssumption ==
    /\ Ops \subseteq AgentOps
    /\ AskedIds \subseteq Ids
    /\ MaxEvents \in Nat

Nothing == [id |-> None, dir |-> NoDir]
AgentLabels == {"idle", "lock", "clear", "import", "importing", "sync",
                "unlink", "symlink", "reload", "wait", "ok", "blind", "failed"}
(* "blind" is an ok of a reload that did not look at the table directory.  *)
Answered == {"idle", "ok", "blind", "failed"}

Init ==
    /\ SyncInit
    /\ importLock = None
    /\ builds = Max(Seeds)
    /\ link = TRUE
    /\ scan = "done"
    /\ registered = Nothing
    /\ served = [id |-> active, dir |-> release[active]]
    /\ late = 0
    /\ pc = [r \in Agents |-> "idle"]
    /\ op = [r \in Agents |-> "buildIndex"]
    /\ built = [r \in Agents |-> 0]
    /\ alone = [r \in Agents |-> FALSE]
    /\ events = 0

Goto(r, label) == pc' = [pc EXCEPT ![r] = label]
-----------------------------------------------------------------------------
(* The routes.                                                             *)

FirstProcesses(route, id) ==
    CASE route = "pushIndex" -> {Started("push", id, FALSE, FALSE)}
      [] route = "pullIndex" ->
            {Started("pull", id, force, switch) : force, switch \in BOOLEAN}
      [] route = "deployIndex" ->
            {Started("pull", id, force, TRUE) : force \in BOOLEAN}
      [] route = "switchReloadIndex" -> {Started("switch", id, FALSE, TRUE)}

Request(r, route) ==
    /\ pc[r] \in Answered
    /\ events < MaxEvents
    /\ events' = events + 1
    /\ op' = [op EXCEPT ![r] = route]
    /\ built' = [built EXCEPT ![r] = 0]
    /\ alone' = [q \in Agents |->
                    q = r /\ \A p \in Agents \ {r} : pc[p] \in Answered]
    /\ IF route \in {"buildIndex", "publishIndex"}
       THEN Goto(r, "lock") /\ sync' = [sync EXCEPT ![r] = NoProcess]
       ELSE /\ Goto(r, "sync")
            /\ \E id \in AskedIds \cup {None} :
                  \E process \in FirstProcesses(route, id) :
                      sync' = [sync EXCEPT ![r] = process]
    /\ UNCHANGED <<files, clock, chosen, importLock, builds, theServer>>

-----------------------------------------------------------------------------
(* _build_index_impl, under _import_lock.                                  *)

(* Mutant: the build does not take the lock.                               *)
NoLock(r) ==
    /\ pc[r] = "lock"
    /\ importLock' = r
    /\ Goto(r, "clear")
    /\ UNCHANGED <<syncVars, builds, theServer, theRequests>>

Lock(r) ==
    /\ pc[r] = "lock" /\ importLock = None
    /\ importLock' = r
    /\ Goto(r, "clear")
    /\ UNCHANGED <<syncVars, builds, theServer, theRequests>>

Clear(r) ==
    /\ pc[r] = "clear"
    /\ source' = NoDir
    /\ Goto(r, "import")
    /\ UNCHANGED <<store, release, active, tmp, clock, chosen, sync,
                   importLock, builds, theServer, theRequests>>

(* yikv_import_pipeline makes the index directory ...                      *)
Import(r) ==
    /\ pc[r] = "import" /\ builds < MaxBuild
    /\ builds' = builds + 1
    /\ built' = [built EXCEPT ![r] = builds + 1]
    /\ source' = [build |-> builds + 1, whole |-> FALSE, by |-> None]
    /\ Goto(r, "importing")
    /\ UNCHANGED <<store, release, active, tmp, clock, chosen, sync,
                   importLock, theServer, op, alone, events>>

(* ... and persists its meta.  A build ends here, a publish pushes what is *)
(* there while it still holds the lock.                                    *)
Imported(r) ==
    /\ pc[r] = "importing"
    /\ source' = [source EXCEPT !.whole = TRUE]
    /\ IF op[r] = "buildIndex"
       THEN Goto(r, "ok") /\ importLock' = None /\ UNCHANGED sync
       ELSE /\ Goto(r, "sync")
            /\ \E id \in AskedIds \cup {None} :
                  sync' = [sync EXCEPT ![r] =
                              Started("push", id, FALSE, FALSE)]
            /\ UNCHANGED importLock
    /\ UNCHANGED <<store, release, active, tmp, clock, chosen, builds,
                   theServer, theRequests>>

(* The input is missing, or the import fails, after the old index is gone. *)
ImportFails(r) ==
    /\ "import" \in Faults
    /\ pc[r] \in {"import", "importing"}
    /\ Goto(r, "failed")
    /\ importLock' = None
    /\ UNCHANGED <<syncVars, builds, theServer, theRequests>>

(* Mutant: the exit status of artifact_sync is not looked at.              *)
SyncEndsUnchecked(r) ==
    /\ pc[r] = "sync" /\ sync[r].at \in {"ok", "failed"}
    /\ Goto(r, IF op[r] \in {"deployIndex", "switchReloadIndex"}
               THEN "unlink" ELSE "ok")
    /\ importLock' = IF importLock = r THEN None ELSE importLock
    /\ UNCHANGED <<syncVars, builds, theServer, theRequests>>

(* artifact_sync has ended: the answer of a push or a pull, and the lock   *)
(* of a publish; a deploy or a switch goes on.                             *)
SyncEnds(r) ==
    /\ pc[r] = "sync" /\ sync[r].at \in {"ok", "failed"}
    /\ Goto(r, IF sync[r].at = "ok"
                  /\ op[r] \in {"deployIndex", "switchReloadIndex"}
               THEN "unlink" ELSE sync[r].at)
    /\ importLock' = IF importLock = r THEN None ELSE importLock
    /\ UNCHANGED <<syncVars, builds, theServer, theRequests>>
-----------------------------------------------------------------------------
(* link_server_table: unlink, then symlink.                                *)

UnlinkTable(r) ==
    /\ pc[r] = "unlink"
    /\ link' = FALSE
    /\ Goto(r, "symlink")
    /\ UNCHANGED <<syncVars, importLock, builds, theProcess, theRequests>>

SymlinkTable(r) ==
    /\ pc[r] = "symlink"
    /\ link' = TRUE
    /\ Goto(r, IF link THEN "failed" ELSE "reload")
    /\ UNCHANGED <<syncVars, importLock, builds, theProcess, theRequests>>
-----------------------------------------------------------------------------
(* send_reload, and the server's end of the admin socket.                  *)

SendReload(r) ==
    /\ pc[r] = "reload"
    /\ Goto(r, "wait")
    /\ UNCHANGED <<syncVars, importLock, builds, theServer, theRequests>>

(* What the table directory of the server leads to.                        *)
Resolved ==
    LET id == IF active = TmpName THEN tmp ELSE active IN
    IF link /\ id \in In(release)
    THEN [id |-> id, dir |-> release[id]] ELSE Nothing

MayFail == ~Resolved.dir.whole \/ "reload" \in Faults

(* Registry's ReloadTable of a table that is served: it serves what the    *)
(* table directory leads to, or what it served before when that does not   *)
(* open, as an index that is not whole need not.                           *)
Reopen(answer) ==
    /\ served # Nothing
    /\ \/ answer = "ok" /\ Resolved # Nothing /\ served' = Resolved
       \/ answer = "failed" /\ MayFail /\ UNCHANGED served
    /\ UNCHANGED registered

(* What DB::OpenIndex leaves under the table's name: it does not open a    *)
(* name that is registered.                                                *)
OpenedByName == IF registered = Nothing THEN Resolved ELSE registered

(* Its hot open of a table that is not: LoadTable, which may fail with the *)
(* name still registered when the consumer's thread cannot be created.     *)
HotOpen(answer) ==
    /\ served = Nothing
    /\ \/ /\ answer = IF registered = Nothing THEN "ok" ELSE "blind"
          /\ Resolved # Nothing
          /\ served' = OpenedByName
          /\ registered' = Nothing
       \/ /\ answer = "failed" /\ MayFail
          /\ registered' \in {Nothing, registered}
                               \cup {OpenedByName : f \in Faults \cap {"reload"}}
          /\ UNCHANGED served

ReloadTable(answer) == scan # "open" /\ (Reopen(answer) \/ HotOpen(answer))

(* While the scan has the table's load in hand, a reload waits for it and  *)
(* answers ok when the scan succeeds; one that finds no table directory    *)
(* does not wait.                                                          *)
ScanServes ==
    /\ scan = "open"
    /\ scan' = "done" /\ served' = registered /\ registered' = Nothing

Reload(r) ==
    /\ pc[r] = "wait"
    /\ \/ /\ \E answer \in {"ok", "blind", "failed"} :
                ReloadTable(answer) /\ Goto(r, answer)
          /\ UNCHANGED scan
       \/ ScanServes /\ Goto(r, "blind")
       \/ /\ scan = "open" /\ Resolved = Nothing /\ Goto(r, "failed")
          /\ UNCHANGED <<scan, registered, served>>
    /\ UNCHANGED <<syncVars, importLock, builds, link, late, theRequests>>

(* The agent waits for 30 seconds; the server then still reloads.          *)
ReloadTimesOut(r) ==
    /\ "timeout" \in Faults
    /\ pc[r] = "wait"
    /\ late' = late + 1
    /\ Goto(r, "failed")
    /\ UNCHANGED <<syncVars, importLock, builds, link, scan, registered,
                   served, theRequests>>

LateReload ==
    /\ late > 0
    /\ late' = late - 1
    /\ IF scan = "open" THEN UNCHANGED <<registered, served>>
       ELSE \E answer \in {"ok", "blind", "failed"} : ReloadTable(answer)
    /\ UNCHANGED <<syncVars, importLock, builds, link, scan, pc, theRequests>>
-----------------------------------------------------------------------------
(* The server's start, by the agent or by whoever runs it.                 *)

(* The server is killed and started again.  It answers reloads from now    *)
(* on, before it has loaded a table.                                       *)
RestartServer ==
    /\ "restart" \in Faults
    /\ events < MaxEvents
    /\ events' = events + 1
    /\ scan' = "ahead" /\ registered' = Nothing /\ served' = Nothing
    /\ late' = 0
    /\ pc' = [r \in Agents |-> IF pc[r] = "wait" THEN "failed" ELSE pc[r]]
    /\ UNCHANGED <<syncVars, importLock, builds, link, op, built, alone>>

(* ScanAndLoad comes to the table: it may be loaded by now, or not be      *)
(* there; else its index is opened ...                                     *)
ScanOpens ==
    /\ scan = "ahead"
    /\ IF served # Nothing THEN scan' = "done" /\ UNCHANGED registered
       ELSE IF Resolved = Nothing THEN scan' = "missed" /\ UNCHANGED registered
       ELSE scan' = "open" /\ registered' = OpenedByName
    /\ UNCHANGED <<syncVars, importLock, builds, link, served, late, pc,
                   theRequests>>

(* ... and then served, or closed when it or its schema does not load.     *)
ScanEnds ==
    /\ \/ ScanServes
       \/ /\ scan = "open"
          /\ ~registered.dir.whole \/ "reload" \in Faults
          /\ scan' = "missed" /\ registered' = Nothing /\ UNCHANGED served
    /\ UNCHANGED <<syncVars, importLock, builds, link, late, pc, theRequests>>
-----------------------------------------------------------------------------
RunSync(r) ==
    /\ pc[r] = "sync"
    /\ Sync(r)
    /\ UNCHANGED <<importLock, builds, theServer, pc, theRequests>>

Agent(r) ==
    \/ Lock(r) \/ Clear(r) \/ Import(r) \/ Imported(r) \/ ImportFails(r)
    \/ RunSync(r) \/ SyncEnds(r)
    \/ UnlinkTable(r) \/ SymlinkTable(r)
    \/ SendReload(r) \/ Reload(r) \/ ReloadTimesOut(r)

NextSecond ==
    /\ Tick
    /\ UNCHANGED <<importLock, builds, theServer, pc, theRequests>>

Next ==
    \/ \E r \in Agents : Agent(r) \/ \E route \in Ops : Request(r, route)
    \/ NextSecond
    \/ LateReload
    \/ RestartServer \/ ScanOpens \/ ScanEnds

Spec == Init /\ [][Next]_vars

-----------------------------------------------------------------------------
(* Properties.                                                             *)

TypeOK ==
    /\ SyncTypeOK
    /\ importLock \in Agents \cup {None}
    /\ builds \in 0 .. MaxBuild
    /\ link \in BOOLEAN
    /\ scan \in {"ahead", "open", "missed", "done"}
    /\ registered \in [id : Ids \cup {None}, dir : Dir]
    /\ served \in [id : Ids \cup {None}, dir : Dir]
    /\ late \in Nat
    /\ pc \in [Agents -> AgentLabels]
    /\ op \in [Agents -> AgentOps]
    /\ built \in [Agents -> 0 .. MaxBuild]
    /\ alone \in [Agents -> BOOLEAN]
    /\ events \in 0 .. MaxEvents

(* A deploy or a switch that ran by itself and was answered ok, after      *)
(* whatever failed, overlapped or timed out before it, has put the build   *)
(* it names under "active", and the server serves that build: now, unless  *)
(* it is being started again or failed to load its table then, and never   *)
(* another.  Left out is the ok of a hot open that finds the table opened  *)
(* before, by the scan or by a reload that threw.                          *)
DeployOkIsServed ==
    \A r \in Agents :
        LET id == sync[r].id IN
        (pc[r] = "ok" /\ alone[r]
         /\ op[r] \in {"deployIndex", "switchReloadIndex"}) =>
            /\ active = id
            /\ Resolved = [id |-> id, dir |-> release[id]]
            /\ release[id].whole =>
                  served = Resolved \/ (served = Nothing /\ scan # "done")

(* A publish that was answered ok has put the index it built, all of it,   *)
(* under the id it names, however builds and pushes overlapped, unless     *)
(* another push chose the same id.                                         *)
PublishOkIsItsBuild ==
    \A r \in Agents :
        LET id == sync[r].id IN
        pc[r] = "ok" /\ op[r] = "publishIndex" /\ chosen[id] = 1 =>
            store[id] = Whole(built[r])

(* A pull that ran by itself leaves at most Keep builds, whatever earlier  *)
(* pulls left behind, and never nothing but builds older than its own; but *)
(* where one build is kept, a leftover active.tmp takes its place.         *)
PullKeepsNewest ==
    \A r \in Agents :
        (pc[r] \in {"ok", "blind"} /\ alone[r]
         /\ op[r] \in {"pullIndex", "deployIndex"}
         /\ Keep > 0) =>
            /\ Cardinality(In(release)) <= Keep
            /\ Keep > 1 => Newest(In(release)) >= sync[r].id

(* The build under "active" is what a restarted server looks for.  A       *)
(* request that runs by itself takes it away only for Keep newer ones, or  *)
(* to copy that very build again.  A leftover active.tmp counts as one,    *)
(* even when its build is removed in the same prune.                       *)
ActiveYieldsToNewer ==
    [][\A r \in Agents :
           (alone[r] /\ active \in In(release) \ In(release')) =>
               \/ Cardinality({i \in In(release) : i > active}
                              \cup {TmpName : t \in {tmp} \ {None}}) >= Keep
               \/ sync[r].force /\ sync[r].id = active
      ]_vars

(* _prune_local_versions: the build that is being pulled is never removed. *)
MustKeepIsKept ==
    \A r \in Agents : At(r, "rmtree") => sync[r].id \notin sync[r].victims
=============================================================================
