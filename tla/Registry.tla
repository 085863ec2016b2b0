------------------------------ MODULE Registry ------------------------------
(***************************************************************************)
(* TableRegistry (src/yikv_server/table_registry.{h,cc}) with the threads  *)
(* that call it: the main thread scans db_path at startup and then serves  *)
(* RPCs, the admin threads execute "reload <table>", the RPC threads       *)
(* acquire and release TableHandles, and an operator repoints the table    *)
(* directory (the deploy agent's link_server_table and artifact_sync's     *)
(* switch).  The storage engine is external: DB::OpenIndex registers a new *)
(* mapping under a key and returns at once when the key is registered,     *)
(* DB::CloseIndex unmaps it.                                               *)
(*                                                                         *)
(* A table owns two DB keys, its name ("primary") and "<name>~reload"      *)
(* ("staging"), and the reload alternates between them.  A build stands    *)
(* for a release directory with its arena, schema and table.json.          *)
(***************************************************************************)
EXTENDS Naturals, FiniteSets

CONSTANTS Tables,       \* logical table names
          Builds,       \* release directories a table may point at
          KafkaBuilds,  \* those whose table.json names a Kafka topic
          Clients,      \* RPC threads
          Reloaders,    \* callers of ReloadTable; the server has one
          Main,         \* the thread that runs main()
          Ptrs,         \* addresses of mappings
          Faults,       \* which of "crash", "spawn" may happen
          ExclusiveArena, \* the option exclusive_arena_lock
          TableDir,     \* the path db_path/<table> itself, unresolved
          Nothing       \* a null pointer, an absent file

VARIABLES active,         \* what db_path/<table> resolves to
          link,           \* what db_path/<table>~reload links to
          db,             \* the mapping DB has registered under each key
          live,           \* heads_[t]->slot; Nothing when t is not in heads_
          stagingIsLive,  \* heads_[t]->staging_is_live
          hold,           \* the slot a client's TableHandle keeps alive
          consuming,      \* slots whose KafkaSource thread runs
          unscanned,      \* directory entries ScanAndLoad has yet to visit
          pc,             \* where each thread is
          table,          \* locals: the table a thread loads or reloads,
          dir,            \* the directory its config is read from,
          next,           \* the DB key a reload opens (next_db),
          fresh,          \* the slot made from it (new_slot),
          old,            \* and the one it replaces (old_sp)
          reply,          \* what the admin socket answered last
          since           \* history: builds active during the command

disk == <<active, link>>
heads == <<live, stagingIsLive>>
locals == <<table, dir, next, fresh, old>>
answers == <<reply, since>>
vars == <<active, link, db, live, stagingIsLive, hold, consuming, unscanned,
          pc, table, dir, next, fresh, old, reply, since>>

Threads == Reloaders \cup {Main}
Keys == {"primary", "staging"}
Other(k) == IF k = "primary" THEN "staging" ELSE "primary"

Mapping == [ptr : Ptrs, build : Builds]
Dirs == Builds \cup {Nothing}
(* What weakly_canonical makes of the table directory, and a link to it.   *)
Paths == Dirs \cup {TableDir}
(* A TableSlot: the mapping behind kv and schema, the DB key it was opened *)
(* under, and the directory its table.json and kafka.offset are in.        *)
Slot == [table : Tables, key : Keys, ptr : Ptrs, build : Builds, dir : Paths]
(* An index: the mapping under a DB key.                                   *)
Index == [table : Tables, key : Keys, ptr : Ptrs, build : Builds]

ASSUME RegistryAssumption ==
    /\ KafkaBuilds \subseteq Builds
    /\ Main \notin Reloaders
    /\ Nothing \notin Tables \cup Builds \cup Mapping \cup Slot \cup Index
    /\ TableDir \notin Dirs
    /\ Faults \subseteq {"crash", "spawn"}
    /\ ExclusiveArena \in BOOLEAN

(* The program points inside load_table_mu_, and inside reload_serial.     *)
InsideLoad == {"open", "canonical", "build", "insert"}
BeforeSwap == {"reopen", "rebuild", "swap"}
AfterSwap == {"stop", "drain"}
InsideReload == BeforeSwap \cup AfterSwap
Labels == {"scan", "serving", "idle", "look", "load", "reload"}
              \cup InsideLoad \cup InsideReload

(* The mapping under s.key is the one s points into.                       *)
Mapped(s) == db[s.table][s.key] = [ptr |-> s.ptr, build |-> s.build]

-----------------------------------------------------------------------------
Init ==
    /\ active \in [Tables -> Dirs]
    /\ link = [t \in Tables |-> Nothing]
    /\ db = [t \in Tables |-> [k \in Keys |-> Nothing]]
    /\ live = [t \in Tables |-> Nothing]
    /\ stagingIsLive = [t \in Tables |-> FALSE]
    /\ hold = [c \in Clients |-> Nothing]
    /\ consuming = {}
    /\ unscanned = Tables
    /\ pc = [th \in Threads |-> IF th = Main THEN "scan" ELSE "idle"]
    /\ table = [th \in Threads |-> Nothing]
    /\ dir = [th \in Threads |-> Nothing]
    /\ next = [th \in Threads |-> "primary"]
    /\ fresh = [th \in Threads |-> Nothing]
    /\ old = [th \in Threads |-> Nothing]
    /\ reply = [r \in Reloaders |-> "none"]
    /\ since = [r \in Reloaders |-> {}]

(* The process ends and is started again: only the disk survives, the      *)
(* staging link included.                                                  *)
Restart ==
    /\ db' = [t \in Tables |-> [k \in Keys |-> Nothing]]
    /\ live' = [t \in Tables |-> Nothing]
    /\ stagingIsLive' = [t \in Tables |-> FALSE]
    /\ hold' = [c \in Clients |-> Nothing]
    /\ consuming' = {}
    /\ unscanned' = Tables
    /\ pc' = [th \in Threads |-> IF th = Main THEN "scan" ELSE "idle"]
    /\ table' = [th \in Threads |-> Nothing]
    /\ dir' = [th \in Threads |-> Nothing]
    /\ next' = [th \in Threads |-> "primary"]
    /\ fresh' = [th \in Threads |-> Nothing]
    /\ old' = [th \in Threads |-> Nothing]
    /\ reply' = [r \in Reloaders |-> "none"]
    /\ since' = [r \in Reloaders |-> {}]
    /\ UNCHANGED disk

Crash == "crash" \in Faults /\ Restart

-----------------------------------------------------------------------------
(* The operator and the engine.                                            *)

(* The deploy agent or artifact_sync makes the table directory resolve to  *)
(* another build, or takes the link away for a moment.                     *)
Repoint(t, b) ==
    /\ active' = [active EXCEPT ![t] = b]
    /\ since' = [r \in Reloaders |->
                    IF table[r] = t THEN since[r] \cup ({b} \ {Nothing})
                                        ELSE since[r]]
    /\ UNCHANGED <<link, db, heads, hold, consuming, unscanned, pc, locals,
                   reply>>

Registered == {e \in Tables \X Keys : db[e[1]][e[2]] # Nothing}
PtrsInUse == {db[e[1]][e[2]].ptr : e \in Registered}

(* Another key has the arena of b open and, if the option says so, locked. *)
Locked(t, k, b) ==
    /\ ExclusiveArena
    /\ \E e \in Registered \ {<<t, k>>} : db[e[1]][e[2]].build = b

(* Mutant: a path that resolves to nothing opens like any other.           *)
OpenAnyPath(t, k, b) ==
    \E p \in Ptrs \ PtrsInUse :
        db' = [db EXCEPT ![t][k] = IF db[t][k] # Nothing THEN db[t][k]
                                   ELSE [ptr |-> p, build |-> b]]

(* DB::OpenIndex(key) when what the key's path resolves to is b.           *)
OpenIndex(t, k, b) ==
    IF db[t][k] # Nothing
    THEN UNCHANGED db
    ELSE /\ b # Nothing /\ ~Locked(t, k, b)
         /\ \E p \in Ptrs \ PtrsInUse :
               db' = [db EXCEPT ![t][k] = [ptr |-> p, build |-> b]]

(* Mutant: a reload opens the key without closing it first.                *)
ReopenWithoutClose(t, k, b) == OpenIndex(t, k, b)

(* DB::CloseIndex(key) followed by DB::OpenIndex(key).                     *)
ReopenIndex(t, k, b) ==
    /\ b # Nothing /\ ~Locked(t, k, b)
    /\ \E p \in Ptrs \ PtrsInUse :
          db' = [db EXCEPT ![t][k] = [ptr |-> p, build |-> b]]

CloseIndex(t, k) == db' = [db EXCEPT ![t][k] = Nothing]

(* weakly_canonical(db_path/<table>): while the directory is not there, it *)
(* succeeds and returns that very path.                                    *)
Canonical(t) == IF active[t] = Nothing THEN TableDir ELSE active[t]

(* What a path names when it is used.                                      *)
Named(t, path) == IF path = TableDir THEN active[t] ELSE path

(* table.json in the directory of thread th's table names a Kafka topic.   *)
NamesTopic(th) == Named(table[th], dir[th]) \in KafkaBuilds

(* The slot made from what DB::GetKVIndex(key) returns.                    *)
SlotOf(t, k, d) == [table |-> t, key |-> k, ptr |-> db[t][k].ptr,
                    build |-> db[t][k].build, dir |-> d]

(* BuildSlotAfterOpen: when table.json in its directory names a topic, the *)
(* slot's consumer thread is started before the slot is published.         *)
BuildSlotAfterOpen(th, k, to) ==
    LET s == SlotOf(table[th], k, dir[th])
    IN  /\ fresh' = [fresh EXCEPT ![th] = s]
        /\ consuming' = IF NamesTopic(th) THEN consuming \cup {s}
                                           ELSE consuming
        /\ pc' = [pc EXCEPT ![th] = to]
        /\ UNCHANGED <<table, dir, next, old>>

(* LoadTable or ReloadTable returns or throws; an admin thread answers.    *)
Return(th, what) ==
    /\ pc' = [pc EXCEPT ![th] = IF th = Main THEN "scan" ELSE "idle"]
    /\ table' = [table EXCEPT ![th] = Nothing]
    /\ dir' = [dir EXCEPT ![th] = Nothing]
    /\ next' = [next EXCEPT ![th] = "primary"]
    /\ fresh' = [fresh EXCEPT ![th] = Nothing]
    /\ old' = [old EXCEPT ![th] = Nothing]
    /\ IF th = Main
       THEN UNCHANGED answers
       ELSE /\ reply' = [reply EXCEPT ![th] = what]
            /\ since' = [since EXCEPT ![th] = {}]

-----------------------------------------------------------------------------
(* LoadTable, for the startup scan and for a reload of an unknown table.   *)

(* Mutant: LoadTable without load_table_mu_.                                *)
NoLoadMutex == TRUE

LoadMutexFree == \A th \in Threads : pc[th] \notin InsideLoad

(* load_table_mu_ is taken; a table that is already in heads_ is a success *)
(* and nothing is opened.                                                  *)
LoadBegin(th) ==
    /\ pc[th] = "load"
    /\ LoadMutexFree
    /\ IF live[table[th]] # Nothing
       THEN Return(th, "ok")
       ELSE /\ pc' = [pc EXCEPT ![th] = "open"]
            /\ UNCHANGED <<locals, answers>>
    /\ UNCHANGED <<disk, db, heads, hold, consuming, unscanned>>

LoadOpen(th) ==
    /\ pc[th] = "open"
    /\ OpenIndex(table[th], "primary", active[table[th]])
    /\ pc' = [pc EXCEPT ![th] = "canonical"]
    /\ UNCHANGED <<disk, heads, hold, consuming, unscanned, locals,
                   answers>>

LoadOpenFails(th) ==
    /\ pc[th] = "open"
    /\ Return(th, "err")
    /\ UNCHANGED <<disk, db, heads, hold, consuming, unscanned>>

(* weakly_canonical resolves the table directory a second time.            *)
LoadCanonical(th) ==
    /\ pc[th] = "canonical"
    /\ dir' = [dir EXCEPT ![th] = Canonical(table[th])]
    /\ pc' = [pc EXCEPT ![th] = "build"]
    /\ UNCHANGED <<disk, db, heads, hold, consuming, unscanned, table, next,
                   fresh, old, answers>>

LoadBuild(th) ==
    /\ pc[th] = "build"
    /\ BuildSlotAfterOpen(th, "primary", "insert")
    /\ UNCHANGED <<disk, db, heads, hold, unscanned, answers>>

(* weakly_canonical fails, or the engine has no index or schema.           *)
LoadAborts(th) ==
    /\ pc[th] \in {"canonical", "build"}
    /\ CloseIndex(table[th], "primary")
    /\ Return(th, "err")
    /\ UNCHANGED <<disk, heads, hold, consuming, unscanned>>

(* The consumer's std::thread cannot be created.  Nothing catches the      *)
(* exception between here and the admin socket, so the key stays           *)
(* registered; in the main thread it ends the process.                     *)
LoadThrows(th) ==
    /\ "spawn" \in Faults
    /\ pc[th] = "build"
    /\ NamesTopic(th)
    /\ IF th = Main
       THEN Restart
       ELSE /\ Return(th, "err")
            /\ UNCHANGED <<disk, db, heads, hold, consuming, unscanned>>

LoadInsert(th) ==
    LET t == table[th]
        s == fresh[th]
    IN  /\ pc[th] = "insert"
        /\ IF live[t] # Nothing
           THEN /\ consuming' = consuming \ {s}
                /\ CloseIndex(t, "primary")
                /\ UNCHANGED heads
           ELSE /\ live' = [live EXCEPT ![t] = s]
                /\ stagingIsLive' = [stagingIsLive EXCEPT ![t] = FALSE]
                /\ UNCHANGED <<consuming, db>>
        /\ Return(th, "ok")
        /\ UNCHANGED <<disk, hold, unscanned>>

-----------------------------------------------------------------------------
(* ScanAndLoad, in the main thread; the RPC server starts after it.        *)

ScanEntry(t) ==
    /\ pc[Main] = "scan"
    /\ t \in unscanned
    /\ unscanned' = unscanned \ {t}
    /\ IF active[t] = Nothing
       THEN UNCHANGED <<pc, locals>>
       ELSE /\ pc' = [pc EXCEPT ![Main] = "load"]
            /\ table' = [table EXCEPT ![Main] = t]
            /\ UNCHANGED <<dir, next, fresh, old>>
    /\ UNCHANGED <<disk, db, heads, hold, consuming, answers>>

StartServing ==
    /\ pc[Main] = "scan"
    /\ unscanned = {}
    /\ pc' = [pc EXCEPT ![Main] = "serving"]
    /\ UNCHANGED <<disk, db, heads, hold, consuming, unscanned, locals,
                   answers>>

-----------------------------------------------------------------------------
(* ReloadTable, in an admin thread.                                        *)

(* A command arrives; the history variable starts with what the table      *)
(* directory resolves to now.                                              *)
ReloadCommand(r, t) ==
    /\ pc[r] = "idle"
    /\ pc' = [pc EXCEPT ![r] = "look"]
    /\ table' = [table EXCEPT ![r] = t]
    /\ reply' = [reply EXCEPT ![r] = "none"]
    /\ since' = [since EXCEPT ![r] = {active[t]} \ {Nothing}]
    /\ UNCHANGED <<disk, db, heads, hold, consuming, unscanned, dir, next,
                   fresh, old>>

(* The first lookup in heads_: an unknown table is opened like a new one,  *)
(* and refused when its directory does not exist.                          *)
ReloadLookup(r) ==
    /\ pc[r] = "look"
    /\ IF live[table[r]] = Nothing /\ active[table[r]] = Nothing
       THEN Return(r, "err")
       ELSE /\ pc' = [pc EXCEPT ![r] = IF live[table[r]] = Nothing
                                       THEN "load" ELSE "reload"]
            /\ UNCHANGED <<locals, answers>>
    /\ UNCHANGED <<disk, db, heads, hold, consuming, unscanned>>

ReloadSerialFree(t) ==
    \A r \in Reloaders : table[r] = t => pc[r] \notin InsideReload

(* Mutant: every reload opens the staging key.                             *)
AlwaysStaging(t) == "staging"

NextKey(t) == IF stagingIsLive[t] THEN "primary" ELSE "staging"

(* Under reload_serial: pick the other key, resolve the table directory,   *)
(* and for the staging key replace its link by one to what comes out: a    *)
(* build or, in a gap of the operator's relink, the table directory.       *)
ReloadPrepare(r) ==
    LET t == table[r]
    IN  /\ pc[r] = "reload"
        /\ ReloadSerialFree(t)
        /\ next' = [next EXCEPT ![r] = NextKey(t)]
        /\ dir' = [dir EXCEPT ![r] = Canonical(t)]
        /\ link' = IF NextKey(t) = "staging"
                   THEN [link EXCEPT ![t] = Canonical(t)] ELSE link
        /\ pc' = [pc EXCEPT ![r] = "reopen"]
        /\ UNCHANGED <<active, db, heads, hold, consuming, unscanned, table,
                       fresh, old, answers>>

(* weakly_canonical fails, as when the directory goes while it resolves it, *)
(* or the link cannot be made after the old one was removed.               *)
ReloadPrepareFails(r) ==
    LET t == table[r]
    IN  /\ pc[r] = "reload"
        /\ ReloadSerialFree(t)
        /\ link' \in {link, IF NextKey(t) = "staging"
                            THEN [link EXCEPT ![t] = Nothing] ELSE link}
        /\ Return(r, "err")
        /\ UNCHANGED <<active, db, heads, hold, consuming, unscanned>>

(* What the path of the next key resolves to when the engine opens it.     *)
NextTarget(r) == IF next[r] = "staging"
                 THEN Named(table[r], link[table[r]])
                 ELSE active[table[r]]

ReloadOpen(r) ==
    /\ pc[r] = "reopen"
    /\ ReopenIndex(table[r], next[r], NextTarget(r))
    /\ pc' = [pc EXCEPT ![r] = "rebuild"]
    /\ UNCHANGED <<disk, heads, hold, consuming, unscanned, locals,
                   answers>>

(* Mutant: the link goes with either key.                                  *)
DropLinkAlways(r, k) == link' = [link EXCEPT ![table[r]] = Nothing]

DropLink(r, k) ==
    link' = IF k = "staging" THEN [link EXCEPT ![table[r]] = Nothing]
                             ELSE link

(* Mutants: a failed reload closes the live key, leaves the next one       *)
(* registered, or may still fail when the consumer already runs.           *)
AbortClosesLive(r) ==
    /\ pc[r] \in {"reopen", "rebuild"}
    /\ CloseIndex(table[r], Other(next[r]))
    /\ DropLink(r, next[r])
    /\ Return(r, "err")
    /\ UNCHANGED <<active, heads, hold, consuming, unscanned>>

AbortKeepsKey(r) ==
    /\ pc[r] \in {"reopen", "rebuild"}
    /\ DropLink(r, next[r])
    /\ Return(r, "err")
    /\ UNCHANGED <<active, db, heads, hold, consuming, unscanned>>

AbortAfterBuild(r) ==
    /\ pc[r] \in {"reopen", "rebuild", "swap"}
    /\ CloseIndex(table[r], next[r])
    /\ DropLink(r, next[r])
    /\ Return(r, "err")
    /\ UNCHANGED <<active, heads, hold, consuming, unscanned>>

(* The open throws, or the engine has no index or schema: the next key is  *)
(* closed and its link removed, the table keeps its slot.                  *)
ReloadAborts(r) ==
    /\ pc[r] \in {"reopen", "rebuild"}
    /\ CloseIndex(table[r], next[r])
    /\ DropLink(r, next[r])
    /\ Return(r, "err")
    /\ UNCHANGED <<active, heads, hold, consuming, unscanned>>

ReloadBuild(r) ==
    /\ pc[r] = "rebuild"
    /\ BuildSlotAfterOpen(r, next[r], "swap")
    /\ UNCHANGED <<disk, db, heads, hold, unscanned, answers>>

(* The consumer's std::thread cannot be created: key and link stay.        *)
ReloadThrows(r) ==
    /\ "spawn" \in Faults
    /\ pc[r] = "rebuild"
    /\ NamesTopic(r)
    /\ Return(r, "err")
    /\ UNCHANGED <<disk, db, heads, hold, consuming, unscanned>>

ReloadSwap(r) ==
    LET t == table[r]
    IN  /\ pc[r] = "swap"
        /\ live' = [live EXCEPT ![t] = fresh[r]]
        /\ stagingIsLive' = [stagingIsLive EXCEPT ![t] = next[r] = "staging"]
        /\ old' = [old EXCEPT ![r] = live[t]]
        /\ fresh' = [fresh EXCEPT ![r] = Nothing]
        /\ pc' = [pc EXCEPT ![r] = "stop"]
        /\ UNCHANGED <<disk, db, hold, consuming, unscanned, table, dir, next,
                       answers>>

(* Mutant: the old consumer is not stopped.                                *)
StopForgotten(r) ==
    /\ pc[r] = "stop"
    /\ pc' = [pc EXCEPT ![r] = "drain"]
    /\ UNCHANGED <<disk, db, heads, hold, consuming, unscanned, locals,
                   answers>>

(* KafkaSource::Stop joins the consumer thread of the old slot.            *)
ReloadStop(r) ==
    /\ pc[r] = "stop"
    /\ consuming' = consuming \ {old[r]}
    /\ pc' = [pc EXCEPT ![r] = "drain"]
    /\ UNCHANGED <<disk, db, heads, hold, unscanned, locals, answers>>

(* Mutants: the drain loop is dropped, or waits for use_count() == 0.      *)
NotDrained(r) == TRUE
DrainedToZero(r) == FALSE

(* old_sp.use_count() is 1: no handle refers to the old slot any more.     *)
Drained(r) == \A c \in Clients : hold[c] # old[r]

ReloadFinish(r) ==
    /\ pc[r] = "drain"
    /\ Drained(r)
    /\ CloseIndex(table[r], Other(next[r]))
    /\ DropLink(r, Other(next[r]))
    /\ Return(r, "ok")
    /\ UNCHANGED <<active, heads, hold, consuming, unscanned>>

-----------------------------------------------------------------------------
(* RPC threads.                                                            *)

Acquire(c, t) ==
    /\ pc[Main] = "serving"
    /\ hold[c] = Nothing
    /\ live[t] # Nothing
    /\ hold' = [hold EXCEPT ![c] = live[t]]
    /\ UNCHANGED <<disk, db, heads, consuming, unscanned, pc, locals,
                   answers>>

Release(c) ==
    /\ hold[c] # Nothing
    /\ hold' = [hold EXCEPT ![c] = Nothing]
    /\ UNCHANGED <<disk, db, heads, consuming, unscanned, pc, locals,
                   answers>>

-----------------------------------------------------------------------------
LoadStep(th) ==
    \/ LoadBegin(th)
    \/ LoadOpen(th)
    \/ LoadOpenFails(th)
    \/ LoadCanonical(th)
    \/ LoadBuild(th)
    \/ LoadAborts(th)
    \/ LoadThrows(th)
    \/ LoadInsert(th)

ReloadStep(r) ==
    \/ ReloadLookup(r)
    \/ ReloadPrepare(r)
    \/ ReloadPrepareFails(r)
    \/ ReloadOpen(r)
    \/ ReloadAborts(r)
    \/ ReloadBuild(r)
    \/ ReloadThrows(r)
    \/ ReloadSwap(r)
    \/ ReloadStop(r)
    \/ ReloadFinish(r)

Next ==
    \/ Crash
    \/ \E t \in Tables, b \in Dirs : Repoint(t, b)
    \/ \E t \in Tables : ScanEntry(t)
    \/ StartServing
    \/ \E th \in Threads : LoadStep(th)
    \/ \E r \in Reloaders, t \in Tables : ReloadCommand(r, t)
    \/ \E r \in Reloaders : ReloadStep(r)
    \/ \E c \in Clients, t \in Tables : Acquire(c, t)
    \/ \E c \in Clients : Release(c)

Spec == Init /\ [][Next]_vars
-----------------------------------------------------------------------------
(* What the registry promises (TableService), with the indexes it speaks   *)
(* of being the mappings under their DB keys.                              *)

IndexOf(s) == IF s = Nothing THEN Nothing
              ELSE [table |-> s.table, key |-> s.key, ptr |-> s.ptr,
                    build |-> s.build]
IndexAt(t, k) == [table |-> t, key |-> k, ptr |-> db[t][k].ptr,
                  build |-> db[t][k].build]

Service == INSTANCE TableService WITH
    Indexes <- Index,
    None <- Nothing,
    current <- [t \in Tables |-> IndexOf(live[t])],
    pinned <- [c \in Clients |-> IndexOf(hold[c])],
    mapped <- {IndexAt(e[1], e[2]) : e \in Registered}

(* The registry implements TableService: requests only ever work on a      *)
(* mapped index, and from its first load on a table always has one.        *)
ImplementsService == Service!Spec

-----------------------------------------------------------------------------
(* Properties.                                                             *)

TypeOK ==
    /\ active \in [Tables -> Dirs]
    /\ link \in [Tables -> Paths]
    /\ db \in [Tables -> [Keys -> Mapping \cup {Nothing}]]
    /\ live \in [Tables -> Slot \cup {Nothing}]
    /\ stagingIsLive \in [Tables -> BOOLEAN]
    /\ hold \in [Clients -> Slot \cup {Nothing}]
    /\ consuming \in SUBSET Slot
    /\ unscanned \in SUBSET Tables
    /\ pc \in [Threads -> Labels]
    /\ table \in [Threads -> Tables \cup {Nothing}]
    /\ dir \in [Threads -> Paths]
    /\ next \in [Threads -> Keys]
    /\ fresh \in [Threads -> Slot \cup {Nothing}]
    /\ old \in [Threads -> Slot \cup {Nothing}]
    /\ reply \in [Reloaders -> {"none", "ok", "err"}]
    /\ since \in [Reloaders -> SUBSET Builds]

(* A request in flight never works on an unmapped index: while a handle    *)
(* holds a slot, ReloadTable does not CloseIndex that slot's mapping.      *)
HandleIsMapped == \A c \in Clients : hold[c] # Nothing => Mapped(hold[c])

(* "There is no window where the table has no index": the slot that new    *)
(* requests get points into the mapping registered under its key.          *)
LiveIsMapped == \A t \in Tables : live[t] # Nothing => Mapped(live[t])

(* A KafkaSource thread is joined before the index it writes is closed.    *)
ConsumerIsMapped == \A s \in consuming : Mapped(s)

(* The thread that is loading or reloading table t, if there is one.       *)
Busy(t) == \E th \in Threads :
              table[th] = t /\ pc[th] \in InsideLoad \cup InsideReload

(* Between reloads a table has one consumer at most, that of its slot: no  *)
(* path through LoadTable or ReloadTable forgets to stop one.              *)
QuietTableHasOneConsumer ==
    \A s \in consuming : Busy(s.table) \/ s = live[s.table]

(* Between reloads a table has no mapping but the one its slot uses, so    *)
(* reloads do not pile up arenas.  Holds unless thread creation fails,     *)
(* when BuildSlotAfterOpen's exception skips every CloseIndex.             *)
QuietTableHasOneMapping ==
    \A t \in Tables, k \in Keys :
        db[t][k] # Nothing /\ ~Busy(t) => live[t] # Nothing /\ live[t].key = k

(* While the staging key is live its link on disk, the slot's config       *)
(* directory and what is mapped belong together, whatever is repointed,    *)
(* fails or crashes: link and config directory are the build that is       *)
(* mapped, unless the table directory was gone when the reload resolved    *)
(* it, and then both are the table directory and follow it.                *)
StagingLinkNamesSlotDir ==
    \A t \in Tables :
        live[t] # Nothing /\ stagingIsLive[t] =>
            link[t] = live[t].dir /\ live[t].dir \in {live[t].build, TableDir}

(* A reload that swaps publishes a build the table directory resolved to   *)
(* at some moment since the command, never an older registration, and      *)
(* reads table.json and kafka.offset in such a one or in the table         *)
(* directory itself.                                                       *)
ReloadServesActive ==
    \A r \in Reloaders :
        pc[r] \in AfterSwap =>
            /\ live[table[r]].build \in since[r]
            /\ live[table[r]].dir \in since[r] \cup {TableDir}

(* tools/artifact_sync/README.md promises that after a reload command new  *)
(* RPCs use the new mapping: an "ok" means that the table serves a build   *)
(* its directory resolved to since the command.  A hot open that finds the *)
(* table loaded meanwhile by the startup scan answers ok without looking.  *)
ReloadOkServesActive ==
    [][\A r \in Reloaders :
          reply[r] = "none" /\ reply'[r] = "ok" =>
              live'[table[r]].build \in since[r]]_vars

(* kafka_source.h calls the consumer single-threaded, and one kafka.offset *)
(* belongs to one consumer.  A reload starts the new slot's consumer       *)
(* before it stops the old one, in the same directory when the table       *)
(* directory did not change.                                               *)
OneConsumerPerOffsetFile ==
    \A s, u \in consuming : s.table = u.table /\ s.dir = u.dir => s = u

(* With exclusive_arena_lock no two consumers write one index: a reload of *)
(* the build that is served is refused, and a consumer is stopped before   *)
(* its arena is given up and can be opened again.                          *)
OneConsumerPerArena ==
    ExclusiveArena => \A s, u \in consuming : s.build = u.build => s = u

(* Every reload command is answered, given that requests end.              *)
ReloadIsAnswered == \A r \in Reloaders : pc[r] = "look" ~> pc[r] = "idle"
-----------------------------------------------------------------------------
(* The inductive invariant.                                                *)

(* load_table_mu_ and reload_serial exclude.                               *)
Mutexes ==
    /\ \A a, b \in Threads :
          pc[a] \in InsideLoad /\ pc[b] \in InsideLoad => a = b
    /\ \A a, b \in Reloaders :
          /\ pc[a] \in InsideReload
          /\ pc[b] \in InsideReload
          /\ table[a] = table[b]
          => a = b

(* A thread at work has a table, which is loaded before a reload and is    *)
(* not while LoadTable holds its mutex.                                    *)
Commands ==
    \A th \in Threads :
        /\ pc[th] \in {"scan", "serving"} => th = Main
        /\ pc[th] \in {"idle", "look", "reload"} \cup InsideReload => th # Main
        /\ pc[th] \in {"look", "load"} => table[th] # Nothing
        /\ pc[th] \in InsideLoad =>
              table[th] # Nothing /\ live[table[th]] = Nothing
        /\ pc[th] \in {"reload"} \cup InsideReload =>
              table[th] # Nothing /\ live[table[th]] # Nothing

LiveSlots ==
    \A t \in Tables :
        live[t] # Nothing =>
            /\ live[t].table = t
            /\ Mapped(live[t])
            /\ live[t].key = IF stagingIsLive[t] THEN "staging" ELSE "primary"

(* Between OpenIndex and the publication of the slot made from it, the key *)
(* is registered, is not the live one, and is what the new slot points to. *)
FreshSlot(th) ==
    LET t == table[th]
        s == fresh[th]
    IN  /\ pc[th] \in {"canonical", "build"} => db[t]["primary"] # Nothing
        /\ pc[th] \in BeforeSwap => live[t].key # next[th]
        /\ pc[th] = "rebuild" => db[t][next[th]] # Nothing
        /\ pc[th] \in {"insert", "swap"} =>
              /\ s # Nothing
              /\ s.table = t
              /\ s.key = IF pc[th] = "insert" THEN "primary" ELSE next[th]
              /\ Mapped(s)

FreshSlots == \A th \in Threads : FreshSlot(th)

(* After the swap the previous slot stays mapped under the other key.      *)
OldSlot(r) ==
    pc[r] \in AfterSwap =>
        /\ old[r] # Nothing
        /\ old[r].table = table[r]
        /\ old[r].key # next[r]
        /\ live[table[r]].key = next[r]
        /\ Mapped(old[r])

OldSlots == \A r \in Reloaders : OldSlot(r)

(* A handle is on the live slot or on one a reload waits for.              *)
Handles ==
    \A c \in Clients :
        hold[c] # Nothing =>
            \/ hold[c] = live[hold[c].table]
            \/ \E r \in Reloaders : pc[r] \in AfterSwap /\ old[r] = hold[c]

(* A consumer belongs to the live slot, to one that is about to be live,   *)
(* or to one whose reload has yet to stop it.                              *)
Consumers ==
    \A s \in consuming :
        \/ s = live[s.table]
        \/ \E th \in Threads : pc[th] \in {"insert", "swap"} /\ fresh[th] = s
        \/ \E r \in Reloaders : pc[r] = "stop" /\ old[r] = s

IInv == /\ TypeOK
        /\ Mutexes
        /\ Commands
        /\ LiveSlots
        /\ FreshSlots
        /\ OldSlots
        /\ Handles
        /\ Consumers
=============================================================================
