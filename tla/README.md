# TLA+ models of yikv-server

Models of the concurrent and fault-prone parts of yikv-server, the TLC runs that
check them on small instances, and TLAPS proofs of the properties that matter
most for every instance. Paths below are relative to the repository root; the
C++ code is under `src/`, the Python tools under `tools/`.

## 1. The system

yikv-server serves key-value tables over brpc and gRPC. A table is an index of
the yikv storage engine (a memory-mapped arena in a directory); it is built
offline, copied to the online host and hot-swapped into the running server,
which also applies a Kafka stream of incremental changes to it.

| Component | State | Operations |
|---|---|---|
| **TableRegistry** `src/yikv_server/table_registry.{h,cc}` | `heads_`: per table the live `TableSlot`, `staging_is_live`, `reload_serial`; the engine's map from DB key to mapping; the link `<table>~reload` in `db_path` | `ScanAndLoad`, `LoadTable`, `ReloadTable`, `Acquire`, dropping a `TableHandle` |
| **main and admin socket** `main.cc`, `admin_unix_socket.cc` | where the main and admin threads are | start the admin thread, scan, serve; one `reload <table>` at a time |
| **KafkaSource** `kafka/kafka_source.{h,cc}` | position in the partition, `stop_`, the file `kafka.offset` | `Start`, `Stop`, `LoadOffset`, `SaveOffset`, `ConsumeLoop` |
| **Stream ingest** `stream/json_stream_ingest.cc` | the rows of an index | insert, upsert merge, delete of one JSON object |
| **RPC handlers** `db/handlers.cc` | a handle per request; `write_mu` of the slot | `HandleGet`, `HandleBatchGet`, `HandlePut`, `HandlePutBatch` |
| **Import pipeline** `import_pipeline_main.cc`, `indexer/` | the index directory and its meta, `BoundedParsedBatchQueue`, `ErrorState`, `next_file_`, the index under construction | `--recreate`, sizing and creating or opening the index, joins and `PersistIndexMeta` in `main`; `FileSource::ProduceLoop` in the I/O threads; `RunKvWriteLoop` in the writer |
| **MySQL source** `indexer/source/sql/` | `consumed_`, builders of the current batch | `ProduceLoop`, `FlushBatch` |
| **Import catch-up** `kafka/kafka_import_catchup.cc` | position, end-of-partition flag, deadline, `kafka.offset`, `kafka_meta.json` | one pass over the partition from a watermark |
| **artifact_sync** `tools/artifact_sync` | the artifact store, the build directories of a release root, the link `active` | push, pull (with prune), switch |
| **Pipeline agent** `tools/pipeline_agent` | `_import_lock`, `BUILD_DB`, release roots, `SERVER_DB/<table>` links | build, push, publish, pull, deploy, switchReload |
| **Load generator** `bench_main.cc` | the atomics of `BenchStats`, the stop flag, the deadline, the latencies each worker keeps | worker loop, wait for the cap or the deadline, report |

Configuration, row conversion, RPC adapters, generated code and vendored headers
keep no state of their own. The storage engine (`yikv::db::DB`,
`yikv::index::KVIndex`) is in another repository and is modelled as external,
from how this code uses it.

**How the parts interact.** The agent builds an index with the import pipeline,
pushes it to the store, pulls it on the online host, repoints `active` and the
table link, and sends `reload <table>` to the admin socket. The admin thread
runs `ReloadTable`, which opens the new build under the other of the table's two
DB keys, starts its Kafka consumer, swaps the slot, stops the old consumer,
waits until nobody holds the old slot, and closes the old key. RPC threads call
`Acquire` at any moment of this and keep the slot alive by a `shared_ptr`. The
consumer and the RPC writers mutate one index. `kafka.offset` in the build
directory is written by the catch-up of the import and then by the consumer.

**What is hard.** Swaps under concurrent requests; a reload that fails half-way;
a reload of a table that the startup scan is loading; crashes that leave a
staging link or an empty offset file; the replay after a restart; two threads
that write one index; threads that wait for each other around a bounded queue
when one of them fails; directories that several processes repoint. The
`hazards` of `PROJECT.json` list these at their lines, with the properties that
cover them.

**What makes each component correct.**

- Registry: nobody uses an unmapped index; a loaded table always has one; a
  reload publishes what the table directory points at; with the arena lock an
  arena has one consumer; a failed reload leaves nothing behind; every command
  is answered.
- Consumer, as long as the consumers of an index follow one another: the saved
  offset never runs ahead of what was applied; replays end in the table that one
  application of each message gives; it catches up.
- RPC writers: batches are isolated from each other and a rejected one puts
  nothing.
- Import: it always ends, the sizing loop included; no thread waits on the queue
  for a notify that does not come; the hash table it creates has room for the
  rows it expects; an index it created becomes servable only when it is
  complete; chunks are neither lost, repeated nor reordered (rows without a
  primary key are left out of them and counted).
- Catch-up: the consumer resumes where the catch-up ended.
- Release tree and agent: a deploy that ran by itself and answers ok, by a
  reload that looked at the table directory, is what `active` names, and the
  server serves no other build, whatever came before it; a publish stores the
  index it built; a pull leaves at most the kept number of builds, and the build
  that `active` names goes only when as many newer ones as are kept have pushed
  it out.
- Load generator: a run makes at most one call per other worker more than
  `--requests`; its report adds up and says when latencies are missing; it ends.

## 2. Modules

| Module | Models | Kind |
|---|---|---|
| `TableService` | what the registry promises to requests | abstract |
| `Registry` | registry, admin threads, startup, operator | detailed, implements `TableService` |
| `MCRegistry` | symmetry and fairness for TLC | |
| `RegistryProofs` | the registry's inductive invariant and its consequences | proofs |
| `RegistryReloadProofs` | that `Registry` implements `TableService`; what a reload serves, leaves behind and waits for | proofs |
| `ImportJob` | what an import promises | abstract |
| `ImportPipeline` | file and MySQL sources, queue, writer, `main` | detailed, implements `ImportJob` |
| `ImportPipelineProofs` | types, the size of a new index, completeness of a servable one, the waits on the queue, that `ImportPipeline` implements `ImportJob` | proofs |
| `MCImportPipeline` | sizes of the input files | |
| `StreamMerge` | one JSON object, one message, on the rows of a table | operators |
| `TableWriters` | one index: the catch-up of its import, then its consumer and RPC writers | detailed, uses `StreamMerge` |
| `MCTableWriters` | a topic, an imported table, RPC requests | |
| `TableWritersProofs` | types, the safety of `kafka.offset`, isolation of batches; the recursions over the topic | proofs |
| `ReplayProofs` | that replays converge and that stops replay nothing | proofs |
| `ArtifactSync` | the processes of artifact_sync over store and release directory | detailed |
| `PipelineAgent` | the agent's routes, `ArtifactSync` under them, and the server's answers | composition |
| `MCPipelineAgent` | symmetry of the request threads | |
| `PipelineAgentProofs` | types, what a publish stores, what a deploy serves | proofs |
| `ReleaseProofs` | what a pull that ran by itself leaves of the release directory | proofs |
| `LoadGenerator` | one run of the load generator | detailed |
| `LoadGeneratorProofs` | types, the bound of the overshoot, the report, why a run leaves its poll | proofs |

### Registry

A table owns two DB keys, `primary` (its name) and `staging` (`<name>~reload`).
`db[t][k]` is the mapping registered under a key (an address and the build it
maps), `active[t]` what the table directory resolves to, `link[t]` the staging
link. A slot carries the mapping behind its `kv` and `schema` pointers and the
directory of its `table.json` and `kafka.offset`. `hold[c]` is the slot a
request's handle keeps alive, `consuming` the slots whose consumer runs. Each
thread has a program counter and the locals of `LoadTable` and `ReloadTable`.

One action stands for the code between two points at which another thread can
see or change something:

| Code | Actions |
|---|---|
| `ScanAndLoad`, `main` | `ScanEntry`, `StartServing` |
| `LoadTable` | `LoadBegin`, `LoadOpen` / `LoadOpenFails`, `LoadCanonical`, `LoadBuild` / `LoadThrows`, `LoadInsert`, `LoadAborts` |
| `ReloadTable` | `ReloadCommand`, `ReloadLookup`, `ReloadPrepare` / `ReloadPrepareFails`, `ReloadOpen`, `ReloadBuild` / `ReloadThrows`, `ReloadAborts`, `ReloadSwap`, `ReloadStop`, `ReloadFinish` |
| `Acquire`, end of a handle | `Acquire`, `Release` |
| agent's relink, artifact_sync's switch | `Repoint`, to another build or, between unlink and symlink, to nothing |
| process death | `Crash` (fault), `LoadThrows` in the main thread |

The mutexes are guards on the other threads' program counters. `DB::OpenIndex`
returns at once for a registered key, as the comment at `table_registry.cc:235`
says, and maps the directory otherwise, unless `exclusive_arena_lock`
(`ExclusiveArena`, on by default) finds the arena mapped already (`Locked`);
`DB::CloseIndex` unmaps. A thread that cannot be created (`"spawn"`) throws out
of `BuildSlotAfterOpen`, where nothing catches it short of the admin loop.
`fs::weakly_canonical` does not fail on a table directory that is missing for a
moment: it returns the path itself. `Canonical` is the build that the directory
leads to or, in the gap of a relink, `TableDir`, the path `db_path/<table>`
unresolved. A staging link or config directory that is `TableDir` follows every
later relink (`Named`); the open fails when there is still nothing behind it,
and succeeds when the link is back.

### ImportPipeline

`main` acts alone until it starts the threads: it removes the index directory
(`Recreate`), takes the number of rows from a query or from a flag
(`EstimateRows`), doubles a bucket counter of limited width until it reaches it
(`DoubleBuckets`, `Size`), and creates the index or opens the one that is there
(`CreateIndex`, `OpenIndex`, `IndexFails`). `dir` says whose index is in the
directory and `meta` whether `PersistIndexMeta` has made it servable; an import
into the index of an earlier one finds the meta of that one. `Wrap` is where the
counter wraps, 2^64 in the code, and `MaxBits` the code's limit of 28 bits.

`queue`, `eos` and `aborted` are `BoundedParsedBatchQueue`; each condition
variable is the set of the threads that wait on it, and a waiting thread takes
no step before a notify, so a missing notify is a thread that sleeps for ever.
`failed` is `ErrorState`. A worker is at one of the points of
`FileSource::ProduceLoop` and the readers; the error flag is set before the
queue is aborted, in two steps, as in the code. The writer puts a batch chunk by
chunk; a chunk that does not convert is not put, the ones before it stay. An
exception of `BatchPut` leaves the writer thread and kills the process.

`source` says which `Source` the import has. With a MySQL query, all workers
call `ProduceLoop` and `ClaimQuery` lets one of them go on (`consumed_`); it
pushes its batches without the validation of the file readers, leaves after a
push that finds an error (`Pushed`), and flushes the rows it has when it sees
the error before a fetch (`FlushRest`).

### StreamMerge and TableWriters

A row has one scalar and one array field, which is what the merge rules tell
apart; an object is an upsert, an insert, a delete, one that is logged and
skipped, or one that throws. `TableWriters` applies messages object by object,
and a merge in two steps, `MergeItem` (get and merge) and `WriteItem` (put), for
an RPC writer can act between them. `SaveOffset` is two steps, `Truncate` and
`Save`, as the file is empty in between. `Crash` keeps the rows, which are in a
mapped file, and the offset file, and loses everything else. A stop is the flag
and the loop's next look at it. A consumer whose set-up fails (`"setup"`:
configuration, topic or partition) ends its thread, `StartFails`, and is `dead`
until it is stopped and started again. RPC writers take `write_mu`, convert all
rows, then put them one by one; `HandlePut` is the batch of one row. `PutsUntil`
bounds the instance: requests arrive only while the topic has at most that many
messages.

The consumers of an index follow one another in this module: `StopConsumer` and
`Joined` come before the next `Start`. That is what a server does that is shut
down (`~TableRegistry`) or killed and started again, and a reload to another
build and later back: the old slot's consumer is joined and its arena closed
before that arena is opened again. `ReloadTable` starts the new slot's consumer
(line 246) before it stops the old one (263); when both are on one directory
they overlap. With `exclusive_arena_lock`, which is on by default, that reload
is refused before it starts a consumer: `Registry` checks and proves it as
`OneConsumerPerArena`. Without the lock it is finding 2 of section 5, and
nothing that `TableWriters` says holds of the overlap: messages can then be
applied twice without a crash. Also outside are the slots whose config directory
is not the build they map (section 5), where the number in `kafka.offset` is
that of another consumer. An index is served at once, or its import still has
the Kafka catch-up to do (`phase`). `Before` is the table that the export
started from. `AppliedItems[n]` is the sequence of items that the first n
messages apply, each up to the item that throws, `RowsAfter[i]` the table after
the first i of them, and `TableAfter(n)` the table after n messages, each
applied once; the properties compare with it. The imported table is the one of
the first `Included` messages and the import's `watermark` is at most that far,
as data exported later than the watermark may include messages after it. `Seek`
is `offsets_for_times` and its sentinels; the catch-up then shares the actions
of the consumer that apply a message, since `RunKafkaImportCatchup` and
`ConsumeLoop` have the same body, but saves only when it ends (`CatchUpEnds`:
end of partition or the time limit, in either case between messages). A consume
error, a file that does not open, of `kafka.offset` or of `kafka_meta.json`, or
a crash ends the import without a server.

`Faults` turns on crashes, a file that does not open (`"open"`) or does not take
the number (`"disk"`), errors of the catch-up (`"kafka"`), and the use of a
payload after its message was destroyed (`"freed"`), which may read as no JSON
or as another message.

### ArtifactSync and PipelineAgent

One table, the local provider. A directory is the index it is a copy of, whether
it is whole, and who writes it; `store` and `release` map build ids to
directories, `active` and `tmp` are the two links of `_atomic_symlink`. A build
id is a number; `clock` separates the ids of one second from those of the next,
and `Allocated` takes the first of the second whose directory is not there yet,
so that two pushes can choose one id (`chosen` counts them, for the property).
`MaxBuild` bounds the indexes built (`Import`), `MaxEvents` the requests and
restarts; with as many build numbers left as there are requests, the first never
stops a build.

| Code | Actions |
|---|---|
| `cmd_push` | `PushResolve`, `PushReplace`, `PushCopy`, `PushCopied` |
| `cmd_pull` | `PullResolve`, `PullFetch`, `PullCopy`, `PullCopied`, `PullPrune`, `PullRemove`, `PullDone` |
| `cmd_switch` | `SwitchResolve` |
| `_atomic_symlink` | `UnlinkTmp`, `SymlinkTmp`, `ReplaceActive` |
| a killed process | `Killed` |
| agent: `buildIndex`, `publishIndex` | `Lock`, `Clear`, `Import`, `Imported` / `ImportFails`, then push under the lock |
| agent: every route that runs artifact_sync | `Request`, `RunSync`, `SyncEnds` |
| agent: `link_server_table`, `send_reload` | `UnlinkTable`, `SymlinkTable`, `SendReload`, `Reload` / `ReloadTimesOut` |
| server: `ReloadTable`, `LoadTable` | `Reload` with the answers ok, blind or failed, `LateReload` after a timeout |
| server: start, `ScanAndLoad` | `RestartServer`, `ScanOpens`, `ScanEnds` |

`copytree` is two steps, making the directory and finishing it; what a copy
leaves when its source or target was changed under it is any of the outcomes
`EndCopy` lists. A link `active.tmp` to a build counts as a version
(`Versions`), as `_local_version_names` and the prune exclude `active` only: one
that a killed switch left takes one of the kept places.
The server is `Registry` seen from outside, for its one table. `ReloadTable`
serves what the table directory leads to, or fails and serves what it served
(`Reopen`); of a table that is not served it is a hot open (`HotOpen`), which
takes what is registered under the name when something is (`OpenedByName`), as
after a hot open whose consumer thread could not be created. A start is several
steps, for the admin socket answers before `ScanAndLoad` (`main.cc:57`):
`RestartServer`, then reloads may come, then `ScanOpens` opens what the
directory leads to, and `ScanEnds` serves it. A reload that comes while the scan
has the table in hand answers with the scan's result and has not looked at the
directory; the request's `pc` is then `"blind"` and not `"ok"`, which is the
same answer to the caller and finding 1 of section 5. So is that of a hot open
that finds the name registered.

### LoadGenerator

A run has a number of calls or a duration (`mode`). Each load and each increment
of an atomic is a step, since that is where the workers can overtake each other:
a worker loads `ok` (`ReadOk`), then `rpc_err` (`ReadErr`), and calls when their
sum is below the cap; an answer counts `found` or `notFound` (`Answer`), then
keeps its latency or not and counts `ok` (`CountOk`). `main` polls the same two
counters (`Poll`, `PollEnds`) or sleeps until the deadline (`SleepDuration`),
sets `stop`, joins and reports. `ConnectFails` is a channel that does not
initialise: the worker sets `stop` and leaves. `MaxCalls` bounds the calls
before a deadline.

## 3. Runs

| Run | Bounds | Shows |
|---|---|---|
| `registry_reloaders` | one table, two builds (one with Kafka), two concurrent reloaders, two requests, three addresses, crashes and failing threads, no arena lock | the safety of the swap and the refinement of `TableService` |
| `registry_liveness` | the server's single admin thread, the arena lock, no faults | reloads are answered, one mapping between reloads, one consumer on an arena |
| `registry_hot_open` | one request | a reload racing the startup scan answers ok for the old build (finding) |
| `registry_same_build` | one request, no arena lock | two consumers on one `kafka.offset` (finding) |
| `import_files` | an index that is absent or of an earlier import, estimates up to a counter that wraps at 128 and a limit of 4 bits, two I/O threads, files of 2, 0 and 1 batches of 2 chunks or a query of 2, a queue whose capacity of zero is raised to one slot, every failure | termination, no lost notify, sizing, completeness, refinement of `ImportJob` |
| `stream_consumer` | three messages, one of them in the imported table, with and without catch-up, three crashes or stops of consumers that follow one another, failing saves and set-ups; two RPC threads with two of three batches over the same keys, which arrive before the second message | the safety of `kafka.offset`, convergence of replays, progress, isolation and all-or-nothing of batches |
| `stream_lost_update` | one message, one batch | a Put is lost under the consumer's merge (finding) |
| `stream_freed_payload` | one message | the offset of a message that was not applied is saved (finding) |
| `catchup_watermark` | the topic of `stream_consumer`, no faults | a catch-up with nothing after the watermark starts at the beginning (finding) |
| `release_deploys` | two request threads, three requests or restarts in all, two builds to start with, two kept, every fault, a server that starts in steps | what a deploy, a publish and a pull answer is true; the active build goes only for newer ones |
| `release_rollback` | one deploy, three builds, two kept | a rollback pull prunes the build it pulled (finding) |
| `bench_run` | three workers, a cap of two calls or two calls before the deadline, one latency kept per worker, channels that do not initialise | the overshoot, the report, the end of a run |

**Why the bounds are enough.** Tables share nothing in the registry but
`load_table_mu_` and `mu_`, which the second reloader and the scan contend for
on one table already. Two builds and two keys give every combination of an old
and a new mapping; three addresses let the old, the new and a leaked mapping
coexist. Two handles tell a drained slot from one with a second owner. In the
import, two workers and a queue of one slot reach every wait: a full queue with
one and with two waiters, an empty queue before and after the end of stream; the
empty file and the file of two batches are the boundary and the ordering case.
Three messages with a delete, an insert over a row and an insert after a delete
make replays of every suffix differ from a single pass unless the offset is
right; three restarts replay a replay. The requests meet the consumer before,
while and after it applies a message, and the messages after them still run
through every failure. A counter that wraps at 128 has estimates below, at and
above each power of two, above the limit of bits, and above half of the counter,
which is where the loop does not end; nothing depends on the width otherwise.
Three requests to the agent are two that overlap in any way, with their
failures, and one that follows and has to recover from what they left; a restart
of the server can take the place of one. Two builds at the start, of which the
older may be asked for, and up to three pushes make every pull prune. Three
workers and a cap of two let two workers be late with their calls at once; one
kept latency is dropped at the second call.

**Deadlock** is checked in the registry, import and load generator runs. The
registry can always take a step of the operator; in the import the only state
without a successor would be threads that all wait, for an ended process
stutters; so does an ended run of the load generator, whose workers never wait
for each other. The `TableWriters` runs turn the check off: a consumer that has
caught up waits for messages and the bounded topic has no more; so do the
agent's, where the requests run out.

**Fairness.** Threads that can run do run (`WF` on each thread's steps), the
mutexes included: a blocked thread's step is not enabled. RPC handlers return,
so `Release` is fair; requests, commands, the operator, crashes and faults are
not. For the import every thread is fair, and a reader that has a batch delivers
it. The consumer's fairness includes `Start`: a server that died or was shut
down is started again, and a reload that stopped the consumer is followed by one
back to its build; `ConsumerCatchesUp` excepts a consumer whose set-up failed,
until then. In the load generator every thread runs, a call ends at the latest
at brpc's timeout, and time passes; `RunEnds` excepts the state `Stranded` of
section 5. The agent's runs check safety only and need no fairness.

## 4. Proofs

`RegistryProofs` proves, for any tables, builds, requests, reloading threads and
faults, that `IInv` is an invariant of `Spec`, and from it `TypeOK`,
`HandleIsMapped`, `LiveIsMapped`, `ConsumerIsMapped` and
`QuietTableHasOneConsumer`. None of the latter is inductive: that closing a key
unmaps nothing in use depends on where every thread is. `IInv` adds that the
mutexes exclude (`Mutexes`), that a thread inside `ReloadTable` has a loaded
table and one inside `LoadTable` has not (`Commands`), that the live slot is
under the key that `staging_is_live` names (`LiveSlots`), that what a reload
opens is under the other key until the swap (`FreshSlots`), that the replaced
slot stays mapped under that other key until it has drained (`OldSlots`), and
where handles and consumers can be (`Handles`, `Consumers`). The step lemmas go
action by action; `Repoint` and the faults only touch the disk or drop
everything.

`RegistryReloadProofs` goes on from `IInv`. That `Registry` implements
`TableService` needs no more: a step that leaves slots and handles alone maps
and unmaps only what `IInv` says is not in use after it (`RemapStep`), the two
steps that publish a slot do so with its mapping registered (`PublishStep`), and
the other changes are those of a handle and of the process. Four properties need
more. For `ReloadServesActive`, `FInv` follows the build from the table
directory over the staging link and the engine to the new slot and keeps it
among those the directory resolved to since the command, also where the link is
the table directory itself, and the config directory among those and that path
(`Serves`); for `StagingLinkNamesSlotDir`, it has link and config directory the
same on the way, and the build that is mapped where that is not the table
directory (`LinkFollows`). Both rest on the fact that a reload in its critical
section is the only writer of its table's keys, link and slot
(`ReloadsUndisturbed`). For `OneConsumerPerArena`, the arena lock keeps what is
registered under different keys on different arenas (`ArenasApart`), and by
`IInv` every consumer is on a mapping that is registered under its slot's key.
For `QuietTableHasOneMapping`, `QInv` says that every registered key is the live
one or one that a thread still answers for (`Owned`), and that `LoadTable` comes
to its `OpenIndex` with nothing registered (`NothingYet`). This last theorem
assumes that `"spawn"` is not among the faults: an exception from thread
creation skips every `CloseIndex`.

`DrainHasNoNewcomers` is about `ReloadTable`'s wait for `use_count()`, the step
of a reload that has no time limit. After the swap the slot it waits for is not
the live one of any table (`LiveSlots`, `OldSlots`), so `Acquire` cannot return
it: a request that holds it after a step held it before. The wait is thus for
finitely many requests, each of which returns; that it ends then is
`ReloadIsAnswered`, which TLC checks.

`TableWritersProofs` proves `TypeOK` for any topic, rows and requests, whatever
the payloads read as, and, when payloads are intact, `OffsetCoversHandled`. The
invariant `Behind` says what has been handled at each point of the consumer's
loop, and of the catch-up before it: everything before the message at hand while
it is applied, that message as well once it is through. A crash or a failed save
can only make the file empty or leave an older number, both of which cover less.
`LastBatchStands` and `RejectedBatchPutsNothing` follow from `WInv`: who holds
`write_mu` is the one RPC thread that is not idle, it puts only requests whose
rows all convert (`Locked`), and until it puts its first row the last batch
stands, afterwards what it has put of its own (`Isolated`). The properties speak
of a table to which no message has been delivered, which the model reads off the
objects of the last message (`OnlyWriters`); so the theorems assume that
payloads are intact and that every message has an object.

`ReplayProofs` is about what consumers that follow one another make of the
table, also with intact payloads and until the first RPC put, which the
properties do not speak of. What the table should be is the recursive function
`RowsAfter`, over the items of all messages. `TableWritersProofs` proves what
such a definition needs: that a recursion over 0 .. n has a solution and only
one (`RecursionExists`, `RecursionUnique`), by looking for the least number that
has none, and from that the recursion equations of `AppliedItems` and
`RowsAfter` and that message n's items are where they should be
(`MessagesInOrder`). `Position` is how many items lie behind the consumer, or
behind the offset it would start from: at every step it applies the next item,
or the table stays and it goes back (`Proceeds`). `StopsAreExact` follows from
`Exact`: while no offset was lost, the table is `RowsAfter[Position]`, also
between the items of a message. `ReplayConverges` follows from `Converging`, and
is the harder one, for after a crash the table is that of no prefix of the
topic. It says of each key that either an item still to come deletes it, and
then it may be anything, or it is as if some more than the first `Position`
items had been applied (`Ahead`): it is there if it is there after those, with
the same scalar unless one that is to be replayed sets it, and with at least
their array elements. Going back keeps this, since everything that is replayed
was applied; the next item keeps it, since an upsert does the same to both rows
or is one the better row already has; and at the end nothing is to come. The
last step compares numbers of occurrences, which are cardinalities
(`OccurrencesAdd`).

`ImportPipelineProofs` proves for any files, batches, threads, capacities and
failures that the queue keeps its bound (`TypeOK`), that an index the import
created has a meta only when it is complete (`MetaMeansComplete`), and that the
pipeline implements `ImportJob`. Completeness is an account: as long as no error
is reported, every batch of a claimed file is still to be read by its worker, or
in the queue, or at the writer, or in the index (`Accounted`); when main
persists the meta no error has been reported, all workers and the writer have
been joined (`JoinedThreads`) and the writer left at the end of the stream with
the queue empty (`Calm`), so that only the index is left. `failed` is set before
the queue is aborted, which is why an abort cannot end the stream unnoticed.
Order is a second invariant: for each file there are n batches pushed and m of
them popped such that its worker is at the one after n (`ReadUpTo`), those after
m to n are in the queue in this order (`InQueue`), and the index has the chunks
of the first m in order, up to where the writer is (`InIndex`). No two workers
read one file (`Alone`).

`BucketsFitRows` is about the loop before all this. `Sized` says that the
counter is the power of two that the bits say, and that one bit less was too
few, or that the counter has wrapped to 0. The provers know nothing of `2 ^ n`;
the lemmas count sets of numbers instead, of which 1 .. n has that many
(`PowerCounts`), so that powers grow and double (`PowerGrows`, `PowerDoubles`).
That the counter's width is a power of two is an assumption of the module: with
any other width it could wrap to a number that is none.

`NobodyWaitsInVain` says that a producer waits only at a full queue that the
writer will still pop or that will be aborted, and the writer only at an empty
one whose end is still to come; so they never wait for each other. `Awaited`
adds what makes this inductive: who waits for room is at its push; the stream
ends after the last producer has been joined, or by an abort, which notifies
both sides; the writer leaves, and `main` joins it, only after that end.

`PipelineAgentProofs` proves for any request threads, build ids, requests and
failures `TypeOK`, `PublishOkIsItsBuild` and `DeployOkIsServed`. For a publish
the invariant (`Publishing`) follows the index from the import to the store: the
lock is held from the clearing of the index to the end of the push (`LockHeld`),
so that the source stays the index this request built; two pushes that claim one
id are both counted in `chosen` (`Counted`), so that with a count of one nobody
else removes, copies or leaves that directory, and the copy is the request's own
until it is whole (`Published`). For a deploy it follows the links (`Linked`):
whoever runs alone finds `active.tmp` as it made it, so `active` becomes its
build, the table directory is linked before the reload is sent, and what the
server opens from then on is what they lead to, in this reload, a late one or a
start. What the server had open before is the difficulty: an ok that is not
blind leaves nothing else registered, for a table that is served has nothing
open beside it and the scan has opened nothing while it is not at the table
(`Starting`); from then on every build that is opened or served is the deployed
one (`ServerMoves`). That one is served unless the server is starting again or
has failed to load it. A blind ok promises nothing about the server, deploys
that overlap get no such promise either, and the run checks neither.

`ReleaseProofs` counts what the prune of a pull leaves. `PullInv` follows a pull
that runs by itself (`Pruned`): before the prune its build is there; while the
victims are removed, what will be left is settled, that is, at most `Keep`
builds and one that is not older than the pull's own unless a single one is
kept, and for every victim at least `Keep` greater names stay (`Justified`);
afterwards the directory is settled until the answer. That the prune's choice
does this, with a leftover `active.tmp` among the names, is a matter of
cardinalities: the kept names are the greatest of a finite set, and what must be
kept replaces the least of them. `PullKeepsNewest` is `Settled` at the answer;
for `ActiveYieldsToNewer`, a step takes a build out of the directory only as the
victim of such a prune or to copy it again with `--force` (`Released`).

`LoadGeneratorProofs` proves `TypeOK` and `OvershootIsBounded` for any workers
and any cap. A worker is late when it will still count a call without another
look at the sum: it is in the call, or has loaded an `ok` that stays below the
cap with the present `rpc_err`. Once the counters are at the cap no worker
becomes late any more, and `RoomForLate` says that the counters and the late
workers together stay below the cap plus the number of workers: a call that is
counted moves one from the second to the first. For `ReportIsExact`, `Counted`
accounts for the calls between two counters: a worker that has counted a
response as ok and not yet as found or not found is `Answering`, and there are
as many of them as the counters differ; `main` has read the cap (`Polled`) and
joined every worker before it sums up (`Final`). `NobodyLeavesEarly` and
`OnlyChannelsStrand` show that the failed channel of section 5 is the only way
into `Stranded`. They assume that every channel initialises (`"init"` is not
among the faults); then a sum that a worker has read is at most what the
counters are now, for they only grow, and whoever leaves or stops the others has
seen the cap reached (`LeaveAtCap`), so that `main` sees it as well.

The assumptions are those of the modules' `ASSUME`s, which TLC evaluates in the
runs: names are distinct from each other, data has its type, and the bucket
counter has a number of bits.

**Only model-checked.** Liveness: `ReloadIsAnswered`, `ConsumerCatchesUp`,
`ImportEnds` and `RunEnds` rest on fairness, which the provers do not reason
about; `DrainHasNoNewcomers`, `NoLostNotify` and `OnlyChannelsStrand` are the
safety facts that three of them need. Every invariant and action property of the
passing runs is a theorem. Induction over the length of the topic or the size of
a set is not available as a rule; where a proof needs it, it takes the least
counterexample of an explicit set of numbers (`LeastNumber`).

## 5. What the runs say about the code

The safety of the hot swap holds, also under two concurrent reloads that the
server itself cannot have. Six statements of the repository do not hold; each
is a run that expects the violation and a finding in `PROJECT.json`:

1. `reload` during the startup scan can answer ok for the build that was active
   before (`table_registry.cc:125`); so can a deploy of the agent, whose
   `DeployOkIsServed` leaves this answer out.
2. A reload with an unchanged directory and `exclusive_arena_lock: false` runs
   two consumers on one arena and one offset file for a while
   (`table_registry.cc:246`). With the lock no arena has two.
3. The consumer does not take `write_mu`; a Put between its read and its write
   of a row is lost (`kafka_source.cc:145`).
4. The payload is parsed after its message was destroyed
   (`kafka_source.cc:131`).
5. A catch-up whose watermark is after the last message replays the whole topic
   (`kafka_import_catchup.cc:128`).
6. The prune of a pull removes the build that was pulled when it is older than
   the newest ones (`artifact_sync.py:293`).

Replayed messages append array elements again; `StopsAreExact` shows that among
consumers that follow one another this needs a crash, a failed save or a
catch-up that goes back before the imported data; the overlapping consumers of
finding 2 need none of them. A partial build, left by a killed or failed copy,
is skipped as existing by the next pull and linked by a deploy
(`artifact_sync.py:238`): `DeployOkIsServed` holds since it asks of such a build
only that `active` and the table directory lead to it.

The models also show behaviour that no text of the repository denies:

- a reload that resolves the table directory in the gap of `link_server_table`
  (`table_registry.cc:220`) and succeeds once the link is back leaves staging
  link and `kafka.offset` path at the table directory itself: they follow every
  later relink, away from the build that is mapped (`StagingLinkNamesSlotDir`
  and `ReloadServesActive` allow this by name);
- the same separates mapping and config directory when the operator repoints
  between `OpenIndex` and the resolution of the directory; two slots with
  different mappings can then have one `kafka.offset`, with the arena lock as
  well;
- a hot open that throws in the creation of the consumer's thread leaves its
  registration, and the next one serves that build, not what the directory leads
  to by then (`table_registry.cc:188`);
- the load generator polls for ever when a worker's channel does not initialise
  in the mode that counts calls, for that worker stops the others and `main`
  looks at the counters only (`bench_main.cc:485`); `RunEnds` excepts this
  state;
- `active.tmp`, left by a killed switch, sorts after every build id and takes
  one of the kept places: a prune keeps one build less, so that a pull with one
  kept version removes every build, its own included (`PullKeepsNewest` excepts
  that); and a switch without a build id points `active` at
  `active.tmp`;
- a pull without `switch_active` prunes without a look at `active`, which can
  then name a build that is gone; `ActiveYieldsToNewer` bounds when;
- `--sql_est_rows` above 2^63 shifts the only bit out of the counter, and the
  sizing loop does not end (`import_pipeline_main.cc:162`); `ImportEnds` excepts
  these estimates;
- an import without `--recreate` goes on in the index of an earlier one and
  leaves its meta there also when it fails: the index stays servable with part
  of the new rows.

## 6. Plan

In this order; 1 to 8 are done.

1. `TableService`, `Registry` and its proofs: the behaviour the server exists
   for.
2. `ImportJob`, `ImportPipeline`.
3. `StreamMerge`, `TableWriters` and its proofs.
4. The catch-up as the first phase of `TableWriters`.
5. `ArtifactSync`, and `PipelineAgent` over it with the server from outside.
6. The MySQL source as a second producer of `ImportPipeline`, and what `main`
   does before the threads.
7. The load generator.
8. Proofs: the remaining safety properties and the refinement of the registry;
   the bound of the queue, completeness and the refinement of the import; the
   isolation of the RPC batches; the overshoot of the load generator and its
   report; what the agent's ok means for a publish and a deploy, and what a pull
   leaves; the convergence of replays; the size of a new index; that nobody
   waits in vain on the queue, for a drain or in the poll.
9. An abstract specification of a release (which build is served, and by whose
   request) that `PipelineAgent` implements.
10. The clock set back.

## 7. Not modelled

Parsing, formatting, logging and flags, and set-up errors that end a process
before it does anything; the contents of fields beyond what the merge rules tell
apart; memory orders, for the flags concerned are read in loops and guard no
data; the engine's own concurrency (a `KVIndex` call is atomic and durable once
it returns); machine crashes, which lose pages that a process crash keeps;
retention of the partition; what `HandleGet` and `HandleBatchGet` answer, which
change nothing but hold a handle as any request does; several tables in
`TableWriters` and in `PipelineAgent`, which share nothing but the agent's
import lock; the `s3_compatible` provider, whose copies are rclone's; a restart
of the agent, which ends its requests and frees the import lock; a clock that is
set back, and the suffixes `-2` to `-10` of ids of one second, whose order as
strings is not their order in time.

## 8. Running

    tlc -config registry_reloaders.cfg MCRegistry.tla
    tlc -config import_files.cfg MCImportPipeline.tla
    tlc -config stream_consumer.cfg MCTableWriters.tla
    tlc -config release_deploys.cfg MCPipelineAgent.tla
    tlc -config bench_run.cfg LoadGenerator.tla
    tlapm RegistryProofs.tla
    tlapm RegistryReloadProofs.tla
    tlapm ImportPipelineProofs.tla
    tlapm TableWritersProofs.tla
    tlapm ReplayProofs.tla
    tlapm PipelineAgentProofs.tla
    tlapm ReleaseProofs.tla
    tlapm LoadGeneratorProofs.tla
