--------------------------- MODULE ImportPipeline ---------------------------
(***************************************************************************)
(* yikv_import_pipeline (src/import_pipeline_main.cc and src/indexer/):    *)
(* main creates the index or opens the one that is there; I/O threads      *)
(* claim input files and parse them into record batches, or one of them    *)
(* fetches the rows of a MySQL query; they push the batches into a bounded *)
(* queue; one writer thread pops them and puts them into the index chunk   *)
(* by chunk; main joins both sides and persists the index meta when no one *)
(* reported an error.                                                      *)
(*                                                                         *)
(* A condition variable is the set of threads that wait on it: a thread in *)
(* the set takes no step until a notify takes it out.                      *)
(***************************************************************************)
EXTENDS Naturals, Sequences, FiniteSets

CONSTANTS Workers,    \* I/O threads
          Files,      \* number of input files
          Batches,    \* Batches[f]: record batches in file f; a query
                      \* has as many as file 1
          Chunks,     \* chunks of kImportChunkRows in a batch
          Capacity,   \* import_queue_batches
          Wrap,       \* where the counter in BucketBitsForRows wraps, 2^64
          MaxBits,    \* and its limit on the result, 28
          Faults      \* which of "create", "open", "read", "schema",
                      \* "apply", "arena" and "meta" may happen

VARIABLES source,                \* "files" or "mysql"
          queue, eos, aborted,   \* BoundedParsedBatchQueue
          waitingFull,           \* workers that wait on not_full_
          waitingEmpty,          \* TRUE when the writer waits on not_empty_
          failed,                \* ErrorState
          nextFile,              \* FileSource::next_file_, from 1, or 2
                                 \* once MysqlWireSource::consumed_ is set
          pc, file, batch,       \* where a worker is, its file, batches read
          writer, item, chunk,   \* the writer, its batch, chunks put of it
          main, outcome,         \* main() and how the process ended
          stored,                \* stored[f]: chunks put into the index
          size,                  \* rows, bits and buckets of the loop in
                                 \* BucketBitsForRows
          dir,                   \* the directory: "absent", "earlier" with
                                 \* an index of another import, "created"
          meta                   \* it has the meta of PersistIndexMeta

vars == <<source, queue, eos, aborted, waitingFull, waitingEmpty, failed,
          nextFile, pc, file, batch, writer, item, chunk, main, outcome,
          stored, size, dir, meta>>

theQueue == <<queue, eos, aborted, waitingFull, waitingEmpty>>
theWorkers == <<nextFile, pc, file, batch>>
theWriter == <<writer, item, chunk, stored>>
theMain == <<main, outcome, size, dir, meta>>

Inputs == 1 .. Files
Imported == IF source = "mysql" THEN {1} ELSE Inputs
Slots == IF Capacity = 0 THEN 1 ELSE Capacity

ASSUME ImportAssumption ==
    /\ Workers # {} /\ IsFiniteSet(Workers)
    /\ Files \in Nat \ {0}
    /\ Batches \in [Inputs -> Nat]
    /\ Chunks \in Nat \ {0}
    /\ Capacity \in Nat
    /\ Wrap \in Nat \ {0} /\ \E w \in 0 .. Wrap : Wrap = 2 ^ w
    /\ MaxBits \in Nat \ {0}

ParsedBatch == [file : Inputs, batch : Nat \ {0}]
Empty == [file |-> 0, batch |-> 0]

WorkerLabels == {"check", "claim", "open", "read", "validate", "push",
                 "abort", "done"}
WriterLabels == {"pop", "write", "abort", "done"}
BeforeThreads == {"remove", "estimate", "size", "index", "source"}
MainLabels == BeforeThreads \cup
              {"publish", "eos", "abort", "join", "persist", "exit"}

RowCounts == 0 .. Wrap - 1
NoSize == [rows |-> 0, bits |-> 0, buckets |-> 0]
-----------------------------------------------------------------------------
Init ==
    /\ source \in {"files", "mysql"}
    /\ queue = <<>>
    /\ eos = FALSE
    /\ aborted = FALSE
    /\ waitingFull = {}
    /\ waitingEmpty = FALSE
    /\ failed = FALSE
    /\ nextFile = 1
    /\ pc = [w \in Workers |-> "check"]
    /\ file = [w \in Workers |-> 0]
    /\ batch = [w \in Workers |-> 0]
    /\ writer = "pop"
    /\ item = Empty
    /\ chunk = 0
    /\ main = "remove"
    /\ outcome = "running"
    /\ stored = [f \in Inputs |-> <<>>]
    /\ size = NoSize
    /\ dir \in {"absent", "earlier"}
    /\ meta \in (IF dir = "earlier" THEN BOOLEAN ELSE {FALSE})

-----------------------------------------------------------------------------
(* BoundedParsedBatchQueue and ErrorState, each call under its mutex.      *)

(* Mutant: only the consumer is woken.                                     *)
AbortWakesWriter ==
    /\ aborted' = TRUE
    /\ eos' = TRUE
    /\ waitingEmpty' = FALSE
    /\ UNCHANGED <<queue, waitingFull>>

Abort ==
    /\ aborted' = TRUE
    /\ eos' = TRUE
    /\ waitingFull' = {}
    /\ waitingEmpty' = FALSE
    /\ UNCHANGED queue

(* Mutant: the end of the stream does not wake the consumer.               *)
PushEosUnnoticed ==
    /\ eos' = TRUE
    /\ UNCHANGED <<queue, aborted, waitingFull, waitingEmpty>>

PushEos ==
    /\ eos' = TRUE
    /\ waitingEmpty' = FALSE
    /\ UNCHANGED <<queue, aborted, waitingFull>>

(* ErrorState::Set with an error; the first one is kept.                   *)
SetError == failed' = TRUE

Goto(w, label) == pc' = [pc EXCEPT ![w] = label]

(* main has started the threads, and the process runs.                     *)
Started ==
    outcome = "running" /\ main \notin BeforeThreads

-----------------------------------------------------------------------------
(* ProduceLoop of FileSource or MysqlWireSource in worker w.               *)

Check(w) ==
    /\ source = "files" /\ pc[w] = "check"
    /\ Goto(w, IF failed THEN "done" ELSE "claim")
    /\ UNCHANGED <<theQueue, failed, nextFile, file, batch, theWriter,
                   theMain>>

Claim(w) ==
    /\ pc[w] = "claim"
    /\ nextFile' = nextFile + 1
    /\ IF nextFile > Files
       THEN Goto(w, "done") /\ UNCHANGED <<file, batch>>
       ELSE /\ Goto(w, "open")
            /\ file' = [file EXCEPT ![w] = nextFile]
            /\ batch' = [batch EXCEPT ![w] = 0]
    /\ UNCHANGED <<theQueue, failed, theWriter, theMain>>

(* Only the first thread that calls ProduceLoop runs the query.            *)
ClaimQuery(w) ==
    /\ source = "mysql" /\ pc[w] = "check"
    /\ nextFile' = 2
    /\ Goto(w, IF nextFile = 1 THEN "open" ELSE "done")
    /\ file' = [file EXCEPT ![w] = IF nextFile = 1 THEN 1 ELSE @]
    /\ UNCHANGED <<theQueue, failed, batch, theWriter, theMain>>

Open(w) ==
    /\ pc[w] = "open"
    /\ Goto(w, "read")
    /\ UNCHANGED <<theQueue, failed, nextFile, file, batch, theWriter,
                   theMain>>

(* The file or the connection cannot be opened, the reader or the fetch    *)
(* reports an error, or a value does not convert.  The error is set first  *)
(* and the queue aborted after.                                            *)
ReadFails(w) ==
    /\ "read" \in Faults
    /\ pc[w] = "open" \/ (pc[w] = "read" /\ ~failed)
    /\ SetError
    /\ Goto(w, "abort")
    /\ UNCHANGED <<theQueue, nextFile, file, batch, theWriter, theMain>>

(* The reader loop: stop when somebody failed, else take the next batch or *)
(* go on to the next file.                                                 *)
Read(w) ==
    /\ pc[w] = "read"
    /\ IF failed THEN Goto(w, "done") /\ UNCHANGED batch
       ELSE IF batch[w] < Batches[file[w]]
       THEN /\ Goto(w, IF source = "mysql" THEN "push" ELSE "validate")
            /\ batch' = [batch EXCEPT ![w] = @ + 1]
       ELSE /\ Goto(w, IF source = "mysql" THEN "done" ELSE "check")
            /\ UNCHANGED batch
    /\ UNCHANGED <<theQueue, failed, nextFile, file, theWriter, theMain>>

(* The query loop ends because somebody failed, and the rows that were     *)
(* fetched for the next batch are pushed all the same.                     *)
FlushRest(w) ==
    /\ source = "mysql" /\ pc[w] = "read" /\ failed
    /\ batch[w] < Batches[file[w]]
    /\ batch' = [batch EXCEPT ![w] = @ + 1]
    /\ Goto(w, "push")
    /\ UNCHANGED <<theQueue, failed, nextFile, file, theWriter, theMain>>

(* A batch that lacks a column fails; so does a good one when somebody     *)
(* else has failed meanwhile.                                              *)
Validate(w) ==
    /\ pc[w] = "validate"
    /\ Goto(w, IF failed THEN "abort" ELSE "push")
    /\ UNCHANGED <<theQueue, failed, nextFile, file, batch, theWriter,
                   theMain>>

ValidateFails(w) ==
    /\ "schema" \in Faults
    /\ pc[w] = "validate"
    /\ SetError
    /\ Goto(w, "abort")
    /\ UNCHANGED <<theQueue, nextFile, file, batch, theWriter, theMain>>

AbortQueue(w) ==
    /\ pc[w] = "abort"
    /\ Abort
    /\ Goto(w, "done")
    /\ UNCHANGED <<failed, nextFile, file, batch, theWriter, theMain>>

(* The reader goes on; the query ends when somebody has failed.            *)
Pushed(w) == Goto(w, IF source = "mysql" /\ failed THEN "done" ELSE "read")

(* Mutant: Push does not wait for room.                                    *)
PushAtOnce(w) ==
    /\ pc[w] = "push"
    /\ ~aborted
    /\ queue' = Append(queue, [file |-> file[w], batch |-> batch[w]])
    /\ waitingEmpty' = FALSE
    /\ Pushed(w)
    /\ UNCHANGED <<eos, aborted, waitingFull, failed, nextFile, file, batch,
                   theWriter, theMain>>

Push(w) ==
    /\ pc[w] = "push" /\ w \notin waitingFull
    /\ ~aborted /\ Len(queue) < Slots
    /\ queue' = Append(queue, [file |-> file[w], batch |-> batch[w]])
    /\ waitingEmpty' = FALSE
    /\ Pushed(w)
    /\ UNCHANGED <<eos, aborted, waitingFull, failed, nextFile, file, batch,
                   theWriter, theMain>>

PushWaits(w) ==
    /\ pc[w] = "push" /\ w \notin waitingFull
    /\ ~aborted /\ Len(queue) >= Slots
    /\ waitingFull' = waitingFull \cup {w}
    /\ UNCHANGED <<queue, eos, aborted, waitingEmpty, failed, theWorkers,
                   theWriter, theMain>>

(* An aborted queue drops the batch; Push does not tell.                   *)
PushDrops(w) ==
    /\ pc[w] = "push" /\ w \notin waitingFull
    /\ aborted
    /\ Pushed(w)
    /\ UNCHANGED <<theQueue, failed, nextFile, file, batch, theWriter,
                   theMain>>

Worker(w) ==
    /\ Started /\ UNCHANGED source
    /\ \/ Check(w)
       \/ Claim(w)
       \/ ClaimQuery(w)
       \/ Open(w)
       \/ ReadFails(w)
       \/ Read(w)
       \/ FlushRest(w)
       \/ Validate(w)
       \/ ValidateFails(w)
       \/ AbortQueue(w)
       \/ Push(w)
       \/ PushWaits(w)
       \/ PushDrops(w)

-----------------------------------------------------------------------------
(* RunKvWriteLoop, in the writer thread.                                   *)

Pop ==
    /\ writer = "pop" /\ ~waitingEmpty
    /\ queue # <<>>
    /\ item' = Head(queue)
    /\ queue' = Tail(queue)
    /\ waitingFull' = {}
    /\ chunk' = 0
    /\ writer' = "write"
    /\ UNCHANGED <<eos, aborted, waitingEmpty, failed, theWorkers, stored,
                   theMain>>

(* Mutant: end of stream ends the loop with batches in the queue.          *)
PopEndsAtEos ==
    /\ writer = "pop" /\ ~waitingEmpty
    /\ eos
    /\ writer' = "done"
    /\ UNCHANGED <<theQueue, failed, theWorkers, item, chunk, stored,
                   theMain>>

(* After end of stream or an abort, what is still queued is popped first.  *)
PopEnds ==
    /\ writer = "pop" /\ ~waitingEmpty
    /\ queue = <<>> /\ (eos \/ aborted)
    /\ writer' = "done"
    /\ UNCHANGED <<theQueue, failed, theWorkers, item, chunk, stored,
                   theMain>>

PopWaits ==
    /\ writer = "pop" /\ ~waitingEmpty
    /\ queue = <<>> /\ ~eos /\ ~aborted
    /\ waitingEmpty' = TRUE
    /\ UNCHANGED <<queue, eos, aborted, waitingFull, failed, theWorkers,
                   theWriter, theMain>>

(* ProcessBatch builds the documents of one chunk and puts them.  A row    *)
(* whose primary key is null or empty is skipped.                          *)
PutChunk ==
    /\ writer = "write"
    /\ stored' = [stored EXCEPT ![item.file] =
                     Append(@, (item.batch - 1) * Chunks + chunk + 1)]
    /\ chunk' = chunk + 1
    /\ writer' = IF chunk + 1 = Chunks THEN "pop" ELSE "write"
    /\ UNCHANGED <<theQueue, failed, theWorkers, item, theMain>>

(* A cell of the chunk does not convert: the chunk is not put, the chunks  *)
(* before it stay in the index.                                            *)
ApplyFails ==
    /\ "apply" \in Faults
    /\ writer = "write"
    /\ SetError
    /\ writer' = "abort"
    /\ UNCHANGED <<theQueue, theWorkers, item, chunk, stored, theMain>>

WriterAborts ==
    /\ writer = "abort"
    /\ Abort
    /\ writer' = "done"
    /\ UNCHANGED <<failed, theWorkers, item, chunk, stored, theMain>>

(* BatchPut throws, as when the arena is full; the exception leaves the    *)
(* thread and the process is terminated.                                   *)
PutThrows ==
    /\ "arena" \in Faults
    /\ writer = "write"
    /\ outcome' = "killed"
    /\ UNCHANGED <<theQueue, failed, theWorkers, theWriter, main, size,
                   dir, meta>>

Writer ==
    /\ Started /\ UNCHANGED source
    /\ \/ Pop
       \/ PopEnds
       \/ PopWaits
       \/ PutChunk
       \/ ApplyFails
       \/ WriterAborts
       \/ PutThrows

-----------------------------------------------------------------------------
(* main(), up to the threads.                                              *)

(* --recreate removes what is there.                                       *)
Recreate ==
    /\ main = "remove"
    /\ main' = "estimate"
    /\ \/ dir' = "absent" /\ meta' = FALSE
       \/ UNCHANGED <<dir, meta>>
    /\ UNCHANGED <<theQueue, failed, theWorkers, theWriter, outcome, size>>

(* The rows of the Parquet files, or --sql_est_rows, which may be anything. *)
EstimateRows ==
    /\ main = "estimate"
    /\ main' = "size"
    /\ size' \in [rows : RowCounts, bits : {1}, buckets : {2 % Wrap}]
    /\ UNCHANGED <<theQueue, failed, theWorkers, theWriter, outcome, dir, meta>>

(* Mutant: the loop goes on at the very number of rows.                    *)
BucketsNotMore == size.buckets <= size.rows

TooFewBuckets == size.buckets < size.rows

(* BucketBitsForRows: the counter is shifted until it reaches the rows.    *)
(* Once its top bit has gone it is 0, and the loop does not end.           *)
DoubleBuckets ==
    /\ main = "size"
    /\ size.rows > 0 /\ TooFewBuckets
    /\ size' = [size EXCEPT !.buckets = (2 * @) % Wrap,
                           !.bits = IF size.buckets = 0 THEN @ ELSE @ + 1]
    /\ UNCHANGED <<theQueue, failed, theWorkers, theWriter, main, outcome, dir,
                   meta>>

BucketBits ==
    IF size.rows = 0 THEN 15
    ELSE IF size.bits > MaxBits THEN MaxBits
    ELSE size.bits

Size ==
    /\ main = "size"
    /\ size.rows = 0 \/ ~TooFewBuckets
    /\ main' = "index"
    /\ size' = [size EXCEPT !.bits = BucketBits]
    /\ UNCHANGED <<theQueue, failed, theWorkers, theWriter, outcome, dir, meta>>

(* CreateKVIndex of that size, with --create_if_missing.                   *)
CreateIndex ==
    /\ main = "index"
    /\ dir = "absent"
    /\ main' = "source"
    /\ dir' = "created" /\ size' = NoSize
    /\ UNCHANGED <<theQueue, failed, theWorkers, theWriter, outcome, meta>>

(* The import goes on in the index of an earlier one.                      *)
OpenIndex ==
    /\ main = "index"
    /\ dir = "earlier"
    /\ main' = "source"
    /\ size' = NoSize
    /\ UNCHANGED <<theQueue, failed, theWorkers, theWriter, outcome, dir, meta>>

Fails ==
    /\ main' = "exit"
    /\ outcome' = "failed"
    /\ size' = NoSize
    /\ UNCHANGED <<theQueue, failed, theWorkers, theWriter, meta>>

(* The schema does not load, or CreateKVIndex throws, with or without a    *)
(* directory; OpenIndex throws, as it does when there is none.             *)
IndexFails ==
    /\ main = "index"
    /\ \/ "create" \in Faults /\ dir = "absent" /\ dir' = "created"
       \/ "open" \in Faults /\ dir = "earlier" /\ UNCHANGED dir
       \/ dir = "absent" /\ UNCHANGED dir
    /\ Fails

(* The source of the batches and the writer thread.                        *)
StartThreads ==
    /\ main = "source"
    /\ main' = "publish"
    /\ UNCHANGED <<theQueue, failed, theWorkers, theWriter, outcome, size, dir,
                   meta>>

(* The file of the SQL that comes first cannot be read.                    *)
InitSqlFails ==
    /\ "read" \in Faults
    /\ main = "source" /\ source = "mysql"
    /\ Fails
    /\ UNCHANGED dir
-----------------------------------------------------------------------------
(* main(), from IoPublisher::Run on.                                       *)

JoinWorkers ==
    /\ main = "publish"
    /\ \A w \in Workers : pc[w] = "done"
    /\ main' = IF failed THEN "abort" ELSE "eos"
    /\ UNCHANGED <<theQueue, failed, theWorkers, theWriter, outcome, size,
                   dir, meta>>

EndOfStream ==
    /\ main = "eos"
    /\ PushEos
    /\ main' = "join"
    /\ UNCHANGED <<failed, theWorkers, theWriter, outcome, size,
                   dir, meta>>

MainAborts ==
    /\ main = "abort"
    /\ Abort
    /\ main' = "join"
    /\ UNCHANGED <<failed, theWorkers, theWriter, outcome, size,
                   dir, meta>>

(* Mutant: the error flag is not read again after the writer has ended.    *)
JoinWriterOnly ==
    /\ main = "join"
    /\ writer = "done"
    /\ main' = "persist"
    /\ UNCHANGED <<theQueue, failed, theWorkers, theWriter, outcome, size,
                   dir, meta>>

JoinWriter ==
    /\ main = "join"
    /\ writer = "done"
    /\ main' = IF failed THEN "exit" ELSE "persist"
    /\ outcome' = IF failed THEN "failed" ELSE outcome
    /\ UNCHANGED <<theQueue, failed, theWorkers, theWriter, size, dir,
                   meta>>

Persist ==
    /\ main = "persist"
    /\ main' = "exit"
    /\ outcome' = "ok"
    /\ meta' = TRUE
    /\ UNCHANGED <<theQueue, failed, theWorkers, theWriter, size, dir>>

PersistFails ==
    /\ "meta" \in Faults
    /\ main = "persist"
    /\ main' = "exit"
    /\ outcome' = "failed"
    /\ UNCHANGED <<theQueue, failed, theWorkers, theWriter, size, dir,
                   meta>>

MainThread ==
    /\ outcome = "running" /\ UNCHANGED source
    /\ \/ Recreate
       \/ EstimateRows
       \/ DoubleBuckets
       \/ Size
       \/ CreateIndex
       \/ OpenIndex
       \/ IndexFails
       \/ StartThreads
       \/ InitSqlFails
       \/ JoinWorkers
       \/ EndOfStream
       \/ MainAborts
       \/ JoinWriter
       \/ Persist
       \/ PersistFails

(* The process has ended; any other state without a step is a deadlock.    *)
Exited == outcome # "running" /\ UNCHANGED vars

Next == Writer \/ MainThread \/ Exited \/ \E w \in Workers : Worker(w)

Spec == Init /\ [][Next]_vars

(* The threads run; a reader that has a next batch delivers it.            *)
Fairness ==
    /\ WF_vars(Writer)
    /\ WF_vars(MainThread)
    /\ \A w \in Workers : WF_vars(Worker(w))

FairSpec == Spec /\ Fairness
-----------------------------------------------------------------------------
(* Properties.                                                             *)

TypeOK ==
    /\ source \in {"files", "mysql"}
    /\ queue \in Seq(ParsedBatch) /\ Len(queue) <= Slots
    /\ eos \in BOOLEAN
    /\ aborted \in BOOLEAN
    /\ waitingFull \in SUBSET Workers
    /\ waitingEmpty \in BOOLEAN
    /\ failed \in BOOLEAN
    /\ nextFile \in Nat
    /\ pc \in [Workers -> WorkerLabels]
    /\ file \in [Workers -> 0 .. Files]
    /\ batch \in [Workers -> Nat]
    /\ writer \in WriterLabels
    /\ item \in ParsedBatch \cup {Empty}
    /\ chunk \in 0 .. Chunks
    /\ main \in MainLabels
    /\ outcome \in {"running", "ok", "failed", "killed"}
    /\ stored \in [Inputs -> Seq(Nat)]
    /\ size \in [rows : RowCounts, bits : Nat, buckets : RowCounts]
    /\ dir \in {"absent", "earlier", "created"}
    /\ meta \in BOOLEAN

(* An index that this import created has the meta that makes it servable   *)
(* only when every chunk of every input is in it and no thread reported an *)
(* error, however late: the flag is read again after both joins.  A chunk  *)
(* in the index is all of its rows but those without a primary key, which  *)
(* ProcessBatch skips and counts.  An index that was opened keeps the meta *)
(* of the earlier import all the while.                                    *)
MetaMeansComplete ==
    meta /\ dir = "created" =>
        /\ ~failed
        /\ \A f \in Imported : \A b \in 1 .. Batches[f], c \in 1 .. Chunks :
              \E n \in 1 .. Len(stored[f]) :
                 stored[f][n] = (b - 1) * Chunks + c

(* An index is created with a bucket for every estimated row and not with  *)
(* twice as many, up to the limit on its size.                             *)
BucketsFitRows ==
    main = "index" /\ size.rows > 0 =>
        /\ size.bits \in 1 .. MaxBits
        /\ size.rows <= 2 ^ size.bits \/ size.bits = MaxBits
        /\ size.bits > 1 => size.rows > 2 ^ (size.bits - 1)

(* The pipeline implements ImportJob: threads, queue and aborts neither    *)
(* lose, repeat nor reorder the chunks of a file.                          *)
Job == INSTANCE ImportJob WITH
    size <- [f \in Inputs |->
                IF f \in Imported THEN Batches[f] * Chunks ELSE 0]

ImplementsJob == Job!Spec

(* A producer waits for room only while there is none and the writer, who  *)
(* makes some or aborts, neither waits itself nor has left its loop; the   *)
(* writer waits only while there is nothing for it and main, who joins the *)
(* producers first, has yet to end the stream: no notify is lost, and no   *)
(* two threads wait for each other.                                        *)
NobodyWaitsInVain ==
    /\ waitingFull # {} =>
          /\ Len(queue) = Slots /\ ~aborted
          /\ writer # "done" /\ ~waitingEmpty
    /\ waitingEmpty =>
          /\ queue = <<>> /\ ~eos
          /\ main \in {"publish", "eos", "abort"}

(* The import ends: no producer and no consumer waits for a notify that    *)
(* never comes, whoever fails and whenever.  An estimate of more rows than *)
(* the half of the counter's range keeps it in the loop before all that.   *)
ImportEnds ==
    <>(\/ outcome # "running"
       \/ size.rows > Wrap \div 2 /\ size.buckets = 0)
=============================================================================
