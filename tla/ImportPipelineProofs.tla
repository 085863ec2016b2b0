------------------------ MODULE ImportPipelineProofs ------------------------
(***************************************************************************)
(* Proofs about ImportPipeline.tla, for any number of I/O threads, files,  *)
(* batches and chunks, any capacity of the queue and any failures.         *)
(***************************************************************************)
EXTENDS ImportPipeline, Integers, TLAPS, FiniteSetTheorems

Reading == {"open", "read", "validate", "push"}

(* What the types of a step's values rest on: a thread that reads has      *)
(* claimed its file and what it pushes is a batch of it, and the writer    *)
(* that puts has a batch with chunks left.                                 *)
Claims ==
    /\ nextFile > 0
    /\ source = "mysql" => nextFile <= 2 /\ \A w \in Workers : pc[w] # "claim"
    /\ \A w \in Workers : pc[w] \in Reading =>
          file[w] \in Inputs /\ file[w] < nextFile
    /\ \A w \in Workers : pc[w] \in {"validate", "push"} => batch[w] > 0
    /\ writer = "write" => item \in ParsedBatch /\ chunk < Chunks

Typed == TypeOK /\ Claims

(* A queue has at least one slot.                                          *)
LEMMA SlotsType == Slots \in Nat /\ Slots > 0
BY ImportAssumption DEF Slots

LEMMA TypedInit == Init => Typed
<1> SUFFICES ASSUME Init PROVE Typed
  OBVIOUS
<1>1. queue \in Seq(ParsedBatch) /\ Len(queue) <= Slots
  BY SlotsType DEF Init
<1>2. /\ pc \in [Workers -> WorkerLabels]
      /\ file \in [Workers -> 0 .. Files]
      /\ batch \in [Workers -> Nat]
      /\ nextFile \in Nat /\ nextFile > 0
      /\ \A w \in Workers : pc[w] = "check"
  BY ImportAssumption DEF Init, WorkerLabels
<1>3. stored \in [Inputs -> Seq(Nat)]
  BY DEF Init
<1>4. size \in [rows : RowCounts, bits : Nat, buckets : RowCounts]
  <2>1. 0 \in RowCounts
    BY ImportAssumption DEF RowCounts
  <2> QED BY <2>1 DEF Init, NoSize
<1>5. /\ source \in {"files", "mysql"}
      /\ eos \in BOOLEAN /\ aborted \in BOOLEAN /\ failed \in BOOLEAN
      /\ waitingFull \in SUBSET Workers /\ waitingEmpty \in BOOLEAN
  BY DEF Init
<1>6. writer \in WriterLabels /\ item \in ParsedBatch \cup {Empty}
  BY DEF Init, WriterLabels
<1>7. main \in MainLabels /\ outcome \in {"running", "ok", "failed", "killed"}
  BY DEF Init, MainLabels, BeforeThreads
<1>8. chunk \in 0 .. Chunks
  BY ImportAssumption DEF Init
<1>9. dir \in {"absent", "earlier", "created"} /\ meta \in BOOLEAN
  BY DEF Init
<1>10. TypeOK
  BY <1>1, <1>2, <1>3, <1>4, <1>5, <1>6, <1>7, <1>8, <1>9 DEF TypeOK
<1>11. Claims
  BY <1>2 DEF Claims, Reading, Init
<1> QED BY <1>10, <1>11 DEF Typed

(* A step of a worker keeps the types.                                     *)
LEMMA WorkerTyped ==
    ASSUME Typed, NEW w \in Workers, Worker(w)
    PROVE  Typed'
<1> USE ImportAssumption
<1>s. Slots \in Nat /\ Slots > 0
  BY SlotsType
<1>t. /\ pc \in [Workers -> WorkerLabels]
      /\ file \in [Workers -> 0 .. Files]
      /\ batch \in [Workers -> Nat]
      /\ nextFile \in Nat /\ nextFile > 0 /\ Files \in Nat
      /\ queue \in Seq(ParsedBatch) /\ Len(queue) <= Slots
      /\ waitingFull \in SUBSET Workers
  BY DEF Typed, TypeOK, Claims
<1>m. UNCHANGED <<theMain, theWriter, source>>
  BY DEF Worker, Check, Claim, ClaimQuery, Open, ReadFails, Read, FlushRest,
         Validate, ValidateFails, AbortQueue, Push, PushWaits, PushDrops,
         theWriter, theMain
<1>1. /\ pc' \in [Workers -> WorkerLabels]
      /\ file' \in [Workers -> 0 .. Files]
      /\ batch' \in [Workers -> Nat]
      /\ nextFile' \in Nat /\ nextFile' > 0 /\ nextFile' >= nextFile
  <2>1. CASE Claim(w)
    <3>1. /\ nextFile' = nextFile + 1
          /\ \/ /\ nextFile <= Files
                /\ pc' = [pc EXCEPT ![w] = "open"]
                /\ file' = [file EXCEPT ![w] = nextFile]
                /\ batch' = [batch EXCEPT ![w] = 0]
             \/ pc' = [pc EXCEPT ![w] = "done"] /\ UNCHANGED <<file, batch>>
      BY <1>t, <2>1 DEF Claim, Goto
    <3>2. /\ \A l \in {"open", "done"} : [pc EXCEPT ![w] = l] \in
                                           [Workers -> WorkerLabels]
          /\ [batch EXCEPT ![w] = 0] \in [Workers -> Nat]
          /\ nextFile <= Files => [file EXCEPT ![w] = nextFile] \in
                                       [Workers -> 0 .. Files]
      BY <1>t DEF WorkerLabels
    <3>3. /\ pc' \in [Workers -> WorkerLabels]
          /\ file' \in [Workers -> 0 .. Files]
      BY <1>t, <3>1, <3>2
    <3>4. batch' \in [Workers -> Nat]
      BY <1>t, <3>1, <3>2
    <3>5. nextFile' \in Nat /\ nextFile' > 0 /\ nextFile' >= nextFile
      BY <1>t, <3>1
    <3> QED BY <3>3, <3>4, <3>5
  <2>2. CASE ClaimQuery(w)
    <3>1. /\ nextFile' = 2 /\ batch' = batch
          /\ \E l \in {"open", "done"} : pc' = [pc EXCEPT ![w] = l]
          /\ \E f \in {1, file[w]} : file' = [file EXCEPT ![w] = f]
      BY <2>2 DEF ClaimQuery, Goto
    <3>2. nextFile' >= nextFile
      BY <1>t, <2>2, <3>1 DEF ClaimQuery, Typed, Claims
    <3>3. 1 \in 0 .. Files
      BY <1>t
    <3>4. pc' \in [Workers -> WorkerLabels]
      BY <1>t, <3>1 DEF WorkerLabels
    <3>5. file' \in [Workers -> 0 .. Files]
      BY <1>t, <3>1, <3>3
    <3> QED BY <1>t, <3>1, <3>2, <3>4, <3>5
  <2>5. CASE Read(w) \/ FlushRest(w)
    <3>1. /\ \E l \in WorkerLabels : pc' = [pc EXCEPT ![w] = l]
          /\ \/ batch' = batch
             \/ batch' = [batch EXCEPT ![w] = @ + 1]
          /\ UNCHANGED <<file, nextFile>>
      BY <2>5 DEF Read, FlushRest, Goto, WorkerLabels
    <3>2. [batch EXCEPT ![w] = @ + 1] \in [Workers -> Nat]
      BY <1>t
    <3>3. pc' \in [Workers -> WorkerLabels]
      BY <1>t, <3>1
    <3> QED BY <1>t, <3>1, <3>2, <3>3
  <2>3. ASSUME ~(Claim(w) \/ ClaimQuery(w)), ~(Read(w) \/ FlushRest(w))
        PROVE  /\ UNCHANGED <<nextFile, file, batch>>
               /\ pc' \in [Workers -> WorkerLabels]
    BY <1>t, <2>3 DEF Worker, Check, Open, ReadFails, Validate, ValidateFails,
                      AbortQueue, Push, PushWaits, PushDrops, Pushed, Goto,
                      theWorkers, WorkerLabels
  <2> QED BY <1>t, <2>1, <2>2, <2>3, <2>5
<1>2. /\ queue' \in Seq(ParsedBatch) /\ Len(queue') <= Slots
      /\ waitingFull' \in SUBSET Workers
      /\ eos' \in BOOLEAN /\ aborted' \in BOOLEAN /\ waitingEmpty' \in BOOLEAN
      /\ failed' \in BOOLEAN
  <2>0. /\ eos \in BOOLEAN /\ aborted \in BOOLEAN /\ waitingEmpty \in BOOLEAN
        /\ failed \in BOOLEAN
    BY DEF Typed, TypeOK
  <2>1. CASE Push(w)
    <3>1. [file |-> file[w], batch |-> batch[w]] \in ParsedBatch
      BY <1>t, <2>1 DEF Push, Typed, Claims, Reading, ParsedBatch
    <3>2. /\ queue' = Append(queue, [file |-> file[w], batch |-> batch[w]])
          /\ Len(queue) < Slots
          /\ UNCHANGED <<eos, aborted, waitingFull, failed>>
          /\ waitingEmpty' = FALSE
      BY <2>1 DEF Push
    <3>3. /\ queue' \in Seq(ParsedBatch)
          /\ Len(queue') <= Slots
      BY <1>s, <1>t, <3>1, <3>2
    <3> QED BY <1>t, <2>0, <3>2, <3>3
  <2>2. CASE AbortQueue(w)
    BY <1>t, <2>0, <2>2 DEF AbortQueue, Abort
  <2>3. CASE PushWaits(w)
    BY <1>t, <2>0, <2>3 DEF PushWaits
  <2>4. ASSUME ~Push(w), ~AbortQueue(w), ~PushWaits(w)
        PROVE  /\ UNCHANGED <<queue, waitingFull, eos, aborted, waitingEmpty>>
               /\ failed' \in {failed, TRUE}
    BY <2>4 DEF Worker, Check, Claim, ClaimQuery, Open, ReadFails, Read,
                FlushRest, Validate, ValidateFails, PushDrops, SetError,
                theQueue
  <2> QED BY <1>t, <2>0, <2>1, <2>2, <2>3, <2>4
<1>3. \A v \in Workers : pc'[v] \in Reading =>
          file'[v] \in Inputs /\ file'[v] < nextFile'
  <2>0. \A v \in Workers : pc[v] \in Reading =>
            file[v] \in Inputs /\ file[v] < nextFile
    BY DEF Typed, Claims
  <2>1. CASE Claim(w)
    <3>1. /\ nextFile' = nextFile + 1
          /\ \/ /\ nextFile <= Files
                /\ pc' = [pc EXCEPT ![w] = "open"]
                /\ file' = [file EXCEPT ![w] = nextFile]
             \/ pc' = [pc EXCEPT ![w] = "done"] /\ file' = file
      BY <1>t, <2>1 DEF Claim, Goto
    <3> SUFFICES ASSUME NEW v \in Workers, pc'[v] \in Reading
                 PROVE  file'[v] \in Inputs /\ file'[v] < nextFile'
      OBVIOUS
    <3>2. CASE v = w
      <4>1. nextFile <= Files /\ file'[v] = nextFile
        BY <1>t, <3>1, <3>2 DEF Reading
      <4> QED BY <1>t, <3>1, <4>1 DEF Inputs
    <3>3. CASE v # w
      <4>1. pc'[v] = pc[v] /\ file'[v] = file[v]
        BY <1>t, <3>1, <3>3
      <4>2. file[v] \in Inputs /\ file[v] < nextFile
        BY <2>0, <4>1
      <4> QED BY <1>t, <3>1, <4>1, <4>2 DEF Inputs
    <3> QED BY <3>2, <3>3
  <2>3. CASE ClaimQuery(w)
    <3>1. /\ nextFile' = 2
          /\ \/ /\ pc' = [pc EXCEPT ![w] = "open"]
                /\ file' = [file EXCEPT ![w] = 1]
             \/ pc' = [pc EXCEPT ![w] = "done"] /\ UNCHANGED file
      BY <1>t, <2>3 DEF ClaimQuery, Goto
    <3>2. nextFile <= 2
      BY <2>3 DEF ClaimQuery, Typed, Claims
    <3> SUFFICES ASSUME NEW v \in Workers, pc'[v] \in Reading
                 PROVE  file'[v] \in Inputs /\ file'[v] < nextFile'
      OBVIOUS
    <3>3. CASE v = w
      <4>1. file'[v] = 1
        BY <1>t, <3>1, <3>3 DEF Reading
      <4> QED BY <1>t, <3>1, <4>1 DEF Inputs
    <3>4. CASE v # w
      <4>1. pc'[v] = pc[v] /\ file'[v] = file[v]
        BY <1>t, <3>1, <3>4
      <4>2. file[v] \in Inputs /\ file[v] < nextFile
        BY <2>0, <4>1
      <4> QED BY <1>t, <3>1, <3>2, <4>1, <4>2 DEF Inputs
    <3> QED BY <3>3, <3>4
  <2>2. ASSUME ~(Claim(w) \/ ClaimQuery(w))
        PROVE  /\ UNCHANGED <<nextFile, file>>
               /\ \A v \in Workers : pc'[v] \in Reading => pc[v] \in Reading
    BY <1>t, <2>2 DEF Worker, Check, Open, ReadFails, Read, FlushRest, Validate,
                      ValidateFails, AbortQueue, Push, PushWaits, PushDrops,
                      Pushed, Goto, theWorkers, Reading
  <2> QED BY <2>0, <2>1, <2>2, <2>3
<1>7. source' = "mysql" =>
          nextFile' <= 2 /\ \A v \in Workers : pc'[v] # "claim"
  <2> SUFFICES ASSUME source = "mysql"
               PROVE  nextFile' <= 2 /\ \A v \in Workers : pc'[v] # "claim"
    BY <1>m
  <2>1. nextFile <= 2 /\ \A v \in Workers : pc[v] # "claim"
    BY DEF Typed, Claims
  <2> QED BY <1>t, <2>1
      DEF Worker, Check, Claim, ClaimQuery, Open, ReadFails, Read, FlushRest,
          Validate, ValidateFails, AbortQueue, Push, PushWaits, PushDrops,
          Pushed, Goto, theWorkers
<1>4. \A v \in Workers : pc'[v] \in {"validate", "push"} => batch'[v] > 0
  <2>0. \A v \in Workers : pc[v] \in {"validate", "push"} => batch[v] > 0
    BY DEF Typed, Claims
  <2>1. CASE Claim(w) \/ ClaimQuery(w)
    BY <1>t, <2>0, <2>1 DEF Claim, ClaimQuery, Goto
  <2>2. CASE Read(w) \/ FlushRest(w)
    BY <1>t, <2>0, <2>2 DEF Read, FlushRest, Goto
  <2>3. ASSUME ~(Claim(w) \/ ClaimQuery(w)), ~(Read(w) \/ FlushRest(w))
        PROVE  /\ batch' = batch
               /\ \A v \in Workers : pc'[v] \in {"validate", "push"} =>
                                        pc[v] \in {"validate", "push"}
    BY <1>t, <2>3 DEF Worker, Check, Open, ReadFails, Validate, ValidateFails,
                      AbortQueue, Push, PushWaits, PushDrops, Pushed, Goto,
                      theWorkers
  <2> QED BY <2>0, <2>1, <2>2, <2>3
<1>5. TypeOK'
  BY <1>m, <1>1, <1>2 DEF Typed, TypeOK, theMain, theWriter, Slots
<1>6. Claims'
  BY <1>m, <1>1, <1>3, <1>4, <1>7 DEF Typed, Claims, theWriter, ParsedBatch, Inputs
<1> QED BY <1>5, <1>6 DEF Typed

(* A step of the writer keeps the types: ProcessBatch leaves a batch when  *)
(* its last chunk is put.                                                  *)
LEMMA WriterTyped ==
    ASSUME Typed, Writer
    PROVE  Typed'
<1> USE ImportAssumption
<1>t. /\ queue \in Seq(ParsedBatch) /\ Len(queue) <= Slots
      /\ item \in ParsedBatch \cup {Empty} /\ chunk \in 0 .. Chunks
      /\ writer \in WriterLabels
      /\ stored \in [Inputs -> Seq(Nat)]
      /\ writer = "write" => item \in ParsedBatch /\ chunk < Chunks
      /\ Slots \in Nat
  BY SlotsType DEF Typed, TypeOK, Claims
<1>m. UNCHANGED <<theWorkers, main, size, dir, meta, source>>
  BY DEF Writer, Pop, PopEnds, PopWaits, PutChunk, ApplyFails, WriterAborts,
         PutThrows, theWorkers, theMain
<1>1. /\ queue' \in Seq(ParsedBatch) /\ Len(queue') <= Slots
      /\ item' \in ParsedBatch \cup {Empty}
      /\ chunk' \in 0 .. Chunks
      /\ writer' \in WriterLabels
      /\ writer' = "write" => item' \in ParsedBatch /\ chunk' < Chunks
  <2>1. CASE Pop
    <3>1. /\ Head(queue) \in ParsedBatch
          /\ Tail(queue) \in Seq(ParsedBatch)
          /\ Len(Tail(queue)) = Len(queue) - 1
      BY <1>t, <2>1 DEF Pop
    <3> QED BY <1>t, <2>1, <3>1 DEF Pop, WriterLabels
  <2>2. CASE PutChunk
    BY <1>t, <2>2 DEF PutChunk, theQueue, WriterLabels
  <2>3. CASE PopEnds \/ PopWaits \/ ApplyFails \/ WriterAborts \/ PutThrows
    BY <1>t, <2>3 DEF PopEnds, PopWaits, ApplyFails, WriterAborts, PutThrows,
                      Abort, theQueue, theWriter, WriterLabels
  <2> QED BY <2>1, <2>2, <2>3 DEF Writer
<1>2. /\ waitingFull' \in SUBSET Workers /\ waitingEmpty' \in BOOLEAN
      /\ eos' \in BOOLEAN /\ aborted' \in BOOLEAN /\ failed' \in BOOLEAN
      /\ outcome' \in {"running", "ok", "failed", "killed"}
  BY DEF Writer, Pop, PopEnds, PopWaits, PutChunk, ApplyFails, WriterAborts,
         PutThrows, SetError, Abort, theQueue, theMain, Typed, TypeOK
<1>3. stored' \in [Inputs -> Seq(Nat)]
  <2>1. CASE PutChunk
    <3>1. item.file \in Inputs /\ item.batch \in Nat \ {0}
      BY <1>t, <2>1 DEF PutChunk, ParsedBatch
    <3>2. (item.batch - 1) * Chunks + chunk + 1 \in Nat
      <4>1. item.batch - 1 \in Nat /\ Chunks \in Nat /\ chunk + 1 \in Nat
        BY <1>t, <3>1
      <4>2. (item.batch - 1) * Chunks \in Nat
        BY <4>1
      <4> QED BY <1>t, <4>1, <4>2
    <3>3. Append(stored[item.file], (item.batch - 1) * Chunks + chunk + 1)
              \in Seq(Nat)
      BY <1>t, <3>1, <3>2
    <3> QED BY <1>t, <2>1, <3>1, <3>3 DEF PutChunk
  <2>2. ASSUME ~PutChunk PROVE stored' = stored
    BY <2>2 DEF Writer, Pop, PopEnds, PopWaits, ApplyFails, WriterAborts,
                PutThrows, theWriter
  <2> QED BY <1>t, <2>1, <2>2
<1>4. TypeOK'
  BY <1>m, <1>1, <1>2, <1>3 DEF Typed, TypeOK, theWorkers, Slots
<1>5. Claims'
  BY <1>m, <1>1 DEF Typed, Claims, theWorkers, ParsedBatch, Inputs
<1> QED BY <1>4, <1>5 DEF Typed

(* A step of main keeps the types: the counter of BucketBitsForRows wraps. *)
LEMMA MainTyped ==
    ASSUME Typed, MainThread
    PROVE  Typed'
<1> USE ImportAssumption
<1>m. /\ UNCHANGED <<theWorkers, theWriter, source, failed, queue>>
  BY DEF MainThread, Recreate, EstimateRows, DoubleBuckets, Size, CreateIndex,
         OpenIndex, IndexFails, StartThreads, InitSqlFails, Fails,
         JoinWorkers, EndOfStream, MainAborts, JoinWriter, Persist,
         PersistFails, Abort, PushEos, theQueue
<1>1. size' \in [rows : RowCounts, bits : Nat, buckets : RowCounts]
  <2>0. /\ size \in [rows : RowCounts, bits : Nat, buckets : RowCounts]
        /\ Wrap \in Nat \ {0}
    BY DEF Typed, TypeOK
  <2>1. \A n \in Nat : n % Wrap \in RowCounts
    BY DEF RowCounts
  <2>2. NoSize \in [rows : RowCounts, bits : Nat, buckets : RowCounts]
    BY DEF NoSize, RowCounts
  <2>3. CASE EstimateRows
    BY <2>1, <2>3 DEF EstimateRows
  <2>4. CASE DoubleBuckets
    <3>1. 2 * size.buckets \in Nat /\ size.bits + 1 \in Nat
      BY <2>0 DEF RowCounts
    <3>2. (2 * size.buckets) % Wrap \in RowCounts
      BY <2>1, <3>1
    <3> QED BY <2>0, <2>4, <3>1, <3>2 DEF DoubleBuckets
  <2>5. CASE Size
    <3>1. BucketBits \in Nat
      BY <2>0 DEF BucketBits
    <3> QED BY <2>0, <2>5, <3>1 DEF Size
  <2>6. ASSUME ~EstimateRows, ~DoubleBuckets, ~Size
        PROVE  size' = size \/ size' = NoSize
    BY <2>6 DEF MainThread, Recreate, CreateIndex, OpenIndex, IndexFails,
         StartThreads, InitSqlFails, Fails, JoinWorkers, EndOfStream,
         MainAborts, JoinWriter, Persist, PersistFails
  <2> QED BY <2>0, <2>2, <2>3, <2>4, <2>5, <2>6
<1>2. main' \in MainLabels
  BY DEF MainThread, Recreate, EstimateRows, DoubleBuckets, Size, CreateIndex,
         OpenIndex, IndexFails, StartThreads, InitSqlFails, Fails,
         JoinWorkers, EndOfStream, MainAborts, JoinWriter, Persist,
         PersistFails, MainLabels, BeforeThreads, Typed, TypeOK
<1>3. /\ outcome' \in {"running", "ok", "failed", "killed"}
      /\ dir' \in {"absent", "earlier", "created"} /\ meta' \in BOOLEAN
  BY DEF MainThread, Recreate, EstimateRows, DoubleBuckets, Size, CreateIndex,
         OpenIndex, IndexFails, StartThreads, InitSqlFails, Fails,
         JoinWorkers, EndOfStream, MainAborts, JoinWriter, Persist,
         PersistFails, Typed, TypeOK
<1>4. /\ waitingFull' \in SUBSET Workers /\ waitingEmpty' \in BOOLEAN
      /\ eos' \in BOOLEAN /\ aborted' \in BOOLEAN
  BY DEF MainThread, Recreate, EstimateRows, DoubleBuckets, Size, CreateIndex,
         OpenIndex, IndexFails, StartThreads, InitSqlFails, Fails,
         JoinWorkers, EndOfStream, MainAborts, JoinWriter, Persist,
         PersistFails, Abort, PushEos, theQueue, Typed, TypeOK
<1>5. TypeOK'
  BY <1>m, <1>1, <1>2, <1>3, <1>4
  DEF Typed, TypeOK, theWorkers, theWriter, Slots
<1>6. Claims'
  BY <1>m DEF Typed, Claims, theWorkers, theWriter, ParsedBatch, Inputs
<1> QED BY <1>5, <1>6 DEF Typed

LEMMA TypedStep == Typed /\ [Next]_vars => Typed'
<1> SUFFICES ASSUME Typed, [Next]_vars PROVE Typed'
  OBVIOUS
<1>1. CASE UNCHANGED vars
  <2>1. TypeOK'
    BY <1>1 DEF vars, Typed, TypeOK, Slots
  <2>2. Claims'
    BY <1>1 DEF vars, Typed, Claims, ParsedBatch, Inputs
  <2> QED BY <2>1, <2>2 DEF Typed
<1> QED BY <1>1, WorkerTyped, WriterTyped, MainTyped DEF Next, Exited

(* The types, and with them the bound of the queue: it never holds more    *)
(* than import_queue_batches, or one, however many threads push.           *)
THEOREM TypeCorrect == Spec => []TypeOK
<1>1. Typed => TypeOK
  BY DEF Typed
<1> QED BY <1>1, TypedInit, TypedStep, PTL DEF Spec
-----------------------------------------------------------------------------
(* A persisted meta means a complete index.                                *)

(* The first n chunks of batch b of file f are in the index.               *)
Put(f, b, n) ==
    \A c \in 1 .. n : \E k \in 1 .. Len(stored[f]) :
        stored[f][k] = (b - 1) * Chunks + c

(* Worker w has batch b of file f before it.                               *)
Ahead(w, f, b) ==
    /\ file[w] = f
    /\ \/ pc[w] \in {"open", "read"} /\ b > batch[w]
       \/ pc[w] \in {"validate", "push"} /\ b >= batch[w]

TheBatch(f, b) == [file |-> f, batch |-> b]

(* Where a batch is: in a file that nobody has claimed, before a worker,   *)
(* in the queue, at the writer or in the index.                            *)
Somewhere(f, b) ==
    \/ f >= nextFile
    \/ \E w \in Workers : Ahead(w, f, b)
    \/ \E i \in 1 .. Len(queue) : queue[i] = TheBatch(f, b)
    \/ writer = "write" /\ item = TheBatch(f, b) /\ Put(f, b, chunk)
    \/ Put(f, b, Chunks)

Accounted == \A f \in Imported : \A b \in 1 .. Batches[f] : Somewhere(f, b)

Complete == \A f \in Imported : \A b \in 1 .. Batches[f] : Put(f, b, Chunks)

(* While nobody has reported an error, nobody has aborted the queue, no    *)
(* worker has left early, the writer only after end of stream and the      *)
(* last batch, and no batch is lost.                                       *)
Calm ==
    ~failed =>
        /\ ~aborted
        /\ main # "abort" /\ writer # "abort"
        /\ \A w \in Workers : pc[w] # "abort"
        /\ eos => main \in {"join", "persist", "exit"}
        /\ \A w \in Workers : pc[w] = "done" =>
              \A f \in Imported : f < nextFile
        /\ writer = "done" => eos /\ queue = <<>>
        /\ Accounted

(* A thread that main has joined takes no more steps.                      *)
JoinedThreads ==
    /\ main \in {"eos", "abort", "join", "persist"} =>
          \A w \in Workers : pc[w] = "done"
    /\ main = "persist" => writer = "done"
    /\ main = "exit" => outcome # "running"

(* A worker that has not claimed the query has read nothing of it.         *)
Fresh ==
    source = "mysql" =>
        \A w \in Workers : pc[w] = "check" => batch[w] = 0

Servable ==
    /\ dir = "absent" => ~meta
    /\ dir = "absent" => main \in {"remove", "estimate", "size", "index", "exit"}
    /\ meta /\ dir = "created" => outcome = "ok"
    /\ main = "persist" \/ outcome = "ok" => ~failed /\ Complete

IInv == Typed /\ JoinedThreads /\ Fresh /\ Calm /\ Servable

LEMMA IInvInit == Init => IInv
<1> SUFFICES ASSUME Init PROVE IInv
  OBVIOUS
<1>1. Typed
  BY TypedInit
<1>2. JoinedThreads
  BY DEF Init, JoinedThreads
<1>3. Fresh
  BY DEF Init, Fresh
<1>4. Accounted
  <2> SUFFICES ASSUME NEW f \in Imported PROVE f >= nextFile
    BY DEF Accounted, Somewhere
  <2>1. f \in Inputs
    BY ImportAssumption DEF Imported, Inputs
  <2> QED BY <2>1, ImportAssumption DEF Init, Inputs
<1>5. Calm
  BY <1>4 DEF Init, Calm
<1>6. Servable
  <2>1. dir = "absent" => ~meta
    BY DEF Init
  <2> QED BY <2>1 DEF Init, Servable
<1> QED BY <1>1, <1>2, <1>3, <1>5, <1>6 DEF IInv

(* A step of a worker that leaves the error flag clear loses no batch: it  *)
(* claims a file, takes the next batch of it or puts one in the queue.     *)
LEMMA WorkerKeepsBatches ==
    ASSUME Typed, Fresh, Calm, NEW w \in Workers, Worker(w), ~failed'
    PROVE  Accounted'
<1> USE ImportAssumption
<1>t. /\ pc \in [Workers -> WorkerLabels]
      /\ file \in [Workers -> 0 .. Files]
      /\ batch \in [Workers -> Nat]
      /\ nextFile \in Nat /\ nextFile > 0 /\ Files \in Nat
      /\ queue \in Seq(ParsedBatch)
      /\ Batches \in [Inputs -> Nat]
  BY DEF Typed, TypeOK, Claims
<1>m. UNCHANGED <<stored, writer, item, chunk, source>>
  BY DEF Worker, Check, Claim, ClaimQuery, Open, ReadFails, Read, FlushRest,
         Validate, ValidateFails, AbortQueue, Push, PushWaits, PushDrops,
         theWriter
<1>f. ~failed /\ ~aborted /\ pc[w] # "abort" /\ Accounted
  <2>1. ~failed
    BY DEF Worker, Check, Claim, ClaimQuery, Open, ReadFails, Read, FlushRest,
           Validate, ValidateFails, AbortQueue, Push, PushWaits, PushDrops,
           SetError
  <2> QED BY <2>1 DEF Calm
<1>o. \A v \in Workers \ {w} :
          pc'[v] = pc[v] /\ file'[v] = file[v] /\ batch'[v] = batch[v]
  BY <1>t DEF Worker, Check, Claim, ClaimQuery, Open, ReadFails, Read,
         FlushRest, Validate, ValidateFails, AbortQueue, Push, PushWaits,
         PushDrops, Pushed, Goto, theWorkers
<1> SUFFICES ASSUME NEW f \in Imported, NEW b \in 1 .. Batches[f]
             PROVE  Somewhere(f, b)'
  BY <1>m DEF Accounted, Imported
<1>i. f \in Inputs /\ f \in Nat /\ b \in Nat /\ b > 0 /\ Batches[f] \in Nat
  BY <1>t DEF Imported, Inputs
<1>s. Somewhere(f, b)
  BY <1>f DEF Accounted
<1>1. CASE f >= nextFile
  <2>1. CASE Claim(w)
    <3>1. nextFile <= Files
      BY <1>t, <1>i, <1>1 DEF Inputs
    <3>2. /\ nextFile' = nextFile + 1
          /\ pc'[w] = "open" /\ file'[w] = nextFile /\ batch'[w] = 0
      BY <1>t, <2>1, <3>1 DEF Claim, Goto
    <3>3. CASE f = nextFile
      <4>1. Ahead(w, f, b)'
        BY <1>i, <3>2, <3>3 DEF Ahead
      <4> QED BY <4>1 DEF Somewhere
    <3>4. CASE f # nextFile
      <4>1. f >= nextFile'
        BY <1>t, <1>i, <1>1, <3>2, <3>4
      <4> QED BY <4>1 DEF Somewhere
    <3> QED BY <3>3, <3>4
  <2>2. CASE ClaimQuery(w)
    <3>1. f = 1 /\ nextFile = 1
      BY <1>t, <1>1, <2>2 DEF ClaimQuery, Imported
    <3>2. pc'[w] = "open" /\ file'[w] = 1 /\ batch'[w] = 0
      BY <1>t, <2>2, <3>1 DEF ClaimQuery, Goto, Fresh
    <3>3. Ahead(w, f, b)'
      BY <1>i, <3>1, <3>2 DEF Ahead
    <3> QED BY <3>3 DEF Somewhere
  <2>3. ASSUME ~Claim(w), ~ClaimQuery(w) PROVE nextFile' = nextFile
    BY <2>3 DEF Worker, Check, Open, ReadFails, Read, FlushRest, Validate,
                ValidateFails, AbortQueue, Push, PushWaits, PushDrops,
                theWorkers
  <2>4. ASSUME ~Claim(w), ~ClaimQuery(w) PROVE Somewhere(f, b)'
    BY <1>1, <2>3, <2>4 DEF Somewhere
  <2> QED BY <2>1, <2>2, <2>4
<1>2. ASSUME NEW v \in Workers, Ahead(v, f, b) PROVE Somewhere(f, b)'
  <2>1. CASE v # w
    <3>1. Ahead(v, f, b)'
      BY <1>o, <1>2, <2>1 DEF Ahead
    <3> QED BY <3>1 DEF Somewhere
  <2>2. CASE v = w
    <3>0. file[w] = f /\ pc[w] \in Reading
      BY <1>2, <2>2 DEF Ahead, Reading
    <3>1. CASE Open(w) \/ Validate(w) \/ PushWaits(w)
      <4>1. /\ file'[w] = file[w] /\ batch'[w] = batch[w]
            /\ \/ pc[w] = "open" /\ pc'[w] = "read"
               \/ pc[w] = "validate" /\ pc'[w] = "push"
               \/ pc'[w] = pc[w]
        BY <1>t, <1>f, <3>1
        DEF Open, Validate, PushWaits, Goto, theWorkers
      <4>2. Ahead(w, f, b)'
        BY <1>2, <2>2, <4>1 DEF Ahead
      <4> QED BY <4>2 DEF Somewhere
    <3>2. CASE Read(w)
      <4>1. b > batch[w] /\ pc[w] = "read"
        BY <1>2, <2>2, <3>2 DEF Ahead, Read
      <4>2. batch[w] < Batches[file[w]]
        BY <1>t, <1>i, <3>0, <4>1
      <4>3. /\ pc'[w] \in {"validate", "push"}
            /\ batch'[w] = batch[w] + 1 /\ file'[w] = file[w]
        BY <1>t, <1>f, <3>2, <4>2 DEF Read, Goto
      <4>4. b >= batch'[w]
        BY <1>t, <1>i, <4>1, <4>3, SMTT(20)
      <4>5. Ahead(w, f, b)'
        BY <3>0, <4>3, <4>4 DEF Ahead
      <4> QED BY <4>5 DEF Somewhere
    <3>3. CASE Push(w)
      <4>1. /\ file'[w] = f /\ batch'[w] = batch[w] /\ pc'[w] = "read"
            /\ queue' = Append(queue, TheBatch(f, batch[w]))
        BY <1>t, <1>f, <3>0, <3>3 DEF Push, Pushed, Goto, TheBatch
      <4>2. b >= batch[w]
        BY <1>2, <2>2, <3>3 DEF Ahead, Push
      <4>3. CASE b = batch[w]
        <5>1. /\ Len(queue) + 1 \in 1 .. Len(queue')
              /\ queue'[Len(queue) + 1] = TheBatch(f, b)
          BY <1>t, <4>1, <4>3
        <5> QED BY <5>1 DEF Somewhere, TheBatch
      <4>4. CASE b # batch[w]
        <5>1. b > batch'[w]
          BY <1>t, <1>i, <4>1, <4>2, <4>4
        <5>2. Ahead(w, f, b)'
          BY <4>1, <5>1 DEF Ahead
        <5> QED BY <5>2 DEF Somewhere
      <4> QED BY <4>3, <4>4
    <3> QED
      BY <1>f, <3>0, <3>1, <3>2, <3>3
      DEF Worker, Check, Claim, ClaimQuery, ReadFails, FlushRest,
          ValidateFails, AbortQueue, PushDrops, SetError, Reading
  <2> QED BY <2>1, <2>2
<1>3. ASSUME NEW i \in 1 .. Len(queue), queue[i] = TheBatch(f, b)
      PROVE  Somewhere(f, b)'
  <2>1. \/ queue' = queue
        \/ /\ pc[w] = "push"
           /\ queue' = Append(queue, TheBatch(file[w], batch[w]))
    BY DEF Worker, Check, Claim, ClaimQuery, Open, ReadFails, Read, FlushRest,
           Validate, ValidateFails, AbortQueue, Abort, Push, PushWaits,
           PushDrops, theQueue, TheBatch
  <2>2. CASE queue' = queue
    BY <1>3, <2>2 DEF Somewhere, TheBatch
  <2>3. CASE /\ pc[w] = "push"
             /\ queue' = Append(queue, TheBatch(file[w], batch[w]))
    <3>1. TheBatch(file[w], batch[w]) \in ParsedBatch
      BY <1>t, <2>3 DEF Typed, Claims, Reading, ParsedBatch, TheBatch
    <3>2. i \in 1 .. Len(queue') /\ queue'[i] = queue[i]
      BY <1>t, <2>3, <3>1
    <3> QED BY <1>3, <3>2 DEF Somewhere, TheBatch
  <2> QED BY <2>1, <2>2, <2>3
<1>4. CASE \/ writer = "write" /\ item = TheBatch(f, b) /\ Put(f, b, chunk)
           \/ Put(f, b, Chunks)
  BY <1>m, <1>4 DEF Somewhere, Put, TheBatch
<1> QED BY <1>s, <1>1, <1>2, <1>3, <1>4 DEF Somewhere

(* A step of the writer loses no batch: it takes one over, or puts one     *)
(* chunk of its batch, and leaves it with the last.                        *)
LEMMA WriterKeepsBatches ==
    ASSUME Typed, Calm, Writer, ~failed'
    PROVE  Accounted'
<1> USE ImportAssumption
<1>t. /\ queue \in Seq(ParsedBatch)
      /\ stored \in [Inputs -> Seq(Nat)]
      /\ chunk \in Nat /\ Chunks \in Nat
      /\ writer = "write" => item \in ParsedBatch /\ chunk < Chunks
      /\ Batches \in [Inputs -> Nat]
  BY DEF Typed, TypeOK, Claims
<1>m. UNCHANGED <<theWorkers, source>>
  BY DEF Writer, Pop, PopEnds, PopWaits, PutChunk, ApplyFails, WriterAborts,
         PutThrows, theWorkers
<1>f. ~failed /\ writer # "abort" /\ Accounted
  <2>1. ~failed
    BY DEF Writer, Pop, PopEnds, PopWaits, PutChunk, ApplyFails, WriterAborts,
           PutThrows, SetError
  <2> QED BY <2>1 DEF Calm
<1>e. ~ApplyFails /\ ~WriterAborts
  BY <1>f DEF ApplyFails, WriterAborts, SetError
<1> SUFFICES ASSUME NEW f \in Imported, NEW b \in 1 .. Batches[f]
             PROVE  Somewhere(f, b)'
  BY <1>m DEF Accounted, Imported
<1>i. f \in Inputs /\ b \in Nat /\ b > 0
  BY <1>t DEF Imported, Inputs
<1>s. Somewhere(f, b)
  BY <1>f DEF Accounted
<1>1. CASE f >= nextFile \/ \E w \in Workers : Ahead(w, f, b)
  BY <1>m, <1>1 DEF Somewhere, Ahead, theWorkers
<1>2. ASSUME NEW i \in 1 .. Len(queue), queue[i] = TheBatch(f, b)
      PROVE  Somewhere(f, b)'
  <2>1. CASE Pop
    <3>1. CASE i = 1
      <4>1. writer' = "write" /\ item' = TheBatch(f, b) /\ chunk' = 0
        BY <1>2, <2>1, <3>1 DEF Pop
      <4>2. Put(f, b, chunk)'
        BY <4>1 DEF Put
      <4> QED BY <4>1, <4>2 DEF Somewhere, TheBatch
    <3>2. CASE i # 1
      <4>1. /\ i - 1 \in 1 .. Len(Tail(queue))
            /\ Tail(queue)[i - 1] = queue[i]
        BY <1>t, <1>2, <3>2
      <4> QED BY <1>2, <2>1, <4>1 DEF Pop, Somewhere, TheBatch
    <3> QED BY <3>1, <3>2
  <2>2. ASSUME ~Pop PROVE queue' = queue
    BY <1>e, <2>2 DEF Writer, PopEnds, PopWaits, PutChunk, PutThrows, theQueue
  <2> QED BY <1>2, <2>1, <2>2 DEF Somewhere, TheBatch
<1>3. CASE PutChunk
  <2>1. /\ item.file \in Inputs /\ item.batch \in Nat /\ item.batch > 0
        /\ chunk < Chunks
    BY <1>t, <1>3 DEF PutChunk, ParsedBatch
  <2> DEFINE x == (item.batch - 1) * Chunks + (chunk + 1)
  <2>2. x \in Nat /\ x = (item.batch - 1) * Chunks + chunk + 1
    <3>1. item.batch - 1 \in Nat
      BY <2>1
    <3>2. (item.batch - 1) * Chunks \in Nat
      BY <1>t, <3>1
    <3> QED BY <1>t, <3>2
  <2>3. stored' = [stored EXCEPT ![item.file] = Append(@, x)]
    BY <1>3, <2>2 DEF PutChunk
  <2> HIDE DEF x
  <2>4. \A j \in 1 .. Len(stored[f]) :
           j \in 1 .. Len(stored'[f]) /\ stored'[f][j] = stored[f][j]
    <3>1. CASE f = item.file
      <4>1. stored'[f] = Append(stored[f], x) /\ stored[f] \in Seq(Nat)
        BY <1>t, <1>i, <2>3, <3>1
      <4> QED BY <2>2, <4>1
    <3>2. CASE f # item.file
      BY <1>t, <1>i, <2>1, <2>3, <3>2
    <3> QED BY <3>1, <3>2
  <2>5. CASE Put(f, b, Chunks)
    <3>1. Put(f, b, Chunks)'
      BY <2>4, <2>5 DEF Put
    <3> QED BY <3>1 DEF Somewhere
  <2>6. CASE writer = "write" /\ item = TheBatch(f, b) /\ Put(f, b, chunk)
    <3>1. f = item.file /\ x = (b - 1) * Chunks + (chunk + 1)
      BY <2>6 DEF TheBatch, x
    <3>2. /\ Len(stored[f]) + 1 \in 1 .. Len(stored'[f])
          /\ stored'[f][Len(stored[f]) + 1] = x
      <4>1. stored'[f] = Append(stored[f], x) /\ stored[f] \in Seq(Nat)
        BY <1>t, <1>i, <2>3, <3>1
      <4> QED BY <2>2, <4>1
    <3>3. ASSUME NEW c \in 1 .. chunk + 1
          PROVE  \E j \in 1 .. Len(stored'[f]) :
                    stored'[f][j] = (b - 1) * Chunks + c
      <4>1. CASE c = chunk + 1
        BY <3>1, <3>2, <4>1
      <4>2. CASE c # chunk + 1
        <5>1. c \in 1 .. chunk
          BY <1>t, <4>2
        <5>2. PICK j \in 1 .. Len(stored[f]) :
                 stored[f][j] = (b - 1) * Chunks + c
          BY <2>6, <5>1 DEF Put
        <5> QED BY <2>4, <5>2
      <4> QED BY <4>1, <4>2
    <3>4. /\ item' = item /\ chunk' = chunk + 1
          /\ writer' = IF chunk + 1 = Chunks THEN "pop" ELSE "write"
      BY <1>3 DEF PutChunk
    <3>5. Put(f, b, chunk)'
      BY <3>3, <3>4 DEF Put
    <3>6. CASE chunk + 1 = Chunks
      <4>1. Put(f, b, Chunks)'
        BY <3>3, <3>6 DEF Put
      <4> QED BY <4>1 DEF Somewhere
    <3>7. CASE chunk + 1 # Chunks
      BY <2>6, <3>4, <3>5, <3>7 DEF Somewhere, TheBatch
    <3> QED BY <3>6, <3>7
  <2>7. CASE \E i \in 1 .. Len(queue) : queue[i] = TheBatch(f, b)
    BY <1>2, <2>7
  <2> QED BY <1>s, <1>1, <2>5, <2>6, <2>7 DEF Somewhere
<1>4. ASSUME ~PutChunk,
             \/ writer = "write" /\ item = TheBatch(f, b) /\ Put(f, b, chunk)
             \/ Put(f, b, Chunks)
      PROVE  Somewhere(f, b)'
  <2>1. stored' = stored
    BY <1>4 DEF Writer, Pop, PopEnds, PopWaits, ApplyFails, WriterAborts,
                PutThrows, theWriter
  <2>2. CASE Put(f, b, Chunks)
    BY <2>1, <2>2 DEF Somewhere, Put
  <2>3. CASE writer = "write" /\ item = TheBatch(f, b) /\ Put(f, b, chunk)
    <3>1. UNCHANGED <<writer, item, chunk>>
      BY <1>e, <1>4, <2>3 DEF Writer, Pop, PopEnds, PopWaits, PutThrows,
                              theWriter
    <3> QED BY <2>1, <2>3, <3>1 DEF Somewhere, Put, TheBatch
  <2> QED BY <1>4, <2>2, <2>3
<1> QED BY <1>s, <1>1, <1>2, <1>3, <1>4 DEF Somewhere

(* A worker takes steps only until main has joined it, so before the end   *)
(* of stream.                                                              *)
LEMMA WorkerStep ==
    ASSUME IInv, NEW w \in Workers, Worker(w)
    PROVE  IInv'
<1>t. /\ pc \in [Workers -> WorkerLabels]
      /\ file \in [Workers -> 0 .. Files]
      /\ batch \in [Workers -> Nat]
      /\ nextFile \in Nat /\ Files \in Nat /\ Files > 0
      /\ main \in MainLabels
  BY ImportAssumption DEF IInv, Typed, TypeOK
<1>m. UNCHANGED <<theMain, theWriter, source>>
  BY DEF Worker, Check, Claim, ClaimQuery, Open, ReadFails, Read, FlushRest,
         Validate, ValidateFails, AbortQueue, Push, PushWaits, PushDrops,
         theWriter, theMain
<1>p. main = "publish" /\ outcome = "running"
  <2>1. pc[w] # "done" /\ outcome = "running" /\ main \notin BeforeThreads
    BY DEF Worker, Started, Check, Claim, ClaimQuery, Open, ReadFails, Read,
           FlushRest, Validate, ValidateFails, AbortQueue, Push, PushWaits,
           PushDrops
  <2> QED BY <1>t, <2>1 DEF IInv, JoinedThreads, MainLabels, BeforeThreads
<1>1. Typed'
  BY WorkerTyped DEF IInv
<1>2. JoinedThreads'
  BY <1>m, <1>p DEF JoinedThreads, theMain
<1>3. Fresh'
  <2> SUFFICES ASSUME source = "mysql", NEW v \in Workers, pc'[v] = "check"
               PROVE  batch'[v] = 0
    BY <1>m DEF Fresh
  <2>1. pc[v] = "check" /\ batch'[v] = batch[v]
    BY <1>t DEF Worker, Check, Claim, ClaimQuery, Open, ReadFails, Read,
         FlushRest, Validate, ValidateFails, AbortQueue, Push, PushWaits,
         PushDrops, Pushed, Goto, theWorkers
  <2> QED BY <2>1 DEF IInv, Fresh
<1>4. ASSUME ~failed' PROVE Calm'
  <2>1. ~failed
    BY <1>4 DEF Worker, Check, Claim, ClaimQuery, Open, ReadFails, Read,
           FlushRest, Validate, ValidateFails, AbortQueue, Push, PushWaits,
           PushDrops, SetError
  <2>2. /\ ~aborted /\ ~eos /\ writer # "abort" /\ writer # "done"
        /\ \A v \in Workers : pc[v] # "abort"
        /\ \A v \in Workers : pc[v] = "done" => \A f \in Imported : f < nextFile
    BY <1>p, <2>1 DEF IInv, Calm
  <2>3. aborted' = aborted /\ eos' = eos
    BY <2>2 DEF Worker, Check, Claim, ClaimQuery, Open, ReadFails, Read,
           FlushRest, Validate, ValidateFails, AbortQueue, Push, PushWaits,
           PushDrops, theQueue
  <2>4. \A v \in Workers : pc'[v] # "abort"
    BY <1>t, <2>1, <2>2, <1>4
    DEF Worker, Check, Claim, ClaimQuery, Open, ReadFails, Read, FlushRest,
        Validate, ValidateFails, AbortQueue, Push, PushWaits, PushDrops,
        Pushed, Goto, SetError, theWorkers
  <2>5. ASSUME NEW v \in Workers, pc'[v] = "done", NEW f \in Imported
        PROVE  f < nextFile'
    <3>1. f \in 1 .. Files /\ (source = "mysql" => f = 1)
      BY <1>t DEF Imported, Inputs
    <3>2. nextFile' \in Nat /\ nextFile' >= nextFile
      <4>1. \/ nextFile' = nextFile
            \/ nextFile' = nextFile + 1
            \/ nextFile' = 2 /\ source = "mysql"
        <5>1. CASE Claim(w) \/ ClaimQuery(w)
          BY <1>t, <5>1 DEF Claim, ClaimQuery
        <5>2. ASSUME ~(Claim(w) \/ ClaimQuery(w)) PROVE nextFile' = nextFile
          BY <5>2 DEF Worker, Check, Open, ReadFails, Read, FlushRest,
                      Validate, ValidateFails, AbortQueue, Push, PushWaits,
                      PushDrops, theWorkers
        <5> QED BY <1>t, <5>1, <5>2
      <4>2. source = "mysql" => nextFile <= 2
        BY DEF IInv, Typed, Claims
      <4> QED BY <1>t, <4>1, <4>2
    <3>3. CASE pc[v] = "done"
      BY <1>t, <2>2, <3>1, <3>2, <3>3
    <3>4. CASE pc[v] # "done"
      <4>1. v = w
        BY <1>t, <2>5, <3>4 DEF Worker, Check, Claim, ClaimQuery, Open,
           ReadFails, Read, FlushRest, Validate, ValidateFails, AbortQueue,
           Push, PushWaits, PushDrops, Pushed, Goto, theWorkers
      <4>2. CASE Claim(w)
        BY <1>t, <2>5, <3>1, <4>1, <4>2 DEF Claim, Goto
      <4>3. CASE ClaimQuery(w)
        BY <1>t, <3>1, <4>3 DEF ClaimQuery
      <4>4. CASE Read(w)
        <5>1. source = "mysql" /\ nextFile' = nextFile
          BY <1>t, <2>1, <2>5, <4>1, <4>4 DEF Read, Goto
        <5>2. file[w] \in Inputs /\ file[w] < nextFile
          BY <4>4 DEF Read, IInv, Typed, Claims, Reading
        <5> QED BY <1>t, <3>1, <5>1, <5>2 DEF Inputs
      <4> QED
        BY <1>t, <2>1, <2>2, <2>5, <4>1, <4>2, <4>3, <4>4
        DEF Worker, Check, Open, ReadFails, FlushRest, Validate,
            ValidateFails, AbortQueue, Push, PushWaits, PushDrops, Pushed,
            Goto, theWorkers
    <3> QED BY <3>3, <3>4
  <2>6. Accounted'
    BY <1>4, WorkerKeepsBatches DEF IInv
  <2>7. \A v \in Workers : pc'[v] = "done" =>
           \A f \in Imported' : f < nextFile'
    BY <1>m, <2>5 DEF Imported
  <2> QED BY <1>m, <1>p, <2>2, <2>3, <2>4, <2>6, <2>7
          DEF Calm, theWriter, theMain
<1>5. Calm'
  BY <1>4 DEF Calm
<1>6. Servable'
  BY <1>m, <1>p DEF IInv, Servable, theMain
<1> QED BY <1>1, <1>2, <1>3, <1>5, <1>6 DEF IInv

(* The writer ends without an error only on an empty queue.                *)
LEMMA WriterStep ==
    ASSUME IInv, Writer
    PROVE  IInv'
<1>m. UNCHANGED <<theWorkers, main, size, dir, meta, source>>
  BY DEF Writer, Pop, PopEnds, PopWaits, PutChunk, ApplyFails, WriterAborts,
         PutThrows, theWorkers, theMain
<1>p. /\ outcome = "running" /\ writer # "done"
      /\ main # "exit" /\ main # "persist"
      /\ outcome' \in {"running", "killed"}
  BY DEF Writer, Started, Pop, PopEnds, PopWaits, PutChunk, ApplyFails,
         WriterAborts, PutThrows, IInv, JoinedThreads, theMain
<1>1. Typed'
  BY WriterTyped DEF IInv
<1>2. JoinedThreads'
  BY <1>m, <1>p DEF IInv, JoinedThreads, theWorkers
<1>3. Fresh'
  BY <1>m DEF IInv, Fresh, theWorkers
<1>4. ASSUME ~failed' PROVE Calm'
  <2>1. ~failed /\ ~ApplyFails
    BY <1>4 DEF Writer, Pop, PopEnds, PopWaits, PutChunk, ApplyFails,
                WriterAborts, PutThrows, SetError
  <2>2. /\ ~aborted /\ writer # "abort" /\ main # "abort"
        /\ \A v \in Workers : pc[v] # "abort"
        /\ eos => main \in {"join", "persist", "exit"}
        /\ \A v \in Workers : pc[v] = "done" => \A f \in Imported : f < nextFile
    BY <2>1 DEF IInv, Calm
  <2>3. /\ aborted' = aborted /\ eos' = eos /\ writer' # "abort"
        /\ writer' = "done" => eos' /\ queue' = <<>>
    BY <1>p, <2>1, <2>2 DEF Writer, Pop, PopEnds, PopWaits, PutChunk,
       WriterAborts, PutThrows, theQueue, theWriter
  <2>4. Accounted'
    BY <1>4, WriterKeepsBatches DEF IInv
  <2> QED BY <1>m, <2>2, <2>3, <2>4 DEF Calm, theWorkers, Imported
<1>5. Calm'
  BY <1>4 DEF Calm
<1>6. Servable'
  BY <1>m, <1>p DEF IInv, Servable
<1> QED BY <1>1, <1>2, <1>3, <1>5, <1>6 DEF IInv

(* When the workers have ended without an error and the writer after the   *)
(* end of the stream, every batch is in the index.                         *)
LEMMA JoinedIsComplete ==
    ASSUME IInv, ~failed, main = "join", writer = "done"
    PROVE  Complete
<1>1. /\ \A w \in Workers : pc[w] = "done"
      /\ queue = <<>> /\ Accounted
      /\ \A w \in Workers : \A f \in Imported : f < nextFile
  BY DEF IInv, JoinedThreads, Calm
<1>2. \A f \in Imported : f < nextFile
  BY <1>1, ImportAssumption
<1> SUFFICES ASSUME NEW f \in Imported, NEW b \in 1 .. Batches[f]
             PROVE  Put(f, b, Chunks)
  BY DEF Complete
<1>3. Somewhere(f, b)
  BY <1>1 DEF Accounted
<1>4. ~(f >= nextFile)
  <2>1. f \in Nat /\ nextFile \in Nat
    BY ImportAssumption DEF Imported, Inputs, IInv, Typed, TypeOK
  <2> QED BY <1>2, <2>1
<1>5. \A w \in Workers : ~Ahead(w, f, b)
  BY <1>1 DEF Ahead
<1> QED BY <1>1, <1>3, <1>4, <1>5 DEF Somewhere

(* main reads the error flag after it has joined both sides, and writes    *)
(* the meta only then.                                                     *)
LEMMA MainStep ==
    ASSUME IInv, MainThread
    PROVE  IInv'
<1>m. UNCHANGED <<theWorkers, theWriter, source, failed, queue>>
  BY DEF MainThread, Recreate, EstimateRows, DoubleBuckets, Size, CreateIndex,
         OpenIndex, IndexFails, StartThreads, InitSqlFails, Fails,
         JoinWorkers, EndOfStream, MainAborts, JoinWriter, Persist,
         PersistFails, Abort, PushEos, theQueue
<1>p. outcome = "running" /\ main # "exit"
  BY DEF MainThread, IInv, JoinedThreads
<1>1. Typed'
  BY MainTyped DEF IInv
<1>2. JoinedThreads'
  BY <1>m, <1>p DEF MainThread, Recreate, EstimateRows, DoubleBuckets, Size,
         CreateIndex, OpenIndex, IndexFails, StartThreads, InitSqlFails,
         Fails, JoinWorkers, EndOfStream, MainAborts, JoinWriter, Persist,
         PersistFails, IInv, JoinedThreads, theWorkers, theWriter
<1>3. Fresh'
  BY <1>m DEF IInv, Fresh, theWorkers
<1>4. ASSUME ~failed PROVE Calm'
  <2>1. /\ ~aborted /\ writer # "abort" /\ main # "abort"
        /\ \A v \in Workers : pc[v] # "abort"
        /\ eos => main \in {"join", "persist", "exit"}
        /\ \A v \in Workers : pc[v] = "done" => \A f \in Imported : f < nextFile
        /\ writer = "done" => eos /\ queue = <<>>
        /\ Accounted
    BY <1>4 DEF IInv, Calm
  <2>2. Accounted'
    BY <1>m, <2>1 DEF Accounted, Imported, Somewhere, Ahead, Put, TheBatch,
                      theWorkers, theWriter
  <2>3. /\ ~aborted' /\ main' # "abort"
        /\ eos' => main' \in {"join", "persist", "exit"}
        /\ eos => eos'
    BY <1>4, <2>1 DEF MainThread, Recreate, EstimateRows, DoubleBuckets, Size,
         CreateIndex, OpenIndex, IndexFails, StartThreads, InitSqlFails,
         Fails, JoinWorkers, EndOfStream, MainAborts, JoinWriter, Persist,
         PersistFails, PushEos, theQueue
  <2> QED BY <1>m, <2>1, <2>2, <2>3 DEF Calm, theWorkers, theWriter, Imported
<1>5. Calm'
  BY <1>4, <1>m DEF Calm
<1>6. Complete => Complete'
  BY <1>m DEF Complete, Put, Imported, theWriter
<1>7. Servable'
  <2>1. CASE JoinWriter
    <3>1. main' = "persist" => ~failed' /\ Complete'
      BY <1>m, <1>6, <2>1, JoinedIsComplete DEF JoinWriter
    <3> QED BY <1>p, <2>1, <3>1 DEF JoinWriter, IInv, Servable
  <2>2. CASE Persist
    BY <1>m, <1>6, <2>2 DEF Persist, IInv, Servable
  <2>3. CASE Recreate \/ CreateIndex \/ IndexFails
    BY <1>m, <1>p, <2>3 DEF Recreate, CreateIndex, IndexFails, Fails, IInv,
                            Servable
  <2>4. ASSUME ~JoinWriter, ~Persist, ~(Recreate \/ CreateIndex \/ IndexFails)
        PROVE  /\ UNCHANGED <<dir, meta>>
               /\ main' # "persist" /\ outcome' # "ok"
               /\ dir = "absent" => main' \in {"estimate", "size", "index"}
    BY <1>p, <2>4 DEF IInv, Servable, MainThread, EstimateRows, DoubleBuckets, Size, OpenIndex,
         StartThreads, InitSqlFails, Fails, JoinWorkers, EndOfStream,
         MainAborts, PersistFails
  <2>5. ASSUME ~JoinWriter, ~Persist, ~(Recreate \/ CreateIndex \/ IndexFails)
        PROVE  Servable'
    BY <1>p, <2>4, <2>5 DEF IInv, Servable
  <2> QED BY <2>1, <2>2, <2>3, <2>5
<1> QED BY <1>1, <1>2, <1>3, <1>5, <1>7 DEF IInv

LEMMA IInvStep == IInv /\ [Next]_vars => IInv'
<1> SUFFICES ASSUME IInv, [Next]_vars PROVE IInv'
  OBVIOUS
<1>1. CASE UNCHANGED vars
  <2>1. Typed'
    BY <1>1, TypedStep DEF IInv
  <2>2. JoinedThreads' /\ Fresh'
    BY <1>1 DEF vars, IInv, JoinedThreads, Fresh
  <2>3. Calm'
    <3>1. Accounted => Accounted'
      BY <1>1, SMTT(20) DEF vars, Accounted, Somewhere, Ahead, Put, Imported, TheBatch
    <3>2. Imported' = Imported
      BY <1>1 DEF vars, Imported
    <3> QED BY <1>1, <3>1, <3>2 DEF vars, IInv, Calm
  <2>4. Servable'
    BY <1>1 DEF vars, IInv, Servable, Complete, Put, Imported
  <2> QED BY <2>1, <2>2, <2>3, <2>4 DEF IInv
<1> QED BY <1>1, WorkerStep, WriterStep, MainStep DEF Next, Exited

(* An index that this import created gets its meta only when every chunk   *)
(* of the input is in it and no thread has reported an error (a chunk goes *)
(* without its rows that have no primary key): for any number of           *)
(* threads and of files, any capacity of the queue and any failures.       *)
THEOREM ServableIsComplete == Spec => []MetaMeansComplete
<1>1. IInv => MetaMeansComplete
  BY DEF IInv, Servable, MetaMeansComplete, Complete, Put
<1> QED BY <1>1, IInvInit, IInvStep, PTL DEF Spec
-----------------------------------------------------------------------------
(* The pipeline implements ImportJob.                                      *)

(* A file is read by one worker, which takes no batches that it has not.   *)
Alone ==
    \A w \in Workers : pc[w] \in Reading =>
        /\ file[w] \in Imported
        /\ pc[w] \in {"validate", "push"} => batch[w] <= Batches[file[w]]
        /\ \A v \in Workers \ {w} : pc[v] \in Reading => file[v] # file[w]

(* The first n batches of file f have been pushed.                         *)
ReadUpTo(f, n) ==
    /\ n <= Batches[f]
    /\ (f \notin Imported \/ f >= nextFile) => n = 0
    /\ ~aborted => \A w \in Workers : pc[w] \in Reading /\ file[w] = f =>
          n = IF pc[w] \in {"validate", "push"} THEN batch[w] - 1 ELSE batch[w]

(* The writer has taken the first m of them; the others are in the queue,  *)
(* in the order of the file.                                               *)
InQueue(f, n, m) ==
    /\ m <= n
    /\ \A i \in 1 .. Len(queue) :
          queue[i].file = f => m < queue[i].batch /\ queue[i].batch <= n
    /\ \A i, j \in 1 .. Len(queue) :
          i < j /\ queue[i].file = f /\ queue[j].file = f
              => queue[i].batch < queue[j].batch
    /\ \A b \in m + 1 .. n : \E i \in 1 .. Len(queue) : queue[i] = TheBatch(f, b)

(* Their chunks are in the index in order, those of the writer's batch as  *)
(* far as it has come, unless it gave up.                                  *)
InIndex(f, m) ==
    /\ \A k \in 1 .. Len(stored[f]) : stored[f][k] = k
    /\ writer = "write" /\ item.file = f =>
          item.batch = m /\ Len(stored[f]) = (m - 1) * Chunks + chunk
    /\ /\ writer = "write" => item.file # f
       /\ writer \in {"pop", "write"} \/ ~failed
       => Len(stored[f]) = m * Chunks

Sequenced(f, n, m) == ReadUpTo(f, n) /\ InQueue(f, n, m) /\ InIndex(f, m)

OInv ==
    /\ IInv
    /\ Alone
    /\ \A f \in Inputs : \E n, m \in Nat : Sequenced(f, n, m)

LEMMA OInvInit == Init => OInv
<1> SUFFICES ASSUME Init PROVE OInv
  OBVIOUS
<1>1. Alone
  BY DEF Init, Alone, Reading
<1>2. ASSUME NEW f \in Inputs PROVE Sequenced(f, 0, 0)
  <2>1. ReadUpTo(f, 0)
    BY ImportAssumption DEF Init, ReadUpTo, Reading
  <2>2. InQueue(f, 0, 0)
    BY DEF Init, InQueue
  <2>3. InIndex(f, 0)
    BY ImportAssumption DEF Init, InIndex
  <2> QED BY <2>1, <2>2, <2>3 DEF Sequenced
<1> QED BY <1>1, <1>2, IInvInit DEF OInv

(* Claiming a file, or the query, gives it to one worker.                  *)
LEMMA WorkerAlone ==
    ASSUME Typed, Alone, NEW w \in Workers, Worker(w)
    PROVE  Alone'
<1> USE ImportAssumption
<1>t. /\ pc \in [Workers -> WorkerLabels]
      /\ file \in [Workers -> 0 .. Files]
      /\ batch \in [Workers -> Nat]
      /\ nextFile \in Nat /\ nextFile > 0
      /\ \A v \in Workers : pc[v] \in Reading =>
            file[v] \in Inputs /\ file[v] < nextFile
      /\ source \in {"files", "mysql"}
      /\ source' = source
  BY DEF Typed, TypeOK, Claims, Worker
<1>1. CASE Claim(w)
  <2>1. source = "files"
    BY <1>t, <1>1 DEF Claim, Typed, Claims
  <2>2. CASE nextFile > Files
    <3>1. pc' = [pc EXCEPT ![w] = "done"] /\ UNCHANGED <<file, batch>>
      BY <1>1, <2>2 DEF Claim, Goto
    <3> QED BY <1>t, <3>1 DEF Alone, Reading, Imported
  <2>3. CASE ~(nextFile > Files)
    <3>1. /\ pc' = [pc EXCEPT ![w] = "open"]
          /\ file' = [file EXCEPT ![w] = nextFile]
          /\ batch' = [batch EXCEPT ![w] = 0]
      BY <1>1, <2>3 DEF Claim, Goto
    <3>2. nextFile \in Inputs
      BY <1>t, <2>3 DEF Inputs
    <3>3. \A v \in Workers : pc[v] \in Reading => file[v] # nextFile
      BY <1>t DEF Inputs
    <3>4. Imported' = Imported
      BY <1>t DEF Imported
    <3>5. nextFile \in Imported
      BY <2>1, <3>2 DEF Imported
    <3>6. ASSUME NEW v \in Workers, pc'[v] \in Reading
          PROVE  /\ file'[v] \in Imported'
                 /\ pc'[v] \in {"validate", "push"} => batch'[v] <= Batches[file'[v]]
                 /\ \A u \in Workers \ {v} : pc'[u] \in Reading => file'[u] # file'[v]
      <4>1. CASE v = w
        BY <1>t, <3>1, <3>3, <3>4, <3>5, <4>1
      <4>2. CASE v # w
        BY <1>t, <3>1, <3>3, <3>4, <3>6, <4>2 DEF Alone
      <4> QED BY <4>1, <4>2
    <3> QED BY <3>6 DEF Alone
  <2> QED BY <2>2, <2>3
<1>2. CASE ClaimQuery(w)
  <2>1. CASE nextFile = 1
    <3>1. /\ pc' = [pc EXCEPT ![w] = "open"] /\ file' = [file EXCEPT ![w] = 1]
          /\ batch' = batch /\ source = "mysql"
      BY <1>2, <2>1 DEF ClaimQuery, Goto
    <3>2. \A v \in Workers : pc[v] \notin Reading
      BY <1>t, <2>1 DEF Inputs
    <3> QED BY <1>t, <3>1, <3>2 DEF Alone, Imported
  <2>2. CASE nextFile # 1
    <3>1. pc' = [pc EXCEPT ![w] = "done"] /\ UNCHANGED <<file, batch>>
      BY <1>t, <1>2, <2>2 DEF ClaimQuery, Goto
    <3> QED BY <1>t, <3>1 DEF Alone, Reading, Imported
  <2> QED BY <2>1, <2>2
<1>3. CASE Read(w) \/ FlushRest(w)
  <2>1. /\ pc[w] = "read" /\ file' = file
        /\ \/ pc' = [pc EXCEPT ![w] = "done"] /\ batch' = batch
           \/ pc' = [pc EXCEPT ![w] = "check"] /\ batch' = batch
           \/ /\ \E l \in {"push", "validate"} : pc' = [pc EXCEPT ![w] = l]
              /\ batch[w] < Batches[file[w]]
              /\ batch' = [batch EXCEPT ![w] = @ + 1]
    BY <1>3 DEF Read, FlushRest, Goto
  <2>2. file[w] \in Inputs /\ Batches[file[w]] \in Nat
    BY <1>t, <2>1 DEF Reading
  <2>3. pc'[w] \in {"validate", "push"} => batch'[w] <= Batches[file[w]]
    BY <1>t, <2>1, <2>2
  <2>4. \A v \in Workers : pc'[v] \in Reading => pc[v] \in Reading
    BY <1>t, <2>1 DEF Reading
  <2>5. \A v \in Workers \ {w} : pc'[v] = pc[v] /\ batch'[v] = batch[v]
    BY <1>t, <2>1
  <2> QED BY <1>t, <2>1, <2>3, <2>4, <2>5 DEF Alone, Imported
<1>4. ASSUME ~(Claim(w) \/ ClaimQuery(w)), ~(Read(w) \/ FlushRest(w))
      PROVE  Alone'
  <2>1. /\ UNCHANGED <<file, batch>>
        /\ \A v \in Workers :
              /\ pc'[v] \in Reading => pc[v] \in Reading
              /\ pc'[v] \in {"validate", "push"} => pc[v] \in {"validate", "push"}
    BY <1>t, <1>4 DEF Worker, Check, Open, ReadFails, Validate, ValidateFails,
                      AbortQueue, Push, PushWaits, PushDrops, Pushed, Goto,
                      theWorkers, Reading
  <2> QED BY <1>t, <2>1 DEF Alone, Imported
<1> QED BY <1>1, <1>2, <1>3, <1>4

(* What a worker pushes is the next batch of its file.                     *)
LEMMA PushSequence ==
    ASSUME Typed, Alone, NEW w \in Workers, Push(w), UNCHANGED source,
           NEW f \in Inputs, NEW n \in Nat, NEW m \in Nat,
           ReadUpTo(f, n), InQueue(f, n, m)
    PROVE  \E k \in Nat : ReadUpTo(f, k)' /\ InQueue(f, k, m)'
<1> USE ImportAssumption
<1>t. /\ pc \in [Workers -> WorkerLabels]
      /\ file \in [Workers -> 0 .. Files]
      /\ batch \in [Workers -> Nat]
      /\ nextFile \in Nat /\ f \in Nat
      /\ queue \in Seq(ParsedBatch) /\ Len(queue) \in Nat
      /\ Batches[f] \in Nat
  <2>1. f \in Nat
    BY DEF Inputs
  <2>2. queue \in Seq(ParsedBatch)
    BY DEF Typed, TypeOK
  <2>3. Len(queue) \in Nat
    BY <2>2
  <2> QED BY <2>1, <2>2, <2>3 DEF Typed, TypeOK
<1>b. TheBatch(file[w], batch[w]) \in ParsedBatch
  BY <1>t DEF Push, Typed, Claims, Reading, ParsedBatch, TheBatch
<1>1. /\ pc[w] = "push" /\ ~aborted
      /\ queue' = Append(queue, TheBatch(file[w], batch[w]))
      /\ \E l \in {"done", "read"} : pc' = [pc EXCEPT ![w] = l]
      /\ UNCHANGED <<aborted, nextFile, file, batch>>
  BY DEF Push, Pushed, Goto, TheBatch
<1>2. /\ file[w] \in Imported /\ file[w] < nextFile
      /\ batch[w] <= Batches[file[w]]
      /\ \A v \in Workers \ {w} : pc[v] \in Reading => file[v] # file[w]
  BY <1>1 DEF Alone, Reading, Typed, Claims
<1>q. /\ Len(queue') = Len(queue) + 1
      /\ \A i \in 1 .. Len(queue) : queue'[i] = queue[i]
      /\ queue'[Len(queue) + 1] = TheBatch(file[w], batch[w])
      /\ queue'[Len(queue) + 1].file = file[w]
      /\ \A i \in 1 .. Len(queue') : i \in 1 .. Len(queue) \/ i = Len(queue) + 1
      /\ \A i \in 1 .. Len(queue) : queue[i].batch \in Nat
  <2>1. /\ Len(queue') = Len(queue) + 1
        /\ \A i \in 1 .. Len(queue) : queue'[i] = queue[i]
        /\ queue'[Len(queue) + 1] = TheBatch(file[w], batch[w])
    BY <1>t, <1>b, <1>1
  <2>2. \A i \in 1 .. Len(queue') : i \in 1 .. Len(queue) \/ i = Len(queue) + 1
    BY <1>t, <2>1
  <2>3. \A i \in 1 .. Len(queue) : queue[i].batch \in Nat
    <3>1. \A i \in 1 .. Len(queue) : queue[i] \in ParsedBatch
      BY <1>t
    <3> QED BY <3>1 DEF ParsedBatch
  <2>4. TheBatch(file[w], batch[w]).file = file[w]
    BY DEF TheBatch
  <2> QED BY <2>1, <2>2, <2>3, <2>4
<1>3. CASE file[w] = f
  <2>1. n = batch[w] - 1 /\ n + 1 = batch[w]
    BY <1>t, <1>1, <1>3 DEF ReadUpTo, Reading
  <2>2. ReadUpTo(f, n + 1)'
    <3>1. n + 1 <= Batches[f] /\ ~(f \notin Imported \/ f >= nextFile)
      BY <1>t, <1>2, <1>3, <2>1 DEF Inputs
    <3>2. ASSUME NEW v \in Workers, pc'[v] \in Reading, file'[v] = f
          PROVE  v = w /\ pc'[v] = "read" /\ batch'[v] = n + 1
      BY <1>t, <1>1, <1>2, <1>3, <2>1, <3>2 DEF Reading
    <3> QED BY <1>1, <3>1, <3>2 DEF ReadUpTo, Imported
  <2>3. InQueue(f, n + 1, m)'
    <3>1. m <= n + 1
      BY DEF InQueue
    <3>2. ASSUME NEW i \in 1 .. Len(queue'), queue'[i].file = f
          PROVE  m < queue'[i].batch /\ queue'[i].batch <= n + 1
      <4>1. CASE i = Len(queue) + 1
        BY <1>3, <1>q, <2>1, <4>1 DEF InQueue, TheBatch
      <4>2. CASE i # Len(queue) + 1
        <5>1. i \in 1 .. Len(queue) /\ queue[i].file = f
          BY <1>t, <1>q, <3>2, <4>2
        <5> QED BY <1>q, <5>1 DEF InQueue
      <4> QED BY <4>1, <4>2
    <3>3. ASSUME NEW i \in 1 .. Len(queue'), NEW j \in 1 .. Len(queue'),
                 i < j, queue'[i].file = f, queue'[j].file = f
          PROVE  queue'[i].batch < queue'[j].batch
      <4>1. i \in 1 .. Len(queue) /\ queue[i].file = f
        BY <1>t, <1>q, <3>3
      <4>2. CASE j = Len(queue) + 1
        <5>1. queue[i].batch <= n
          BY <4>1 DEF InQueue
        <5>2. queue'[j].batch = n + 1
          BY <1>q, <2>1, <4>2 DEF TheBatch
        <5>3. queue'[i].batch = queue[i].batch /\ queue[i].batch \in Nat
          BY <1>q, <4>1
        <5> QED BY <5>1, <5>2, <5>3
      <4>3. CASE j # Len(queue) + 1
        <5>1. j \in 1 .. Len(queue) /\ queue[j].file = f
          BY <1>t, <1>q, <3>3, <4>3
        <5> QED BY <1>q, <3>3, <4>1, <5>1 DEF InQueue
      <4> QED BY <4>2, <4>3
    <3>4. ASSUME NEW b \in m + 1 .. n + 1
          PROVE  \E i \in 1 .. Len(queue') : queue'[i] = TheBatch(f, b)
      <4>1. CASE b = n + 1
        <5>1. Len(queue) + 1 \in 1 .. Len(queue')
          BY <1>t, <1>q
        <5>2. queue'[Len(queue) + 1] = TheBatch(f, b)
          BY <1>3, <1>q, <2>1, <4>1
        <5> QED BY <5>1, <5>2
      <4>2. CASE b # n + 1
        <5>1. PICK i \in 1 .. Len(queue) : queue[i] = TheBatch(f, b)
          BY <4>2 DEF InQueue
        <5> QED BY <1>t, <1>q, <5>1
      <4> QED BY <4>1, <4>2
    <3> QED BY <3>1, <3>2, <3>3, <3>4 DEF InQueue, TheBatch
  <2> QED BY <2>2, <2>3
<1>4. CASE file[w] # f
  <2>1. ReadUpTo(f, n)'
    <3>1. \A v \in Workers : pc'[v] \in Reading /\ file'[v] = f =>
             pc'[v] = pc[v] /\ file[v] = f
      BY <1>t, <1>1, <1>4
    <3> QED BY <1>1, <3>1 DEF ReadUpTo, Imported
  <2>2. InQueue(f, n, m)'
    <3>1. \A i \in 1 .. Len(queue') : queue'[i].file = f =>
             i \in 1 .. Len(queue) /\ queue'[i] = queue[i]
      BY <1>t, <1>4, <1>q DEF TheBatch
    <3>2. \A b \in m + 1 .. n : \E i \in 1 .. Len(queue') : queue'[i] = TheBatch(f, b)
      <4> TAKE b \in m + 1 .. n
      <4>1. PICK i \in 1 .. Len(queue) : queue[i] = TheBatch(f, b)
        BY DEF InQueue
      <4> QED BY <1>t, <1>q, <4>1
    <3> QED BY <3>1, <3>2 DEF InQueue, TheBatch
  <2> QED BY <2>1, <2>2
<1> QED BY <1>3, <1>4

(* Any other step of a worker leaves what was pushed.                      *)
LEMMA ReadSequence ==
    ASSUME Typed, Fresh, Alone, NEW w \in Workers, Worker(w), ~Push(w),
           NEW f \in Inputs, NEW n \in Nat, ReadUpTo(f, n)
    PROVE  ReadUpTo(f, n)' /\ queue' = queue
<1> USE ImportAssumption
<1>t. /\ pc \in [Workers -> WorkerLabels]
      /\ file \in [Workers -> 0 .. Files]
      /\ batch \in [Workers -> Nat]
      /\ nextFile \in Nat /\ nextFile > 0 /\ f \in Nat /\ f > 0
      /\ \A v \in Workers : pc[v] \in Reading => file[v] < nextFile
      /\ source' = source
  <2>1. f \in Nat /\ f > 0
    BY DEF Inputs
  <2>2. source' = source
    BY DEF Worker
  <2>3. \A v \in Workers : pc[v] \in Reading => file[v] < nextFile
    BY DEF Typed, Claims
  <2> QED BY <2>1, <2>2, <2>3 DEF Typed, TypeOK, Claims
<1>q. queue' = queue
  BY DEF Worker, Check, Claim, ClaimQuery, Open, ReadFails, Read, FlushRest,
         Validate, ValidateFails, AbortQueue, Abort, PushWaits, PushDrops,
         theQueue
<1>n. /\ n <= Batches[f]
      /\ (f \notin Imported \/ f >= nextFile) => n = 0
      /\ ~aborted => \A v \in Workers : pc[v] \in Reading /\ file[v] = f =>
            n = IF pc[v] \in {"validate", "push"} THEN batch[v] - 1 ELSE batch[v]
  BY DEF ReadUpTo
<1>1. CASE Claim(w)
  <2>1. nextFile' = nextFile + 1 /\ aborted' = aborted
    BY <1>1 DEF Claim, theQueue
  <2>2. (f \notin Imported' \/ f >= nextFile') => n = 0
    BY <1>t, <1>n, <2>1 DEF Imported
  <2>3. ASSUME NEW v \in Workers, pc'[v] \in Reading, file'[v] = f, ~aborted
        PROVE  n = IF pc'[v] \in {"validate", "push"} THEN batch'[v] - 1 ELSE batch'[v]
    <3>1. CASE v = w
      <4>1. pc'[w] = "open" /\ file'[w] = nextFile /\ batch'[w] = 0
        BY <1>t, <1>1, <2>3, <3>1 DEF Claim, Goto, Reading
      <4> QED BY <1>t, <1>n, <2>3, <3>1, <4>1
    <3>2. CASE v # w
      <4>1. pc'[v] = pc[v] /\ file'[v] = file[v] /\ batch'[v] = batch[v]
        BY <1>t, <1>1, <3>2 DEF Claim, Goto
      <4> QED BY <1>n, <2>3, <4>1
    <3> QED BY <3>1, <3>2
  <2> QED BY <1>n, <1>q, <2>1, <2>2, <2>3 DEF ReadUpTo
<1>2. CASE ClaimQuery(w)
  <2>1. /\ nextFile' = 2 /\ aborted' = aborted /\ batch' = batch
        /\ nextFile <= 2 /\ batch[w] = 0
    BY <1>2 DEF ClaimQuery, theQueue, Typed, Claims, Fresh
  <2>2. (f \notin Imported' \/ f >= nextFile') => n = 0
    BY <1>t, <1>n, <2>1 DEF Imported
  <2>3. ASSUME NEW v \in Workers, pc'[v] \in Reading, file'[v] = f, ~aborted
        PROVE  n = IF pc'[v] \in {"validate", "push"} THEN batch'[v] - 1 ELSE batch'[v]
    <3>1. CASE v = w
      <4>1. pc'[w] = "open" /\ file'[w] = 1 /\ nextFile = 1
        BY <1>t, <1>2, <2>3, <3>1 DEF ClaimQuery, Goto, Reading
      <4> QED BY <1>t, <1>n, <2>1, <2>3, <3>1, <4>1
    <3>2. CASE v # w
      <4>1. pc'[v] = pc[v] /\ file'[v] = file[v] /\ batch'[v] = batch[v]
        BY <1>t, <1>2, <3>2 DEF ClaimQuery, Goto
      <4> QED BY <1>n, <2>3, <4>1
    <3> QED BY <3>1, <3>2
  <2> QED BY <1>n, <1>q, <2>1, <2>2, <2>3 DEF ReadUpTo
<1>3. ASSUME ~Claim(w), ~ClaimQuery(w) PROVE ReadUpTo(f, n)'
  <2>1. nextFile' = nextFile /\ file' = file /\ Imported' = Imported
    BY <1>t, <1>3 DEF Worker, Check, Open, ReadFails, Read, FlushRest,
       Validate, ValidateFails, AbortQueue, PushWaits, PushDrops, theWorkers,
       Imported
  <2>2. ASSUME ~aborted', NEW v \in Workers, pc'[v] \in Reading, file'[v] = f
        PROVE  n = IF pc'[v] \in {"validate", "push"} THEN batch'[v] - 1 ELSE batch'[v]
    <3>0. ~aborted /\ ~AbortQueue(w) /\ ~PushDrops(w)
      BY <2>2 DEF Worker, Check, Claim, ClaimQuery, Open, ReadFails, Read,
         FlushRest, Validate, ValidateFails, AbortQueue, Abort, Push,
         PushWaits, PushDrops, theQueue
    <3>1. CASE v = w
      <4>1. CASE Read(w) \/ FlushRest(w)
        <5>1. pc[w] = "read" /\ pc'[w] \in {"validate", "push"}
              /\ batch'[w] = batch[w] + 1
          BY <1>t, <2>2, <3>1, <4>1 DEF Read, FlushRest, Goto, Reading
        <5> QED BY <1>t, <1>n, <2>1, <2>2, <3>0, <3>1, <5>1 DEF Reading
      <4>2. CASE ~(Read(w) \/ FlushRest(w))
        <5>1. /\ batch' = batch
              /\ \/ pc[w] = "open" /\ pc'[w] = "read"
                 \/ pc[w] = "validate" /\ pc'[w] = "push"
                 \/ pc'[w] = pc[w]
          BY <1>t, <1>3, <2>2, <3>0, <3>1, <4>2
          DEF Worker, Check, Open, ReadFails, Validate, ValidateFails,
              PushWaits, Goto, theWorkers, Reading
        <5> QED BY <1>t, <1>n, <2>1, <2>2, <3>0, <3>1, <5>1 DEF Reading
      <4> QED BY <4>1, <4>2
    <3>2. CASE v # w
      <4>1. pc'[v] = pc[v] /\ batch'[v] = batch[v]
        BY <1>t, <1>3, <3>0, <3>2
        DEF Worker, Check, Open, ReadFails, Read, FlushRest, Validate,
            ValidateFails, PushWaits, Goto, theWorkers
      <4> QED BY <1>n, <2>1, <2>2, <3>0, <4>1
    <3> QED BY <3>1, <3>2
  <2> QED BY <1>n, <2>1, <2>2 DEF ReadUpTo
<1> QED BY <1>q, <1>1, <1>2, <1>3

(* What the writer takes is the next batch of its file, and what it puts   *)
(* is the next chunk.                                                      *)
LEMMA TakeSequence ==
    ASSUME Typed, Pop, NEW f \in Inputs, NEW n \in Nat, NEW m \in Nat,
           InQueue(f, n, m), InIndex(f, m)
    PROVE  \E k \in Nat : InQueue(f, n, k)' /\ InIndex(f, k)'
<1> USE ImportAssumption
<1>t. /\ queue \in Seq(ParsedBatch) /\ queue # <<>>
      /\ Len(queue) \in Nat /\ Len(queue) > 0
      /\ Chunks \in Nat
  BY DEF Typed, TypeOK, Pop
<1>1. /\ writer = "pop" /\ item' = queue[1] /\ queue' = Tail(queue)
      /\ chunk' = 0 /\ writer' = "write"
      /\ UNCHANGED <<stored, failed>>
  BY <1>t DEF Pop
<1>b. \A i \in 1 .. Len(queue) :
          queue[i].batch \in Nat
          /\ queue[i] = TheBatch(queue[i].file, queue[i].batch)
  <2>1. \A i \in 1 .. Len(queue) : queue[i] \in ParsedBatch
    BY <1>t
  <2> QED BY <2>1 DEF ParsedBatch, TheBatch
<1>q. /\ Len(queue') = Len(queue) - 1
      /\ \A i \in 1 .. Len(queue') : i + 1 \in 1 .. Len(queue)
                                     /\ queue'[i] = queue[i + 1]
  BY <1>t, <1>1
<1>s. /\ Len(stored[f]) = m * Chunks
      /\ \A k \in 1 .. Len(stored[f]) : stored[f][k] = k
  BY <1>1 DEF InIndex
<1>2. CASE queue[1].file = f
  <2>1. queue[1].batch = m + 1 /\ m + 1 <= n
    <3>1. m < queue[1].batch /\ queue[1].batch <= n
      BY <1>t, <1>2 DEF InQueue
    <3>2. m + 1 \in m + 1 .. n
      BY <1>t, <1>b, <3>1
    <3>3. PICK i \in 1 .. Len(queue) : queue[i] = TheBatch(f, m + 1)
      BY <3>2 DEF InQueue
    <3>4. CASE i = 1
      BY <1>b, <1>t, <3>1, <3>3, <3>4 DEF TheBatch
    <3>5. CASE i # 1
      <4>1. queue[i].file = f /\ queue[i].batch = m + 1
        BY <3>3 DEF TheBatch
      <4>2. 1 \in 1 .. Len(queue) /\ 1 < i
        BY <1>t, <3>5
      <4>3. queue[1].batch < queue[i].batch
        BY <1>2, <4>1, <4>2 DEF InQueue
      <4>4. queue[1].batch \in Nat
        BY <1>b, <4>2
      <4> QED BY <3>1, <4>1, <4>3, <4>4
    <3> QED BY <3>4, <3>5
  <2>2. InQueue(f, n, m + 1)'
    <3>1. ASSUME NEW i \in 1 .. Len(queue'), queue'[i].file = f
          PROVE  m + 1 < queue'[i].batch /\ queue'[i].batch <= n
      <4>1. queue[1].batch < queue[i + 1].batch /\ queue[i + 1].batch <= n
        BY <1>t, <1>2, <1>q, <3>1, SMTT(20) DEF InQueue
      <4> QED BY <1>q, <2>1, <4>1
    <3>2. ASSUME NEW i \in 1 .. Len(queue'), NEW j \in 1 .. Len(queue'),
                 i < j, queue'[i].file = f, queue'[j].file = f
          PROVE  queue'[i].batch < queue'[j].batch
      <4>1. /\ i + 1 \in 1 .. Len(queue) /\ queue'[i] = queue[i + 1]
            /\ j + 1 \in 1 .. Len(queue) /\ queue'[j] = queue[j + 1]
            /\ i + 1 < j + 1
        BY <1>q, <3>2
      <4> QED BY <3>2, <4>1 DEF InQueue
    <3>3. ASSUME NEW b \in m + 2 .. n
          PROVE  \E i \in 1 .. Len(queue') : queue'[i] = TheBatch(f, b)
      <4>1. PICK i \in 1 .. Len(queue) : queue[i] = TheBatch(f, b)
        BY <3>3 DEF InQueue
      <4>2. i # 1
        BY <2>1, <4>1 DEF TheBatch
      <4>3. i - 1 \in 1 .. Len(queue') /\ queue'[i - 1] = queue[i]
        BY <1>t, <1>1, <1>q, <4>2
      <4> QED BY <4>1, <4>3
    <3>4. m + 1 + 1 = m + 2
      OBVIOUS
    <3> QED BY <2>1, <3>1, <3>2, <3>3, <3>4 DEF InQueue, TheBatch
  <2>3. InIndex(f, m + 1)'
    BY <1>1, <1>2, <1>s, <2>1 DEF InIndex
  <2> QED BY <2>2, <2>3
<1>3. CASE queue[1].file # f
  <2>1. InQueue(f, n, m)'
    <3>1. ASSUME NEW i \in 1 .. Len(queue'), queue'[i].file = f
          PROVE  m < queue'[i].batch /\ queue'[i].batch <= n
      BY <1>q, <3>1 DEF InQueue
    <3>2. ASSUME NEW i \in 1 .. Len(queue'), NEW j \in 1 .. Len(queue'),
                 i < j, queue'[i].file = f, queue'[j].file = f
          PROVE  queue'[i].batch < queue'[j].batch
      <4>1. /\ i + 1 \in 1 .. Len(queue) /\ queue'[i] = queue[i + 1]
            /\ j + 1 \in 1 .. Len(queue) /\ queue'[j] = queue[j + 1]
            /\ i + 1 < j + 1
        BY <1>q, <3>2
      <4> QED BY <3>2, <4>1 DEF InQueue
    <3>3. ASSUME NEW b \in m + 1 .. n
          PROVE  \E i \in 1 .. Len(queue') : queue'[i] = TheBatch(f, b)
      <4>1. PICK i \in 1 .. Len(queue) : queue[i] = TheBatch(f, b)
        BY <3>3 DEF InQueue
      <4>2. i # 1
        BY <1>3, <4>1 DEF TheBatch
      <4>3. i - 1 \in 1 .. Len(queue') /\ queue'[i - 1] = queue[i]
        BY <1>t, <1>1, <1>q, <4>2
      <4> QED BY <4>1, <4>3
    <3>4. m <= n
      BY DEF InQueue
    <3> QED BY <3>1, <3>2, <3>3, <3>4 DEF InQueue, TheBatch
  <2>2. InIndex(f, m)'
    BY <1>1, <1>3, <1>s DEF InIndex
  <2> QED BY <2>1, <2>2
<1> QED BY <1>2, <1>3

LEMMA ChunkIsNext ==
    ASSUME Typed, PutChunk, NEW f \in Inputs, NEW m \in Nat, InIndex(f, m)
    PROVE  /\ InIndex(f, m)'
           /\ stored'[f] = IF item.file = f
                           THEN Append(stored[f], Len(stored[f]) + 1)
                           ELSE stored[f]
<1> USE ImportAssumption
<1>t. /\ item.file \in Inputs /\ chunk \in Nat /\ chunk < Chunks
      /\ Chunks \in Nat /\ writer = "write"
      /\ stored \in [Inputs -> Seq(Nat)]
      /\ stored[f] \in Seq(Nat) /\ Len(stored[f]) \in Nat
      /\ m * Chunks \in Int /\ (m - 1) * Chunks \in Int
      /\ m * Chunks = (m - 1) * Chunks + Chunks
  <2>1. item \in ParsedBatch /\ chunk < Chunks /\ writer = "write"
    BY DEF PutChunk, Typed, Claims
  <2>2. item.file \in Inputs
    BY <2>1 DEF ParsedBatch
  <2>3. Chunks \in Nat /\ chunk \in Nat /\ stored \in [Inputs -> Seq(Nat)]
    BY DEF Typed, TypeOK
  <2>4. stored[f] \in Seq(Nat) /\ Len(stored[f]) \in Nat
    BY <2>3
  <2>5. /\ m * Chunks \in Int /\ (m - 1) * Chunks \in Int
        /\ m * Chunks = (m - 1) * Chunks + Chunks
    BY ONLY <2>3, m \in Nat
  <2> QED BY <2>1, <2>2, <2>3, <2>4, <2>5
<1> DEFINE x == (item.batch - 1) * Chunks + chunk + 1
<1>1. /\ stored' = [stored EXCEPT ![item.file] = Append(@, x)]
      /\ chunk' = chunk + 1 /\ item' = item /\ failed' = failed
      /\ writer' = IF chunk + 1 = Chunks THEN "pop" ELSE "write"
  BY DEF PutChunk
<1>2. CASE item.file = f
  <2>1. x = Len(stored[f]) + 1 /\ Len(stored[f]) = (m - 1) * Chunks + chunk
        /\ item.batch = m
    BY <1>t, <1>2 DEF InIndex
  <2> HIDE DEF x
  <2>2. stored'[f] = Append(stored[f], Len(stored[f]) + 1)
    BY <1>t, <1>1, <1>2, <2>1
  <2>3. /\ Len(stored'[f]) = Len(stored[f]) + 1
        /\ \A k \in 1 .. Len(stored'[f]) : stored'[f][k] = k
    <3>1. \A k \in 1 .. Len(stored[f]) : stored[f][k] = k
      BY DEF InIndex
    <3> QED BY <1>t, <2>2, <3>1, SMTT(20)
  <2>4. InIndex(f, m)'
    BY <1>t, <1>1, <1>2, <2>1, <2>3 DEF InIndex
  <2> QED BY <1>2, <2>2, <2>4
<1>3. CASE item.file # f
  <2>1. stored'[f] = stored[f]
    BY <1>t, <1>1, <1>3
  <2>2. InIndex(f, m)'
    BY <1>t, <1>1, <1>3, <2>1 DEF InIndex
  <2> QED BY <1>3, <2>1, <2>2
<1> QED BY <1>2, <1>3

LEMMA OInvStep == OInv /\ [Next]_vars => OInv'
<1> SUFFICES ASSUME OInv, [Next]_vars PROVE OInv'
  OBVIOUS
<1>t. IInv /\ Typed /\ Fresh /\ Alone
  BY DEF OInv, IInv
<1>1. IInv'
  BY IInvStep DEF OInv
<1>f. ASSUME NEW f \in Inputs
      PROVE  \E n, m \in Nat : ReadUpTo(f, n) /\ InQueue(f, n, m) /\ InIndex(f, m)
  BY DEF OInv, Sequenced
<1>2. ASSUME NEW w \in Workers, Worker(w) PROVE OInv'
  <2>1. Alone'
    BY <1>t, <1>2, WorkerAlone
  <2>2. ASSUME NEW f \in Inputs
        PROVE  \E n, m \in Nat : Sequenced(f, n, m)'
    <3>1. PICK n \in Nat, m \in Nat :
             ReadUpTo(f, n) /\ InQueue(f, n, m) /\ InIndex(f, m)
      BY <1>f
    <3>2. InIndex(f, m)'
      <4>1. UNCHANGED theWriter /\ (failed => failed')
        BY <1>2 DEF Worker, Check, Claim, ClaimQuery, Open, ReadFails, Read,
           FlushRest, Validate, ValidateFails, AbortQueue, Push, PushWaits,
           PushDrops, SetError
      <4> QED BY <3>1, <4>1 DEF InIndex, theWriter
    <3>3. CASE Push(w)
      <4>1. PICK k \in Nat : ReadUpTo(f, k)' /\ InQueue(f, k, m)'
        BY <1>t, <1>2, <3>1, <3>3, PushSequence DEF Worker
      <4> QED BY <3>2, <4>1 DEF Sequenced
    <3>4. CASE ~Push(w)
      <4>1. ReadUpTo(f, n)' /\ queue' = queue
        BY <1>t, <1>2, <3>1, <3>4, ReadSequence
      <4>2. InQueue(f, n, m)'
        BY <3>1, <4>1 DEF InQueue, TheBatch
      <4> QED BY <3>2, <4>1, <4>2 DEF Sequenced
    <3> QED BY <3>3, <3>4
  <2> QED BY <1>1, <2>1, <2>2 DEF OInv, Inputs
<1>3. ASSUME Writer \/ MainThread PROVE OInv'
  <2>1. /\ UNCHANGED theWorkers /\ UNCHANGED source
        /\ aborted' \in {aborted, TRUE}
    BY <1>3 DEF Writer, Pop, PopEnds, PopWaits, PutChunk, ApplyFails,
       WriterAborts, PutThrows, MainThread, Recreate, EstimateRows,
       DoubleBuckets, Size, CreateIndex, OpenIndex, IndexFails, StartThreads,
       InitSqlFails, Fails, JoinWorkers, EndOfStream, MainAborts, JoinWriter,
       Persist, PersistFails, Abort, PushEos, theQueue
  <2>2. Alone'
    BY <1>t, <2>1 DEF Alone, Imported, theWorkers
  <2>3. ASSUME NEW f \in Inputs
        PROVE  \E n, m \in Nat : Sequenced(f, n, m)'
    <3>1. PICK n \in Nat, m \in Nat :
             ReadUpTo(f, n) /\ InQueue(f, n, m) /\ InIndex(f, m)
      BY <1>f
    <3>2. ReadUpTo(f, n)'
      BY <2>1, <3>1 DEF ReadUpTo, Imported, theWorkers
    <3>3. CASE Pop
      <4>1. PICK k \in Nat : InQueue(f, n, k)' /\ InIndex(f, k)'
        BY <1>t, <3>1, <3>3, TakeSequence
      <4> QED BY <3>2, <4>1 DEF Sequenced
    <3>4. CASE PutChunk
      <4>1. InIndex(f, m)'
        BY <1>t, <3>1, <3>4, ChunkIsNext
      <4>2. InQueue(f, n, m)'
        BY <3>1, <3>4 DEF PutChunk, theQueue, InQueue, TheBatch
      <4> QED BY <3>2, <4>1, <4>2 DEF Sequenced
    <3>5. ASSUME ~Pop, ~PutChunk PROVE Sequenced(f, n, m)'
      <4>1. /\ UNCHANGED <<queue, stored, item, chunk>>
            /\ \/ UNCHANGED <<writer, failed>>
               \/ writer = "pop" /\ writer' = "done" /\ failed' = failed
               \/ writer = "abort" /\ writer' = "done" /\ failed' = failed
               \/ writer' = "abort" /\ failed'
        BY <1>3, <3>5 DEF Writer, PopEnds, PopWaits, ApplyFails,
           WriterAborts, PutThrows, SetError, MainThread, Recreate,
           EstimateRows, DoubleBuckets, Size, CreateIndex, OpenIndex,
           IndexFails, StartThreads, InitSqlFails, Fails, JoinWorkers,
           EndOfStream, MainAborts, JoinWriter, Persist, PersistFails, Abort,
           PushEos, theQueue, theWriter
      <4>2. InQueue(f, n, m)'
        BY <3>1, <4>1 DEF InQueue, TheBatch
      <4>3. InIndex(f, m)'
        BY <3>1, <4>1 DEF InIndex
      <4> QED BY <3>2, <4>2, <4>3 DEF Sequenced
    <3> QED BY <3>3, <3>4, <3>5
  <2> QED BY <1>1, <2>2, <2>3 DEF OInv, Inputs
<1>4. CASE UNCHANGED vars
  <2>1. Alone'
    BY <1>t, <1>4 DEF vars, Alone, Imported
  <2>2. ASSUME NEW f \in Inputs
        PROVE  \E n, m \in Nat : Sequenced(f, n, m)'
    <3>1. PICK n \in Nat, m \in Nat :
             ReadUpTo(f, n) /\ InQueue(f, n, m) /\ InIndex(f, m)
      BY <1>f
    <3> QED BY <1>4, <3>1, SMTT(20) DEF vars, Sequenced, ReadUpTo, InQueue, InIndex,
                              Imported, TheBatch
  <2> QED BY <1>1, <2>1, <2>2 DEF OInv, Inputs
<1> QED BY <1>2, <1>3, <1>4 DEF Next, Exited

(* A persisted import has stored all the chunks there are of each input,   *)
(* and none of another.                                                    *)
LEMMA StoredAll ==
    ASSUME OInv, main = "persist", NEW f \in Inputs
    PROVE  Len(stored[f]) = IF f \in Imported THEN Batches[f] * Chunks ELSE 0
<1> USE ImportAssumption
<1>1. ~failed /\ writer = "done" /\ Complete /\ stored[f] \in Seq(Nat)
  BY DEF OInv, IInv, Servable, JoinedThreads, Typed, TypeOK
<1>2. PICK n \in Nat, m \in Nat :
         ReadUpTo(f, n) /\ InQueue(f, n, m) /\ InIndex(f, m)
  BY DEF OInv, Sequenced
<1>3. /\ m <= n /\ n <= Batches[f] /\ (f \notin Imported => n = 0)
      /\ Len(stored[f]) = m * Chunks
      /\ \A k \in 1 .. Len(stored[f]) : stored[f][k] = k
  BY <1>1, <1>2 DEF ReadUpTo, InQueue, InIndex
<1>4. CASE f \notin Imported
  <2>1. m = 0
    BY <1>3, <1>4
  <2> QED BY <1>3, <1>4, <2>1
<1>5. CASE f \in Imported /\ m < Batches[f]
  <2> DEFINE b == Batches[f]
  <2>1. b \in Nat /\ b \in 1 .. b /\ Chunks \in 1 .. Chunks
    BY <1>5
  <2>2. PICK k \in 1 .. Len(stored[f]) : stored[f][k] = (b - 1) * Chunks + Chunks
    <3>1. Put(f, b, Chunks)
      BY <1>1, <1>5, <2>1 DEF Complete
    <3> QED BY <2>1, <3>1 DEF Put
  <2>3. PICK d \in Nat : b = m + 1 + d
    <3>1. b - (m + 1) \in Nat /\ b = m + 1 + (b - (m + 1))
      BY <1>5, <2>1
    <3> QED BY <3>1
  <2> HIDE DEF b
  <2>4. (b - 1) * Chunks = m * Chunks + d * Chunks /\ d * Chunks \in Nat
        /\ m * Chunks \in Nat
    BY <2>3
  <2>5. k <= m * Chunks /\ k = (b - 1) * Chunks + Chunks /\ k \in Nat
    BY <1>1, <1>3, <2>2
  <2> QED BY <2>4, <2>5
<1>6. CASE f \in Imported /\ ~(m < Batches[f])
  <2>1. Batches[f] \in Nat
    OBVIOUS
  <2>2. m = Batches[f]
    BY <1>3, <1>6, <2>1
  <2> QED BY <1>3, <1>6, <2>2
<1> QED BY <1>4, <1>5, <1>6

(* The refinement mapping.                                                 *)
Sizes == [f \in Inputs |-> IF f \in Imported THEN Batches[f] * Chunks ELSE 0]

LEMMA JobInit == Init => Job!Init
<1> SUFFICES ASSUME Init PROVE Job!Init
  OBVIOUS
<1>1. Sizes \in [Inputs -> Nat]
  <2>1. \A f \in Inputs : Batches[f] * Chunks \in Nat
    BY ImportAssumption
  <2> QED BY <2>1 DEF Sizes
<1> QED BY <1>1 DEF Init, Job!Init, Sizes

LEMMA JobStep == OInv /\ [Next]_vars => [Job!Next]_(Job!vars)
<1> USE ImportAssumption
<1> SUFFICES ASSUME OInv, [Next]_vars PROVE [Job!Next]_(Job!vars)
  OBVIOUS
<1>s. Sizes' = Sizes
  <2>1. source' = source
    BY DEF Next, Writer, MainThread, Worker, Exited, vars
  <2> QED BY <2>1 DEF Sizes, Imported
<1>1. CASE UNCHANGED <<stored, outcome>>
  BY <1>s, <1>1 DEF Job!vars, Sizes
<1>2. CASE Writer /\ PutChunk
  <2> DEFINE f == item.file
  <2>1. /\ f \in Inputs /\ writer = "write" /\ outcome = "running"
        /\ chunk \in Nat /\ chunk < Chunks /\ outcome' = outcome
        /\ stored \in [Inputs -> Seq(Nat)]
    BY <1>2 DEF Writer, Started, PutChunk, theMain, OInv, IInv, Typed, TypeOK, Claims,
                ParsedBatch
  <2>2. PICK n \in Nat, m \in Nat :
           ReadUpTo(f, n) /\ InQueue(f, n, m) /\ InIndex(f, m)
    BY <2>1 DEF OInv, Sequenced
  <2>3. /\ m = item.batch /\ m > 0 /\ m <= n /\ n <= Batches[f]
        /\ f \in Imported
        /\ Len(stored[f]) = (m - 1) * Chunks + chunk
    <3>1. m = item.batch /\ Len(stored[f]) = (m - 1) * Chunks + chunk
      BY <2>1, <2>2 DEF InIndex
    <3>2. m > 0
      BY <2>1, <3>1 DEF OInv, IInv, Typed, Claims, ParsedBatch
    <3>3. m <= n /\ n <= Batches[f]
      BY <2>2 DEF InQueue, ReadUpTo
    <3>4. f \in Imported
      BY <2>2, <3>2, <3>3 DEF ReadUpTo
    <3> QED BY <3>1, <3>2, <3>3, <3>4
  <2>4. Len(stored[f]) < Sizes[f]
    <3>1. PICK d \in Nat : Batches[f] = m + d
      <4>1. Batches[f] \in Nat
        BY <2>1
      <4>2. Batches[f] - m \in Nat /\ Batches[f] = m + (Batches[f] - m)
        BY <2>3, <4>1, SMTT(20)
      <4> QED BY <4>2
    <3>2. /\ Batches[f] * Chunks = (m - 1) * Chunks + Chunks + d * Chunks
          /\ d * Chunks \in Nat /\ (m - 1) * Chunks \in Nat
      <4>1. m - 1 \in Nat
        BY <2>3
      <4> QED BY <3>1, <4>1
    <3>3. Sizes[f] = Batches[f] * Chunks
      BY <2>1, <2>3 DEF Sizes
    <3>4. \A x, y \in Nat : x + chunk < x + Chunks + y
      BY <2>1
    <3>5. Len(stored[f]) < Batches[f] * Chunks
      BY <2>3, <3>2, <3>4
    <3> QED BY <3>3, <3>5
  <2>5. stored' = [stored EXCEPT ![f] = Append(@, Len(@) + 1)]
    <3>1. stored'[f] = Append(stored[f], Len(stored[f]) + 1)
      BY <1>2, <2>1, <2>2, ChunkIsNext DEF OInv, IInv
    <3>2. stored' = [stored EXCEPT ![f] = stored'[f]]
      BY <1>2, <2>1 DEF PutChunk
    <3> QED BY <3>1, <3>2
  <2> HIDE DEF f
  <2>6. Job!Store(f)
    BY <1>s, <2>1, <2>4, <2>5 DEF Job!Store, Sizes
  <2> QED BY <2>1, <2>6 DEF Job!Next
<1>3. CASE MainThread /\ Persist
  <2>1. \A f \in Inputs : Len(stored[f]) = Sizes[f]
    BY <1>3, StoredAll DEF Persist, Sizes
  <2>2. Job!Succeed
    BY <1>s, <1>3, <2>1 DEF Job!Succeed, Sizes, MainThread, Persist, theWriter
  <2> QED BY <2>2 DEF Job!Next
<1>4. ASSUME outcome = "running", outcome' \in {"failed", "killed"},
             stored' = stored
      PROVE  [Job!Next]_(Job!vars)
  <2>1. Job!Fail
    BY <1>s, <1>4 DEF Job!Fail, Sizes
  <2> QED BY <2>1 DEF Job!Next
<1>5. CASE Writer /\ ~PutChunk
  <2>1. stored' = stored /\ outcome = "running" /\ outcome' \in {"running", "killed"}
    BY <1>5 DEF Writer, Started, Pop, PopEnds, PopWaits, ApplyFails,
                WriterAborts, PutThrows, theMain, theWriter
  <2> QED BY <1>1, <1>4, <2>1
<1>6. CASE MainThread /\ ~Persist
  <2>1. stored' = stored /\ outcome = "running" /\ outcome' \in {"running", "failed"}
    BY <1>6 DEF MainThread, Recreate, EstimateRows, DoubleBuckets, Size,
       CreateIndex, OpenIndex, IndexFails, StartThreads, InitSqlFails, Fails,
       JoinWorkers, EndOfStream, MainAborts, JoinWriter, PersistFails,
       theWriter
  <2> QED BY <1>1, <1>4, <2>1
<1>7. ASSUME NEW w \in Workers, Worker(w) PROVE UNCHANGED <<stored, outcome>>
  BY <1>7 DEF Worker, Check, Claim, ClaimQuery, Open, ReadFails, Read,
     FlushRest, Validate, ValidateFails, AbortQueue, Push, PushWaits,
     PushDrops, theWriter, theMain
<1>8. CASE UNCHANGED vars
  BY <1>1, <1>8 DEF vars
<1> QED BY <1>1, <1>2, <1>3, <1>5, <1>6, <1>7, <1>8 DEF Next, Exited

(* Threads, queue and aborts neither lose, repeat nor reorder the chunks   *)
(* of an input: every behaviour of the pipeline is one of an import that   *)
(* stores them one after the other.                                        *)
THEOREM PipelineImplementsJob == Spec => ImplementsJob
BY OInvInit, OInvStep, JobInit, JobStep, PTL DEF Spec, ImplementsJob, Job!Spec
-----------------------------------------------------------------------------
(* The buckets of a created index.                                         *)

(* 2 ^ n counts the sets of numbers up to n.                               *)
LEMMA PowerCounts ==
    ASSUME NEW n \in Nat
    PROVE  /\ IsFiniteSet(SUBSET (1 .. n))
           /\ 2 ^ n = Cardinality(SUBSET (1 .. n)) /\ 2 ^ n \in Nat \ {0}
<1>1. IsFiniteSet(1 .. n) /\ Cardinality(1 .. n) = n
  BY FS_Interval
<1>2. /\ IsFiniteSet(SUBSET (1 .. n))
      /\ Cardinality(SUBSET (1 .. n)) = 2 ^ Cardinality(1 .. n)
  BY <1>1, FS_SUBSET
<1>3. /\ Cardinality(SUBSET (1 .. n)) \in Nat
      /\ Cardinality(SUBSET (1 .. n)) # 0
  <2>1. SUBSET (1 .. n) # {}
    OBVIOUS
  <2> QED BY <1>2, <2>1, FS_CardinalityType, FS_EmptySet
<1> QED BY <1>1, <1>2, <1>3

LEMMA PowerGrows ==
    ASSUME NEW m \in Nat, NEW n \in Nat, m <= n
    PROVE  2 ^ m <= 2 ^ n
<1>1. SUBSET (1 .. m) \subseteq SUBSET (1 .. n)
  OBVIOUS
<1>2. Cardinality(SUBSET (1 .. m)) <= Cardinality(SUBSET (1 .. n))
  BY <1>1, PowerCounts, FS_Subset
<1> QED BY <1>2, PowerCounts

(* Half of the sets of numbers up to n + 1 contain n + 1.                  *)
LEMMA PowerDoubles ==
    ASSUME NEW n \in Nat
    PROVE  2 ^ (n + 1) = 2 * 2 ^ n
<1> DEFINE Without == SUBSET (1 .. n)
           With == {a \in SUBSET (1 .. n + 1) : n + 1 \in a}
           f == [a \in Without |-> a \cup {n + 1}]
<1>1. SUBSET (1 .. n + 1) = Without \cup With /\ Without \cap With = {}
  <2>1. 1 .. n + 1 = (1 .. n) \cup {n + 1} /\ n + 1 \notin 1 .. n
    OBVIOUS
  <2> QED BY <2>1
<1>2. ExistsBijection(Without, With)
  <2>1. 1 .. n + 1 = (1 .. n) \cup {n + 1} /\ n + 1 \notin 1 .. n
    OBVIOUS
  <2>2. f \in [Without -> With]
    BY <2>1
  <2>3. \A a, b \in Without : a \cup {n + 1} = b \cup {n + 1} => a = b
    BY <2>1
  <2>4. \A c \in With : c \ {n + 1} \in Without /\ (c \ {n + 1}) \cup {n + 1} = c
    BY <2>1
  <2>5. f \in Injection(Without, With)
    BY <2>2, <2>3 DEF Injection, IsInjective
  <2>6. f \in Surjection(Without, With)
    BY <2>2, <2>4 DEF Surjection
  <2>7. f \in Bijection(Without, With)
    BY <2>5, <2>6 DEF Bijection
  <2> QED BY <2>7 DEF ExistsBijection
<1>3. IsFiniteSet(Without) /\ Cardinality(Without) = 2 ^ n /\ 2 ^ n \in Nat
  BY PowerCounts
<1>4. Cardinality(SUBSET (1 .. n + 1)) = 2 ^ (n + 1)
  <2>1. n + 1 \in Nat
    OBVIOUS
  <2> QED BY <2>1, PowerCounts
<1> HIDE DEF Without, With, f
<1>5. IsFiniteSet(With) /\ Cardinality(With) = Cardinality(Without)
  BY <1>2, <1>3, FS_Bijection
<1>6. Cardinality(Without \cup With)
        = Cardinality(Without) + Cardinality(With) - Cardinality({})
  BY <1>1, <1>3, <1>5, FS_Union
<1>7. Cardinality({}) = 0
  BY FS_EmptySet
<1>8. 2 ^ (n + 1) = 2 ^ n + 2 ^ n - 0
  BY <1>1, <1>3, <1>4, <1>5, <1>6, <1>7, Zenon
<1>9. \A x \in Nat : x + x - 0 = 2 * x
  OBVIOUS
<1> QED BY <1>3, <1>8, <1>9

(* The counter is the power of two that the bits say, more than half of it *)
(* below the rows, or it has wrapped to 0.                                 *)
Sized ==
    main = "size" =>
        /\ size.buckets < Wrap
        /\ size.buckets # 0 =>
              /\ size.bits >= 1 /\ size.buckets = 2 ^ size.bits
              /\ size.bits > 1 => size.rows > 2 ^ (size.bits - 1)

BInv == Typed /\ Sized /\ BucketsFitRows

LEMMA WrapIsPower ==
    ASSUME NEW b \in Nat, 2 ^ b < Wrap
    PROVE  (2 * 2 ^ b) % Wrap \in {0, 2 ^ (b + 1)}
<1>1. PICK w \in 0 .. Wrap : Wrap = 2 ^ w
  BY ImportAssumption
<1>2. w \in Nat /\ Wrap \in Nat \ {0} /\ 2 ^ b \in Nat
  <2>1. Wrap \in Nat \ {0}
    BY ImportAssumption
  <2>2. 2 ^ b \in Nat
    BY PowerCounts
  <2> QED BY <1>1, <2>1, <2>2
<1>3. b + 1 <= w
  <2>1. CASE w <= b
    <3>1. 2 ^ w <= 2 ^ b
      BY <1>2, <2>1, PowerGrows
    <3> QED BY <1>1, <1>2, <3>1
  <2> QED BY <1>2, <2>1
<1>4. 2 * 2 ^ b = 2 ^ (b + 1) /\ b + 1 \in Nat
  BY PowerDoubles
<1>5. 2 ^ (b + 1) <= Wrap /\ 2 ^ (b + 1) \in Nat
  BY <1>1, <1>2, <1>3, <1>4, PowerGrows, PowerCounts
<1>6. \A x \in Nat, y \in Nat \ {0} : x <= y => x % y \in {0, x}
  <2>1. \A x \in Nat, y \in Nat \ {0} : x < y => x % y = x
    OBVIOUS
  <2>2. \A y \in Nat \ {0} : y % y = 0
    OBVIOUS
  <2> QED BY <2>1, <2>2
<1> QED BY <1>2, <1>4, <1>5, <1>6

(* The process starts before the loop.                                     *)
LEMMA BInvInit == Init => BInv
<1> SUFFICES ASSUME Init PROVE BInv
  OBVIOUS
<1>1. Typed
  BY TypedInit
<1>2. main = "remove"
  BY DEF Init
<1> QED BY <1>1, <1>2 DEF BInv, Sized, BucketsFitRows

(* One bit and two buckets, or none when the counter cannot hold two.      *)
LEMMA LoopStarts ==
    ASSUME BInv, EstimateRows
    PROVE  Sized' /\ BucketsFitRows'
<1>1. PICK r \in RowCounts : size' = [rows |-> r, bits |-> 1, buckets |-> 2 % Wrap]
  BY DEF EstimateRows
<1>2. main' = "size"
  BY DEF EstimateRows
<1>3. Wrap \in Nat \ {0}
  BY ImportAssumption
<1>4. 2 % Wrap < Wrap /\ 2 % Wrap \in {0, 2}
  <2>1. CASE Wrap = 1
    BY <2>1
  <2>2. CASE Wrap = 2
    BY <2>2
  <2>3. CASE Wrap > 2
    BY <1>3, <2>3
  <2> QED BY <1>3, <2>1, <2>2, <2>3
<1>5. 2 ^ 1 = 2
  OBVIOUS
<1> QED BY <1>1, <1>2, <1>4, <1>5 DEF Sized, BucketsFitRows

(* A step of the loop was too few buckets before it.                       *)
LEMMA LoopGoesOn ==
    ASSUME BInv, DoubleBuckets
    PROVE  Sized' /\ BucketsFitRows'
<1> DEFINE b == size.bits
           k == size.buckets
           r == size.rows
<1>1. /\ main = "size" /\ main' = "size"
      /\ r > 0 /\ k < r
      /\ size' = [size EXCEPT !.buckets = (2 * k) % Wrap,
                             !.bits = IF k = 0 THEN b ELSE b + 1]
  BY DEF DoubleBuckets, TooFewBuckets
<1>2. /\ size \in [rows : RowCounts, bits : Nat, buckets : RowCounts]
      /\ Wrap \in Nat \ {0}
  BY ImportAssumption DEF BInv, Typed, TypeOK
<1>3. /\ size'.rows = r
      /\ size'.buckets = (2 * k) % Wrap
      /\ size'.bits = IF k = 0 THEN b ELSE b + 1
  BY <1>1, <1>2
<1>4. r \in Nat /\ k \in Nat /\ b \in Nat /\ r < Wrap /\ k < Wrap
  BY <1>2 DEF RowCounts
<1>5. (2 * k) % Wrap < Wrap
  <2>1. \A x \in Nat, y \in Nat \ {0} : x % y < y
    OBVIOUS
  <2>2. 2 * k \in Nat
    BY <1>4
  <2> QED BY <1>2, <2>1, <2>2
<1>6. CASE k = 0
  <2>1. size'.buckets = 0
    <3>1. \A y \in Nat \ {0} : (2 * 0) % y = 0
      OBVIOUS
    <3> QED BY <1>2, <1>3, <1>6, <3>1
  <2> QED BY <1>1, <1>2, <2>1 DEF Sized, BucketsFitRows
<1>7. CASE k # 0
  <2>1. b >= 1 /\ k = 2 ^ b
    BY <1>1, <1>7 DEF BInv, Sized
  <2>2. size'.buckets \in {0, 2 ^ (b + 1)} /\ size'.bits = b + 1
    BY <1>3, <1>4, <1>7, <2>1, WrapIsPower
  <2>3. (b + 1) - 1 = b /\ b + 1 >= 1 /\ r > k
    BY <1>1, <1>4
  <2>4. size'.rows > 2 ^ (size'.bits - 1)
    BY <1>3, <2>1, <2>2, <2>3
  <2> QED BY <1>1, <1>3, <1>5, <2>2, <2>3, <2>4 DEF Sized, BucketsFitRows
<1> QED BY <1>6, <1>7

(* The loop ends with as many buckets as rows, and the bits are cut.       *)
LEMMA LoopEnds ==
    ASSUME BInv, Size
    PROVE  Sized' /\ BucketsFitRows'
<1> DEFINE b == size.bits
           r == size.rows
<1>1. /\ main = "size" /\ main' = "index"
      /\ r = 0 \/ ~(size.buckets < r)
      /\ size' = [size EXCEPT !.bits = BucketBits]
  BY DEF Size, TooFewBuckets
<1>2. /\ size \in [rows : RowCounts, bits : Nat, buckets : RowCounts]
      /\ MaxBits \in Nat \ {0} /\ Wrap \in Nat \ {0}
  BY ImportAssumption DEF BInv, Typed, TypeOK
<1>3. size'.rows = r /\ size'.bits = BucketBits
  BY <1>1, <1>2
<1>4. r \in Nat /\ size.buckets \in Nat /\ b \in Nat
  BY <1>2 DEF RowCounts
<1>5. CASE r = 0
  BY <1>1, <1>3, <1>5 DEF Sized, BucketsFitRows
<1>6. CASE r # 0
  <2>1. r <= size.buckets /\ size.buckets # 0
    BY <1>1, <1>4, <1>6
  <2>2. b >= 1 /\ r <= 2 ^ b /\ (b > 1 => r > 2 ^ (b - 1))
    BY <1>1, <2>1 DEF BInv, Sized
  <2>3. CASE b > MaxBits
    <3>1. size'.bits = MaxBits
      BY <1>3, <1>6, <2>3 DEF BucketBits
    <3>2. MaxBits > 1 => r > 2 ^ (MaxBits - 1)
      <4>1. SUFFICES ASSUME MaxBits > 1 PROVE r > 2 ^ (MaxBits - 1)
        OBVIOUS
      <4>2. /\ b > 1 /\ MaxBits - 1 <= b - 1
            /\ MaxBits - 1 \in Nat /\ b - 1 \in Nat
        BY <1>2, <1>4, <2>3, <4>1
      <4>3. 2 ^ (MaxBits - 1) <= 2 ^ (b - 1)
        BY <4>2, PowerGrows
      <4>4. 2 ^ (MaxBits - 1) \in Nat /\ 2 ^ (b - 1) \in Nat
        BY <4>2, PowerCounts
      <4>5. \A x, y, z \in Nat : x <= y /\ z > y => z > x
        OBVIOUS
      <4> QED BY <1>4, <2>2, <4>2, <4>3, <4>4, <4>5
    <3>3. MaxBits \in 1 .. MaxBits
      BY <1>2
    <3> QED BY <1>1, <1>3, <3>1, <3>2, <3>3 DEF Sized, BucketsFitRows
  <2>4. CASE ~(b > MaxBits)
    <3>1. size'.bits = b
      BY <1>3, <1>6, <2>4 DEF BucketBits
    <3>2. b \in 1 .. MaxBits
      BY <1>2, <1>4, <2>2, <2>4
    <3> QED BY <1>1, <1>3, <2>2, <3>1, <3>2 DEF Sized, BucketsFitRows
  <2> QED BY <2>3, <2>4
<1> QED BY <1>5, <1>6

(* main is in the loop, or about to create the index, after those steps    *)
(* only; the threads leave the loop alone.                                 *)
LEMMA BInvStep == BInv /\ [Next]_vars => BInv'
<1> SUFFICES ASSUME BInv, [Next]_vars PROVE BInv'
  OBVIOUS
<1>1. Typed'
  BY TypedStep DEF BInv
<1>2. CASE UNCHANGED <<main, size>>
  BY <1>1, <1>2 DEF BInv, Sized, BucketsFitRows
<1>3. CASE EstimateRows
  BY <1>1, <1>3, LoopStarts DEF BInv
<1>4. CASE DoubleBuckets
  BY <1>1, <1>4, LoopGoesOn DEF BInv
<1>5. CASE Size
  BY <1>1, <1>5, LoopEnds DEF BInv
<1>6. CASE main' \notin {"size", "index"}
  BY <1>1, <1>6 DEF BInv, Sized, BucketsFitRows
<1>7. \/ UNCHANGED <<main, size>> \/ EstimateRows \/ DoubleBuckets \/ Size
      \/ main' \notin {"size", "index"}
  <2>1. CASE UNCHANGED vars
    BY <2>1 DEF vars
  <2>2. CASE Writer
    BY <2>2 DEF Writer, Pop, PopEnds, PopWaits, PutChunk, ApplyFails,
                WriterAborts, PutThrows, theMain
  <2>3. ASSUME NEW w \in Workers, Worker(w)
        PROVE  UNCHANGED <<main, size>>
    BY <2>3 DEF Worker, Check, Claim, ClaimQuery, Open, ReadFails, Read,
                FlushRest, Validate, ValidateFails, AbortQueue, Push,
                PushWaits, PushDrops, theMain
  <2>4. CASE MainThread
    BY <2>4 DEF MainThread, Recreate, CreateIndex, OpenIndex, IndexFails,
                Fails, StartThreads, InitSqlFails, JoinWorkers, EndOfStream,
                MainAborts, JoinWriter, Persist, PersistFails
  <2> QED BY <2>1, <2>2, <2>3, <2>4 DEF Next, Exited
<1> QED BY <1>2, <1>3, <1>4, <1>5, <1>6, <1>7

(* The index that main creates has a bucket for every estimated row and    *)
(* less than twice as many, up to the limit, whatever the estimate:        *)
(* BucketBitsForRows leaves its loop only with such a number of bits, also *)
(* where its counter can wrap.                                             *)
THEOREM BucketsFit == Spec => []BucketsFitRows
<1>1. BInv => BucketsFitRows
  BY DEF BInv
<1> QED BY BInvInit, BInvStep, <1>1, PTL DEF Spec
-----------------------------------------------------------------------------
(* The condition variables of the queue.                                   *)

(* Who waits is where it waits; the stream ends after the producers, or by *)
(* an abort, and before the writer leaves and main joins it; nobody aborts *)
(* before the threads.                                                     *)
Awaited ==
    /\ NobodyWaitsInVain
    /\ waitingFull # {} => ~eos
    /\ \A w \in waitingFull : pc[w] = "push"
    /\ aborted => eos
    /\ eos /\ ~aborted => main \in {"join", "persist", "exit"}
    /\ writer = "done" => eos
    /\ main \in {"join", "persist"} => eos
    /\ main \in BeforeThreads => ~aborted

AInv == Typed /\ JoinedThreads /\ Awaited

LEMMA AwaitedInit == Init => Awaited
BY DEF Init, Awaited, NobodyWaitsInVain

(* What the threads look at does not change, or a label that is none of    *)
(* those they wait at does.                                                *)
LEMMA AwaitedUnchanged ==
    ASSUME Awaited, UNCHANGED <<theQueue, main>>,
           writer' = writer \/ writer' # "done",
           \A w \in waitingFull : pc'[w] = pc[w]
    PROVE  Awaited'
BY DEF Awaited, NobodyWaitsInVain, theQueue

LEMMA AwaitedAbort ==
    ASSUME Awaited, Abort,
           main \notin BeforeThreads, main' = main \/ main' = "join"
    PROVE  Awaited'
BY DEF Awaited, NobodyWaitsInVain, Abort, BeforeThreads

(* The thread is not past the join while a worker or the writer runs.      *)
LEMMA NotEnded ==
    ASSUME AInv, Started
    PROVE  /\ main \in {"publish", "eos", "abort", "join", "persist"}
           /\ ~eos => main \in {"publish", "eos", "abort"}
           /\ (\E w \in Workers : pc[w] # "done") => main = "publish"
           /\ (\E w \in Workers : pc[w] # "done") /\ ~aborted => ~eos
<1>1. main \in {"publish", "eos", "abort", "join", "persist"}
  BY DEF AInv, Typed, TypeOK, MainLabels, Started, JoinedThreads
<1>2. ~eos => main \in {"publish", "eos", "abort"}
  BY <1>1 DEF AInv, Awaited
<1>3. (\E w \in Workers : pc[w] # "done") => main = "publish"
  BY <1>1 DEF AInv, JoinedThreads
<1> QED BY <1>1, <1>2, <1>3 DEF AInv, Awaited

LEMMA AwaitedWorker ==
    ASSUME AInv, NEW w \in Workers, Worker(w)
    PROVE  Awaited'
<1>t. /\ pc \in [Workers -> WorkerLabels]
      /\ queue \in Seq(ParsedBatch) /\ Len(queue) \in Nat
      /\ Len(queue) <= Slots /\ Slots \in Nat /\ Slots > 0
      /\ waitingFull \subseteq Workers
  BY SlotsType DEF AInv, Typed, TypeOK
<1>1. CASE /\ UNCHANGED <<theQueue, main, writer>>
           /\ \A v \in Workers \ {w} : pc'[v] = pc[v]
           /\ pc[w] # "push" \/ w \notin waitingFull
  <2>1. \A v \in waitingFull : pc'[v] = pc[v]
    BY <1>t, <1>1 DEF AInv, Awaited
  <2> QED BY <1>1, <2>1, AwaitedUnchanged DEF AInv
<1>2. CASE \/ Check(w) \/ Claim(w) \/ ClaimQuery(w) \/ Open(w)
           \/ Read(w) \/ FlushRest(w)
  BY <1>t, <1>1, <1>2 DEF Check, Claim, ClaimQuery, Open, Read, FlushRest,
                          Goto, theWriter, theMain
<1>3. CASE \/ ReadFails(w) \/ Validate(w) \/ ValidateFails(w) \/ PushDrops(w)
  BY <1>t, <1>1, <1>3 DEF ReadFails, Validate, ValidateFails, PushDrops,
                          Pushed, Goto, theWriter, theMain
<1>4. CASE AbortQueue(w)
  <2>1. Abort /\ UNCHANGED main
    BY <1>4 DEF AbortQueue, theMain
  <2>2. main \notin BeforeThreads
    BY DEF Worker, Started
  <2> QED BY <2>1, <2>2, AwaitedAbort DEF AInv
<1>5. CASE Push(w)
  <2>1. /\ Len(queue) < Slots /\ ~waitingEmpty'
        /\ UNCHANGED <<eos, aborted, waitingFull, writer, main>>
    BY <1>5 DEF Push, theWriter, theMain
  <2>2. waitingFull = {}
    BY <1>t, <2>1 DEF AInv, Awaited, NobodyWaitsInVain
  <2> QED BY <2>1, <2>2 DEF AInv, Awaited, NobodyWaitsInVain
<1>6. CASE PushWaits(w)
  <2>1. /\ pc[w] = "push" /\ ~aborted /\ Len(queue) >= Slots
        /\ waitingFull' = waitingFull \cup {w}
        /\ UNCHANGED <<queue, eos, aborted, waitingEmpty, pc, writer, main>>
    BY <1>6 DEF PushWaits, theWorkers, theWriter, theMain
  <2>2. ~eos
    BY <2>1, NotEnded DEF Worker
  <2>3. Len(queue) = Slots /\ queue # <<>>
    BY <1>t, <2>1
  <2>4. ~waitingEmpty /\ writer # "done"
    BY <2>2, <2>3 DEF AInv, Awaited, NobodyWaitsInVain
  <2> QED BY <2>1, <2>2, <2>3, <2>4 DEF AInv, Awaited, NobodyWaitsInVain
<1> QED BY <1>2, <1>3, <1>4, <1>5, <1>6 DEF Worker

LEMMA AwaitedWriter ==
    ASSUME AInv, Writer
    PROVE  Awaited'
<1>1. CASE Pop
  <2>1. /\ ~waitingEmpty /\ waitingFull' = {} /\ writer' = "write"
        /\ UNCHANGED <<eos, aborted, waitingEmpty, pc, main>>
    BY <1>1 DEF Pop, theWorkers, theMain
  <2> QED BY <2>1 DEF AInv, Awaited, NobodyWaitsInVain
<1>2. CASE PopEnds
  <2>1. /\ ~waitingEmpty /\ writer' = "done"
        /\ eos \/ aborted
        /\ UNCHANGED <<theQueue, pc, main>>
    BY <1>2 DEF PopEnds, theWorkers, theMain
  <2>2. eos /\ waitingFull = {}
    BY <2>1 DEF AInv, Awaited
  <2> QED BY <2>1, <2>2 DEF AInv, Awaited, NobodyWaitsInVain, theQueue
<1>3. CASE PopWaits
  <2>1. /\ queue = <<>> /\ ~eos /\ waitingEmpty'
        /\ UNCHANGED <<queue, eos, aborted, waitingFull, pc, writer, main>>
    BY <1>3 DEF PopWaits, theWorkers, theWriter, theMain
  <2>2. waitingFull = {}
    <3>1. Len(queue) = 0
      BY <2>1
    <3> QED BY <3>1, SlotsType DEF AInv, Awaited, NobodyWaitsInVain
  <2>3. main \in {"publish", "eos", "abort"}
    BY <2>1, NotEnded DEF Writer
  <2> QED BY <2>1, <2>2, <2>3 DEF AInv, Awaited, NobodyWaitsInVain
<1>4. CASE WriterAborts
  <2>1. Abort /\ UNCHANGED main
    BY <1>4 DEF WriterAborts, theMain
  <2>2. main \notin BeforeThreads
    BY DEF Writer, Started
  <2> QED BY <2>1, <2>2, AwaitedAbort DEF AInv
<1>5. CASE PutChunk \/ ApplyFails \/ PutThrows
  <2>1. /\ UNCHANGED <<theQueue, pc, main>>
        /\ writer' = writer \/ writer' # "done"
    BY <1>5 DEF PutChunk, ApplyFails, PutThrows, theWorkers, theWriter, theMain
  <2> QED BY <2>1, AwaitedUnchanged DEF AInv
<1> QED BY <1>1, <1>2, <1>3, <1>4, <1>5 DEF Writer

LEMMA AwaitedMain ==
    ASSUME AInv, MainThread
    PROVE  Awaited'
<1>1. CASE EndOfStream
  <2>1. /\ main = "eos" /\ main' = "join" /\ eos' /\ ~waitingEmpty'
        /\ UNCHANGED <<queue, aborted, waitingFull, pc, writer>>
    BY <1>1 DEF EndOfStream, PushEos, theWorkers, theWriter
  <2>2. waitingFull = {}
    <3>1. \A w \in Workers : pc[w] = "done"
      BY <2>1 DEF AInv, JoinedThreads
    <3> QED BY <3>1 DEF AInv, Awaited, Typed, TypeOK
  <2> QED BY <2>1, <2>2 DEF AInv, Awaited, NobodyWaitsInVain, BeforeThreads
<1>2. CASE MainAborts
  <2>1. Abort /\ main' = "join"
    BY <1>2 DEF MainAborts
  <2>2. main \notin BeforeThreads
    BY <1>2 DEF MainAborts, BeforeThreads
  <2> QED BY <2>1, <2>2, AwaitedAbort DEF AInv
<1>3. CASE JoinWorkers
  <2>1. /\ main = "publish" /\ main' \in {"eos", "abort"}
        /\ UNCHANGED <<theQueue, pc, writer>>
    BY <1>3 DEF JoinWorkers, theWorkers, theWriter
  <2> QED BY <2>1
          DEF AInv, Awaited, NobodyWaitsInVain, BeforeThreads, theQueue
<1>4. CASE JoinWriter \/ Persist \/ PersistFails
  <2>1. /\ main \in {"join", "persist"} /\ main' \in {"persist", "exit"}
        /\ UNCHANGED <<theQueue, pc, writer>>
    BY <1>4 DEF JoinWriter, Persist, PersistFails, theWorkers, theWriter
  <2> QED BY <2>1
          DEF AInv, Awaited, NobodyWaitsInVain, BeforeThreads, theQueue
<1>5. CASE /\ main \in BeforeThreads
           /\ main' \in BeforeThreads \cup {"publish", "exit"}
           /\ UNCHANGED <<theQueue, pc, writer>>
  <2>1. ~eos /\ ~waitingEmpty
    BY <1>5 DEF AInv, Awaited, NobodyWaitsInVain, BeforeThreads
  <2> QED BY <1>5, <2>1
          DEF AInv, Awaited, NobodyWaitsInVain, BeforeThreads, theQueue
<1>6. CASE \/ Recreate \/ EstimateRows \/ DoubleBuckets \/ Size
           \/ CreateIndex \/ OpenIndex \/ IndexFails \/ StartThreads
           \/ InitSqlFails
  BY <1>5, <1>6 DEF Recreate, EstimateRows, DoubleBuckets, Size, CreateIndex,
                    OpenIndex, IndexFails, StartThreads, InitSqlFails, Fails,
                    BeforeThreads, theWorkers, theWriter
<1> QED BY <1>1, <1>2, <1>3, <1>4, <1>6 DEF MainThread

LEMMA AwaitedStep == AInv /\ [Next]_vars => Awaited'
<1> SUFFICES ASSUME AInv, [Next]_vars PROVE Awaited'
  OBVIOUS
<1>1. CASE Exited \/ UNCHANGED vars
  <2>1. UNCHANGED <<theQueue, pc, writer, main>>
    BY <1>1 DEF Exited, vars, theQueue
  <2> QED BY <2>1, AwaitedUnchanged DEF AInv
<1> QED BY <1>1, AwaitedWorker, AwaitedWriter, AwaitedMain DEF Next

(* Whatever fails and however the threads interleave, a producer waits for *)
(* room only at a full queue with a writer that still pops or aborts, and  *)
(* the writer only at an empty queue whose end is still to come: Push,     *)
(* Pop, PushEos and Abort lose no notify, and no two threads wait for each *)
(* other.                                                                  *)
THEOREM NoLostNotify == Spec => []NobodyWaitsInVain
<1>1. Init => AInv
  BY IInvInit, AwaitedInit DEF IInv, AInv
<1>2. IInv /\ AInv /\ [Next]_vars => AInv'
  BY IInvStep, AwaitedStep DEF IInv, AInv
<1>3. AInv => NobodyWaitsInVain
  BY DEF AInv, Awaited
<1> QED BY IInvInit, IInvStep, <1>1, <1>2, <1>3, PTL DEF Spec
=============================================================================
