---------------------------- MODULE TableWriters ----------------------------
(***************************************************************************)
(* The writers of one open table: the KafkaSource consumer thread          *)
(* (kafka/kafka_source.cc), which applies the messages of one partition in *)
(* order and saves the offset of the last one in kafka.offset, and the     *)
(* RPC threads in HandlePut and HandlePutBatch (db/handlers.cc), which     *)
(* hold the table's write_mu.                                              *)
(*                                                                         *)
(* The consumers of the index follow one another: each is joined before    *)
(* the next one starts, and no other uses its kafka.offset.  That is so    *)
(* across shutdowns, crashes and starts of the server, and across reloads  *)
(* to another build and back.  A reload of the directory that is served    *)
(* starts the next consumer first; exclusive_arena_lock, which is on by    *)
(* default, refuses it (Registry's OneConsumerPerArena), and without the   *)
(* lock two consumers overlap (OneConsumerPerOffsetFile there), of which   *)
(* this module says nothing.                                               *)
(*                                                                         *)
(* A KVIndex call is atomic and survives the process: the index is a       *)
(* mapped file.  What a thread computes between calls does not.            *)
(***************************************************************************)
EXTENDS Integers, Sequences, FiniteSets, StreamMerge

CONSTANTS Topic,        \* the messages of the partition, each a Seq(Item)
          Before,       \* the rows before the first message
          Included,     \* how many messages the imported rows contain
          Writers,      \* RPC threads
          NoWriter,     \* write_mu is free
          Requests,     \* the PutBatch requests that may come
          MaxPuts,      \* how many of them come at most
          PutsUntil,    \* how long the partition is at most when they do
          MaxRestarts,  \* how often the consumer goes away at most
          Faults        \* which of "crash", "open", "disk", "kafka", "setup"
                        \* and "freed" may happen

VARIABLES phase,        \* "import", "serve", or "failed" imports
          watermark,    \* the first message that is not older than the
                        \* import's watermark less the rewind, or the end
          produced,     \* messages in the partition so far
          offsetFile,   \* the number in kafka.offset, NoOffset without one
          rows,         \* the table
          consumer,     \* where the consumer thread is
          stop,         \* KafkaSource::stop_
          next,         \* offset of the next message to be delivered
          items, item,  \* the message being applied and the place in it
          doc,          \* the merged document that is about to be put
          restarts,     \* how often the consumer went away
          lossy,        \* an offset was lost: messages may have been
                        \* applied again by a later consumer
          handled,      \* offsets whose message has been applied or rejected
          mu,           \* write_mu: its holder or NoWriter
          pc, request,  \* where an RPC thread is, and its request
          row,          \* the place in the request
          puts,         \* requests so far
          lastPut       \* the last request if it was answered ok

theRun == <<phase, watermark, produced, stop, restarts>>
theConsumer == <<offsetFile, consumer, next, items, item, doc, lossy,
                 handled>>
theWriters == <<mu, pc, request, row, puts, lastPut>>
vars == <<theRun, rows, theConsumer, theWriters>>

(* A request is a sequence of rows; a row without a field value does not   *)
(* convert (ApplyRowToDoc) or has no key (ExtractPkString).                *)
PutRow == [pk : Pks, ok : BOOLEAN, a : Values, tags : Seq(Values)]

ASSUME WritersAssumption ==
    /\ Topic \in Seq(Seq(Item))
    /\ Before \in Table
    /\ Included \in 0 .. Len(Topic)
    /\ NoWriter \notin Writers
    /\ Requests \subseteq Seq(PutRow) \ {<<>>}
    /\ MaxPuts \in Nat
    /\ PutsUntil \in Nat
    /\ MaxRestarts \in Nat

Offsets == 0 .. Len(Topic) - 1

(* No file, an empty one or a negative number: LoadOffset does not tell    *)
(* them apart.                                                             *)
NoOffset == -1
Message(offset) == Topic[offset + 1]

(* The items that the first n messages apply, one after the other.         *)
AppliedItems ==
    LET upTo[n \in 0 .. Len(Topic)] ==
            IF n = 0 THEN <<>> ELSE upTo[n - 1] \o Effective(Topic[n])
    IN  upTo

(* The table after the first i items of the topic, applied once each.      *)
RowsAfter ==
    LET all == AppliedItems[Len(Topic)]
        after[i \in 0 .. Len(all)] ==
            IF i = 0 THEN Before ELSE ApplyItem(after[i - 1], all[i])
    IN  after

(* The table after the first n messages, and what the import stored.       *)
TableAfter(n) == RowsAfter[Len(AppliedItems[n])]
Base == TableAfter(Included)
-----------------------------------------------------------------------------
(* An import with --kafka_catchup, or an index that was imported without.  *)
Init ==
    /\ phase \in {"import", "serve"}
    /\ watermark \in 0 .. Included
    /\ produced = Included
    /\ offsetFile = NoOffset
    /\ rows = Base
    /\ consumer = "off"
    /\ stop = FALSE
    /\ next = 0
    /\ items = <<>>
    /\ item = 1
    /\ doc = NewDoc
    /\ restarts = 0
    /\ lossy = (phase = "serve" /\ Included > 0)
    /\ handled = 0 .. Included - 1
    /\ mu = NoWriter
    /\ pc = [w \in Writers |-> "idle"]
    /\ request = [w \in Writers |-> <<>>]
    /\ row = [w \in Writers |-> 1]
    /\ puts = 0
    /\ lastPut = <<>>
-----------------------------------------------------------------------------
(* The partition.                                                          *)

Produce ==
    /\ produced < Len(Topic)
    /\ puts > 0 => produced < PutsUntil
    /\ produced' = produced + 1
    /\ UNCHANGED <<phase, watermark, stop, restarts, rows, theConsumer,
                   theWriters>>
-----------------------------------------------------------------------------
(* RunKafkaImportCatchup, in the import process.                           *)

(* offsets_for_times answers the first message at or after the watermark   *)
(* less the rewind, or no offset (-1), and then it is the beginning.       *)
Seek ==
    /\ phase = "import" /\ consumer = "off"
    /\ next' = IF watermark < produced THEN watermark ELSE 0
    /\ consumer' = "poll"
    /\ lossy' = IF next' < Included THEN TRUE ELSE lossy
    /\ UNCHANGED <<theRun, rows, offsetFile, items, item, doc, handled,
                   theWriters>>

(* The end of the partition and some silence, or the wall-clock limit.     *)
CatchUpEnds ==
    /\ phase = "import" /\ consumer = "poll"
    /\ consumer' = "truncate"
    /\ UNCHANGED <<theRun, rows, offsetFile, next, items, item, doc, lossy,
                   handled, theWriters>>

(* An error return: of the set-up, of offsets_for_times or of a consume,   *)
(* or too many idle polls.                                                 *)
CatchUpFails ==
    /\ "kafka" \in Faults
    /\ phase = "import" /\ consumer \in {"off", "poll"}
    /\ phase' = "failed"
    /\ consumer' = "off"
    /\ UNCHANGED <<watermark, produced, stop, restarts, rows, offsetFile, next,
                   items, item, doc, lossy, handled, theWriters>>
-----------------------------------------------------------------------------
(* KafkaSource.                                                            *)

(* Mutant: resume at the committed message itself.                         *)
LoadCommitted == IF offsetFile >= 0 THEN offsetFile ELSE 0

LoadOffset == IF offsetFile >= 0 THEN offsetFile + 1 ELSE 0

(* Start(), and ConsumeLoop up to its first poll.                          *)
Start ==
    /\ phase = "serve" /\ consumer = "off" /\ ~stop
    /\ consumer' = "poll"
    /\ next' = LoadOffset
    /\ UNCHANGED <<theRun, rows, offsetFile, items, item, doc, lossy, handled,
                   theWriters>>

(* A call of the set-up fails: it is logged and the thread ends.  Nothing  *)
(* starts it again before the slot is replaced.                            *)
StartFails ==
    /\ "setup" \in Faults
    /\ phase = "serve" /\ consumer = "off" /\ ~stop
    /\ consumer' = "dead"
    /\ UNCHANGED <<theRun, rows, offsetFile, next, items, item, doc, lossy,
                   handled, theWriters>>

(* The payload is parsed after the message was destroyed: what is read may *)
(* be no JSON any more, or another message's text in the same memory.      *)
Payloads(offset) ==
    {Message(offset)} \cup
    (IF "freed" \in Faults
     THEN {<<>>} \cup {Message(o) : o \in 0 .. produced - 1}
     ELSE {})

(* Mutant: the offset is saved when the message is delivered.              *)
SaveOnDelivery ==
    /\ consumer = "poll" /\ ~stop
    /\ next < produced
    /\ items' \in Payloads(next)
    /\ item' = 1
    /\ next' = next + 1
    /\ offsetFile' = next
    /\ consumer' = "apply"
    /\ UNCHANGED <<theRun, rows, doc, lossy, handled, theWriters>>

Consume ==
    /\ consumer = "poll" /\ ~stop
    /\ next < produced
    /\ items' \in Payloads(next)
    /\ item' = 1
    /\ next' = next + 1
    /\ consumer' = "apply"
    /\ UNCHANGED <<theRun, rows, offsetFile, doc, lossy, handled, theWriters>>

(* The item that is applied and the row it finds.                          *)
This == items[item]
Old == rows[This.pk]

(* Logged and left out: no object, no key, unknown operation, an array     *)
(* field that is no array, or an insert of a key that exists.              *)
SkipItem ==
    /\ consumer = "apply" /\ item <= Len(items)
    /\ This.op \in {"skip", "insert"} /\ ~Puts(Old, This)
    /\ item' = item + 1
    /\ UNCHANGED <<theRun, rows, offsetFile, consumer, next, items, doc, lossy,
                   handled, theWriters>>

DeleteItem ==
    /\ consumer = "apply" /\ item <= Len(items)
    /\ This.op = "delete"
    /\ rows' = [rows EXCEPT ![This.pk] = Absent]
    /\ item' = item + 1
    /\ UNCHANGED <<theRun, offsetFile, consumer, next, items, doc, lossy,
                   handled, theWriters>>

(* Get the old row and merge the object into a copy of it ...              *)
MergeItem ==
    /\ consumer = "apply" /\ item <= Len(items)
    /\ Puts(Old, This)
    /\ doc' = DocOf(Old, This)
    /\ consumer' = "write"
    /\ UNCHANGED <<theRun, rows, offsetFile, next, items, item, lossy, handled,
                   theWriters>>

(* ... and put it.                                                         *)
WriteItem ==
    /\ consumer = "write"
    /\ rows' = [rows EXCEPT ![This.pk] = doc]
    /\ item' = item + 1
    /\ consumer' = "apply"
    /\ UNCHANGED <<theRun, offsetFile, next, items, doc, lossy, handled,
                   theWriters>>

(* The message is through, or an exception ends it.                        *)
MessageDone ==
    /\ consumer = "apply"
    /\ item <= Len(items) => This.op = "throw"
    /\ handled' = IF items = Message(next - 1) THEN handled \cup {next - 1}
                  ELSE handled
    /\ consumer' = IF phase = "import" THEN "poll" ELSE "truncate"
    /\ UNCHANGED <<theRun, rows, offsetFile, next, items, item, doc, lossy,
                   theWriters>>

(* SaveOffset: opening the file empties it, closing it writes the number.  *)
Truncate ==
    /\ consumer = "truncate"
    /\ offsetFile' = NoOffset
    /\ consumer' = "save"
    /\ UNCHANGED <<theRun, rows, next, items, item, doc, lossy, handled,
                   theWriters>>

(* Logged and forgotten by the consumer; an exception in the import.       *)
TruncateFails ==
    /\ "open" \in Faults
    /\ consumer = "truncate"
    /\ IF phase = "import" THEN phase' = "failed" /\ consumer' = "off"
       ELSE consumer' = "poll" /\ UNCHANGED phase
    /\ lossy' = TRUE
    /\ UNCHANGED <<watermark, produced, stop, restarts, rows, offsetFile, next,
                   items, item, doc, handled, theWriters>>

(* The consumer goes on.  The import writes kafka_meta.json, and ends: its *)
(* index is served, unless the meta could not be opened.                   *)
Saved ==
    /\ consumer' = IF phase = "import" THEN "off" ELSE "poll"
    /\ \/ phase' = "serve"
       \/ phase = "import" /\ "open" \in Faults /\ phase' = "failed"
    /\ UNCHANGED <<watermark, produced, stop, restarts, rows, next, items,
                   item, doc, handled, theWriters>>

(* Mutant: the offset to read next is saved.                               *)
SaveNext ==
    /\ consumer = "save"
    /\ offsetFile' = next
    /\ Saved
    /\ UNCHANGED lossy

Save ==
    /\ consumer = "save"
    /\ offsetFile' = next - 1
    /\ Saved
    /\ UNCHANGED lossy

(* The write fails: nobody looks.                                          *)
SaveFails ==
    /\ "disk" \in Faults
    /\ consumer = "save"
    /\ lossy' = TRUE
    /\ Saved
    /\ UNCHANGED offsetFile

(* The server shuts down, or ReloadTable has swapped in another build:     *)
(* Stop() sets the flag and joins.  The build's next consumer comes when   *)
(* its index is opened again, which is after that.                         *)
StopConsumer ==
    /\ phase = "serve" /\ consumer # "off" /\ ~stop
    /\ restarts < MaxRestarts
    /\ stop' = TRUE
    /\ restarts' = restarts + 1
    /\ UNCHANGED <<phase, watermark, produced, rows, theConsumer, theWriters>>

(* Mutant: the flag survives the source it belongs to.                     *)
JoinedAndStopped ==
    /\ consumer \in {"poll", "dead"} /\ stop
    /\ consumer' = "off"
    /\ UNCHANGED <<theRun, rows, offsetFile, next, items, item, doc, lossy,
                   handled, theWriters>>

(* The loop sees the flag, or has ended before.  A later Start is another  *)
(* KafkaSource's.                                                          *)
Joined ==
    /\ consumer \in {"poll", "dead"} /\ stop
    /\ consumer' = "off"
    /\ stop' = FALSE
    /\ UNCHANGED <<phase, watermark, produced, restarts, rows, offsetFile,
                   next, items, item, doc, lossy, handled, theWriters>>

Consumer ==
    \/ Seek \/ CatchUpEnds \/ CatchUpFails
    \/ Start \/ StartFails
    \/ Consume \/ SkipItem \/ DeleteItem \/ MergeItem \/ WriteItem
    \/ MessageDone \/ Truncate \/ TruncateFails \/ Save \/ SaveFails
    \/ StopConsumer \/ Joined

(* The process is killed: a server comes back, an import does not.         *)
Crash ==
    /\ "crash" \in Faults
    /\ restarts < MaxRestarts
    /\ phase' = IF phase = "import" THEN "failed" ELSE phase
    /\ restarts' = restarts + 1
    /\ consumer' = "off"
    /\ stop' = FALSE
    /\ lossy' = TRUE
    /\ mu' = NoWriter
    /\ pc' = [w \in Writers |-> "idle"]
    /\ lastPut' = IF \E w \in Writers : pc[w] = "upsert" THEN <<>> ELSE lastPut
    /\ UNCHANGED <<watermark, produced, rows, offsetFile, next, items, item,
                   doc, handled, request, row, puts>>
-----------------------------------------------------------------------------
(* HandlePutBatch in thread w; HandlePut is the batch of one row.          *)

(* Mutant: no lock_guard.                                                  *)
NoWriteLock(w) ==
    /\ mu' = w

WriteLock(w) ==
    /\ mu = NoWriter
    /\ mu' = w

Lock(w) ==
    /\ phase = "serve" /\ pc[w] = "idle"
    /\ puts < MaxPuts /\ produced <= PutsUntil
    /\ WriteLock(w)
    /\ request' \in {[request EXCEPT ![w] = r] : r \in Requests}
    /\ row' = [row EXCEPT ![w] = 1]
    /\ pc' = [pc EXCEPT ![w] = "stage"]
    /\ puts' = puts + 1
    /\ UNCHANGED <<theRun, rows, theConsumer, lastPut>>

Bad(r) == \E i \in DOMAIN r : ~r[i].ok

(* Mutant: the bad row is left out and the rest of the batch is put.       *)
StageGoodRows(w) ==
    /\ pc[w] = "stage"
    /\ pc' = [pc EXCEPT ![w] = "upsert"]
    /\ UNCHANGED <<theRun, rows, theConsumer, mu, request, row, puts, lastPut>>

(* All rows are converted before the first is put.                         *)
Stage(w) ==
    /\ pc[w] = "stage" /\ ~Bad(request[w])
    /\ pc' = [pc EXCEPT ![w] = "upsert"]
    /\ UNCHANGED <<theRun, rows, theConsumer, mu, request, row, puts, lastPut>>

StageFails(w) ==
    /\ pc[w] = "stage" /\ Bad(request[w])
    /\ pc' = [pc EXCEPT ![w] = "idle"]
    /\ mu' = NoWriter
    /\ UNCHANGED <<theRun, rows, theConsumer, request, row, puts, lastPut>>

(* One row of BatchUpsert: a whole document, not a merge.                  *)
UpsertRow(w) ==
    LET r == request[w][row[w]] IN
    /\ pc[w] = "upsert" /\ row[w] <= Len(request[w])
    /\ rows' = [rows EXCEPT ![r.pk] = [a |-> r.a, tags |-> r.tags]]
    /\ row' = [row EXCEPT ![w] = @ + 1]
    /\ UNCHANGED <<theRun, theConsumer, mu, pc, request, puts, lastPut>>

Unlock(w) ==
    /\ pc[w] = "upsert" /\ row[w] > Len(request[w])
    /\ pc' = [pc EXCEPT ![w] = "idle"]
    /\ mu' = NoWriter
    /\ lastPut' = request[w]
    /\ UNCHANGED <<theRun, rows, theConsumer, request, row, puts>>

Writer(w) == Lock(w) \/ Stage(w) \/ StageFails(w) \/ UpsertRow(w) \/ Unlock(w)

Next == Produce \/ Consumer \/ Crash \/ \E w \in Writers : Writer(w)

Spec == Init /\ [][Next]_vars

(* The consumer thread runs while it is there, and the server's next start *)
(* or the next reload to this build starts one again.                      *)
Fairness ==
    WF_vars(Seek \/ CatchUpEnds \/ Start \/ Consume \/ SkipItem \/ DeleteItem
            \/ MergeItem \/ WriteItem \/ MessageDone \/ Truncate \/ Save
            \/ Joined)

FairSpec == Spec /\ Fairness
-----------------------------------------------------------------------------
(* Properties.                                                             *)

ConsumerLabels == {"off", "poll", "apply", "write", "truncate", "save",
                   "dead"}

TypeOK ==
    /\ phase \in {"import", "serve", "failed"}
    /\ watermark \in 0 .. Included
    /\ produced \in 0 .. Len(Topic)
    /\ offsetFile \in Offsets \cup {NoOffset}
    /\ rows \in Table
    /\ consumer \in ConsumerLabels
    /\ stop \in BOOLEAN
    /\ next \in 0 .. Len(Topic)
    /\ items \in Seq(Item)
    /\ item \in Nat \ {0}
    /\ doc \in Row
    /\ restarts \in 0 .. MaxRestarts
    /\ lossy \in BOOLEAN
    /\ handled \in SUBSET Offsets
    /\ mu \in Writers \cup {NoWriter}
    /\ pc \in [Writers -> {"idle", "stage", "upsert"}]
    /\ request \in [Writers -> Requests \cup {<<>>}]
    /\ row \in [Writers -> Nat \ {0}]
    /\ puts \in 0 .. MaxPuts
    /\ lastPut \in Requests \cup {<<>>}

(* There is a message behind what the consumer does with one.              *)
Typed ==
    /\ TypeOK
    /\ consumer \in {"apply", "write"} => next > 0
    /\ consumer = "write" => item <= Len(items)

(* kafka.offset never covers a message that was not applied or rejected,   *)
(* wherever a crash or a failed write of the file falls: the consumer that *)
(* resumes after it loses nothing.  The consumer is the only one.          *)
OffsetCoversHandled == offsetFile >= 0 => 0 .. offsetFile \subseteq handled

(* Why it does, as an inductive invariant: when payloads are intact, what  *)
(* lies behind the consumer is handled wherever it stands.                 *)
Behind ==
    /\ 0 .. Included - 1 \subseteq handled
    /\ consumer \in {"poll", "truncate", "save"} =>
          0 .. next - 1 \subseteq handled
    /\ consumer \in {"apply", "write"} =>
          /\ items = Message(next - 1)
          /\ 0 .. next - 2 \subseteq handled

IInv == Typed /\ OffsetCoversHandled /\ Behind

Occurrences(s, v) == Cardinality({i \in DOMAIN s : s[i] = v})

CaughtUp == consumer = "poll" /\ next = produced /\ puts = 0

(* However often crashes, failed saves and catch-ups had messages replayed *)
(* by consumers that followed one another, one that has caught up leaves   *)
(* the keys and scalars that applying each message once leaves, and no     *)
(* array element of them is missing.                                       *)
ReplayConverges ==
    CaughtUp =>
        \A p \in Pks :
            LET r == rows[p]
                once == TableAfter(produced)[p]
            IN  IF once = Absent THEN r = Absent
                ELSE /\ r # Absent
                     /\ r.a = once.a
                     /\ \A v \in Values : Occurrences(r.tags, v)
                                             >= Occurrences(once.tags, v)

(* The offset that Stop leaves is the one to go on from: where consumers   *)
(* follow one another, by shutdowns and starts of the server or by reloads *)
(* away from a build and back to it, and none was killed or failed to save *)
(* its offset, no message is applied twice: arrays are exact as well.      *)
StopsAreExact == CaughtUp /\ ~lossy => rows = TableAfter(produced)

(* No message has been delivered since the index was imported: the rows    *)
(* are what the RPC threads made of the imported ones.                     *)
OnlyWriters == items = <<>>

(* write_mu isolates the batches of the RPC threads: while none holds it,  *)
(* the table has every row of the last batch that was answered ok.         *)
LastBatchStands ==
    mu = NoWriter /\ OnlyWriters =>
        \A i \in DOMAIN lastPut :
            LET last == lastPut[i] IN
            (\A j \in DOMAIN lastPut : lastPut[j].pk = last.pk => j <= i)
                => rows[last.pk] = [a |-> last.a, tags |-> last.tags]

(* A batch with a row that does not convert puts none of its rows.         *)
RejectedBatchPutsNothing ==
    OnlyWriters =>
        \A p \in Pks :
            \/ rows[p] = Base[p]
            \/ \E r \in Requests :
                   ~Bad(r) /\ \E i \in DOMAIN r : r[i].pk = p /\
                                  rows[p] = [a |-> r[i].a, tags |-> r[i].tags]

(* The consumer keeps catching up with the partition, whatever stops it,   *)
(* unless its set-up failed.                                               *)
ConsumerCatchesUp ==
    []<>(\/ phase = "failed" \/ consumer = "dead"
         \/ phase = "serve" /\ consumer = "poll" /\ next = produced)

(* The document the consumer is about to put was merged from the row that  *)
(* is in the table: no other mutation comes between.                       *)
MergeIsSerialised == consumer = "write" => doc = DocOf(Old, This)

(* The catch-up never goes back before the watermark.                      *)
CatchUpFollowsWatermark ==
    phase = "import" /\ consumer # "off" => next >= watermark
=============================================================================
