----------------------------- MODULE StreamMerge -----------------------------
(***************************************************************************)
(* What one JSON object of the change stream does to a table               *)
(* (stream/json_stream_ingest.cc), as operators on the table's rows.       *)
(*                                                                         *)
(* A row has one scalar field "a" and one array field "tags".  An item is  *)
(* a JSON object by what it makes ApplyStreamJsonObject do: its operation, *)
(* the fields that are present, "skip" for one that is logged and changes  *)
(* nothing, "throw" for one that raises a nlohmann exception.              *)
(***************************************************************************)
EXTENDS Naturals, Sequences

CONSTANTS Pks,      \* primary keys
          Values,   \* field values
          Zero,     \* the value of a scalar that was never put
          Keep,     \* "a" is not a key of the object, or is null
          Absent    \* the table has no row for a key

ASSUME MergeAssumption ==
    /\ Zero \in Values
    /\ Keep \notin Values
    /\ Absent \notin [a : Values, tags : Seq(Values)]

Row == [a : Values, tags : Seq(Values)]
Table == [Pks -> Row \cup {Absent}]

Item == [op : {"upsert", "insert", "delete", "skip", "throw"},
         pk : Pks, a : Values \cup {Keep}, tags : Seq(Values)]

(* KVIndex::NewDoc.                                                        *)
NewDoc == [a |-> Zero, tags |-> <<>>]

(* MergeJsonIntoDoc: only the keys of the object are written, arrays grow. *)
MergeJsonIntoDoc(doc, item) ==
    [a    |-> IF item.a = Keep THEN doc.a ELSE item.a,
     tags |-> doc.tags \o item.tags]

(* CopyDocFromSchema: the fields of the old row, if there is one.          *)
CopyDocFromSchema(old) == IF old = Absent THEN NewDoc ELSE old

(* The operations that go on to put a document, given the old row.         *)
Puts(old, item) == item.op = "upsert" \/ (item.op = "insert" /\ old = Absent)

DocOf(old, item) ==
    MergeJsonIntoDoc(IF item.op = "insert" THEN NewDoc
                     ELSE CopyDocFromSchema(old), item)

(* ApplyStreamJsonObject as one step.                                      *)
ApplyItem(rows, item) ==
    IF item.op = "delete" THEN [rows EXCEPT ![item.pk] = Absent]
    ELSE IF Puts(rows[item.pk], item)
    THEN [rows EXCEPT ![item.pk] = DocOf(rows[item.pk], item)]
    ELSE rows

(* The items of a message up to the one that throws: an exception drops    *)
(* the rest of the message.                                                *)
Effective(items) ==
    LET throws == {i \in DOMAIN items : items[i].op = "throw"}
    IN  IF throws = {} THEN items
        ELSE SubSeq(items, 1, (CHOOSE i \in throws : \A j \in throws : i <= j)
                              - 1)
=============================================================================
