--------------------------- MODULE MCTableWriters ---------------------------
(* TableWriters for TLC: a topic, an imported table and RPC requests.      *)
EXTENDS TableWriters

CONSTANTS p1, p2, v0, v1, v2, v3

Upsert(p, a, tags) == [op |-> "upsert", pk |-> p, a |-> a, tags |-> tags]
Insert(p, a) == [op |-> "insert", pk |-> p, a |-> a, tags |-> <<>>]
Other(op, p) == [op |-> op, pk |-> p, a |-> Keep, tags |-> <<>>]

(* p1 is imported; it is merged into, deleted and inserted again, with a   *)
(* batch that throws half-way and a message that only appends.             *)
MCTopic == <<
    <<Upsert(p1, v2, <<v2>>), Insert(p1, v1)>>,
    <<Other("delete", p1), Other("skip", p2), Upsert(p2, v1, <<v1>>)>>,
    <<Insert(p1, v3), Upsert(p2, Keep, <<v2>>), Other("throw", p1),
      Other("delete", p2)>> >>

ShortTopic == SubSeq(MCTopic, 1, 1)

MCBefore == [p \in Pks |-> IF p = p1 THEN [a |-> v1, tags |-> <<v1>>]
                           ELSE Absent]

GoodRow(p, v) == [pk |-> p, ok |-> TRUE, a |-> v, tags |-> <<>>]

(* Two batches over the same keys in different orders, one with a bad row. *)
MCRequests == {
    <<GoodRow(p1, v1), GoodRow(p2, v1)>>,
    <<GoodRow(p2, v2), GoodRow(p1, v2)>>,
    <<GoodRow(p1, v3), [pk |-> p2, ok |-> FALSE, a |-> v3, tags |-> <<>>]>> }
=============================================================================
