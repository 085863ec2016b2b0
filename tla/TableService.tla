---------------------------- MODULE TableService ----------------------------
(***************************************************************************)
(* What the table registry promises to the RPC handlers, with none of the  *)
(* mechanism: every logical table has at most one current index, a request *)
(* pins the index it starts on, an index is unmapped only when it is       *)
(* neither current nor pinned, and a table that has an index keeps having  *)
(* one until the process ends.  An index is an opaque value of Indexes.    *)
(* Registry.tla implements this specification.                             *)
(***************************************************************************)
CONSTANTS Tables,     \* logical table names
          Clients,    \* threads that serve RPCs
          Indexes,    \* opened indexes
          None        \* no index

VARIABLES current,    \* the index new requests on a table get
          pinned,     \* the index a request in flight works on
          mapped      \* the indexes whose memory is mapped

vars == <<current, pinned, mapped>>

InUse == {current[t] : t \in Tables} \cup {pinned[c] : c \in Clients}

Init ==
    /\ current = [t \in Tables |-> None]
    /\ pinned = [c \in Clients |-> None]
    /\ mapped = {}

(* The storage engine maps and unmaps indexes nobody uses.                 *)
Remap ==
    /\ mapped' \in SUBSET Indexes
    /\ (mapped \ mapped') \cap InUse = {}
    /\ UNCHANGED <<current, pinned>>

(* A table moves to another mapped index; the previous one stays mapped.   *)
Publish(t, i) ==
    /\ i \in mapped
    /\ current' = [current EXCEPT ![t] = i]
    /\ UNCHANGED <<pinned, mapped>>

Pin(c, t) ==
    /\ pinned[c] = None
    /\ current[t] # None
    /\ pinned' = [pinned EXCEPT ![c] = current[t]]
    /\ UNCHANGED <<current, mapped>>

Unpin(c) ==
    /\ pinned[c] # None
    /\ pinned' = [pinned EXCEPT ![c] = None]
    /\ UNCHANGED <<current, mapped>>

(* The process dies: every mapping goes, and every request with it.        *)
Die ==
    /\ current' = [t \in Tables |-> None]
    /\ pinned' = [c \in Clients |-> None]
    /\ mapped' = {}

Next ==
    \/ Remap
    \/ \E t \in Tables, i \in mapped : Publish(t, i)
    \/ \E c \in Clients, t \in Tables : Pin(c, t)
    \/ \E c \in Clients : Unpin(c)
    \/ Die

Spec == Init /\ [][Next]_vars
=============================================================================
