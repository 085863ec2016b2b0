----------------------------- MODULE ImportJob -----------------------------
(***************************************************************************)
(* What an import promises, whatever threads and queues it uses: the       *)
(* chunks of a file are stored in the file's order, each once, a job that  *)
(* ends well has stored them all, and a job ends once.  ImportPipeline.tla *)
(* implements this specification.                                          *)
(***************************************************************************)
EXTENDS Naturals, Sequences

CONSTANT Inputs     \* the input files, or the results of queries

VARIABLES size,     \* size[f]: how many chunks f has
          stored,   \* stored[f]: the chunks of f stored so far, in order
          outcome   \* "running", "ok", "failed" or "killed"

vars == <<size, stored, outcome>>

Init ==
    /\ size \in [Inputs -> Nat]
    /\ stored = [f \in Inputs |-> <<>>]
    /\ outcome = "running"

Store(f) ==
    /\ outcome = "running"
    /\ Len(stored[f]) < size[f]
    /\ stored' = [stored EXCEPT ![f] = Append(@, Len(@) + 1)]
    /\ UNCHANGED <<size, outcome>>

Succeed ==
    /\ outcome = "running"
    /\ \A f \in Inputs : Len(stored[f]) = size[f]
    /\ outcome' = "ok"
    /\ UNCHANGED <<size, stored>>

Fail ==
    /\ outcome = "running"
    /\ outcome' \in {"failed", "killed"}
    /\ UNCHANGED <<size, stored>>

Next == Succeed \/ Fail \/ \E f \in Inputs : Store(f)

Spec == Init /\ [][Next]_vars
=============================================================================
