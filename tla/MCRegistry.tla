----------------------------- MODULE MCRegistry -----------------------------
(* Registry for TLC: symmetry, and fairness of the threads of the server.  *)
EXTENDS Registry, TLC


Symmetry == Permutations(Ptrs) \cup Permutations(Clients)
SymmetryAll == Symmetry \cup Permutations(Builds) \cup Permutations(Tables)

(* The main thread and the admin thread are scheduled and RPC handlers     *)
(* return; the operator and the clients' requests are not fair.            *)
Fairness ==
    /\ WF_vars(\E t \in Tables : ScanEntry(t))
    /\ WF_vars(StartServing)
    /\ \A th \in Threads : WF_vars(LoadStep(th))
    /\ \A r \in Reloaders : WF_vars(ReloadStep(r))
    /\ \A c \in Clients : WF_vars(Release(c))

FairSpec == Spec /\ Fairness
=============================================================================
