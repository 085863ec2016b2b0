--------------------------- MODULE RegistryProofs ---------------------------
(***************************************************************************)
(* Proofs about Registry, for any sets of tables, builds, clients, admin   *)
(* threads and addresses.  The inductive invariant IInv is proved one      *)
(* action at a time; the safety properties follow from it.                 *)
(***************************************************************************)
EXTENDS Registry, TLAPS

-----------------------------------------------------------------------------
(* What Return leaves behind has the right types.                          *)
LEMMA ReturnTypes ==
    ASSUME TypeOK, NEW th \in Threads, NEW what \in {"ok", "err"},
           Return(th, what)
    PROVE  /\ pc' \in [Threads -> Labels]
           /\ table' \in [Threads -> Tables \cup {Nothing}]
           /\ dir' \in [Threads -> Paths]
           /\ next' \in [Threads -> Keys]
           /\ fresh' \in [Threads -> Slot \cup {Nothing}]
           /\ old' \in [Threads -> Slot \cup {Nothing}]
           /\ reply' \in [Reloaders -> {"none", "ok", "err"}]
           /\ since' \in [Reloaders -> SUBSET Builds]
<1>1. pc' \in [Threads -> Labels]
  BY DEF TypeOK, Return, Labels
<1>2. /\ table' \in [Threads -> Tables \cup {Nothing}]
      /\ dir' \in [Threads -> Paths]
      /\ next' \in [Threads -> Keys]
  BY DEF TypeOK, Return, Dirs, Paths, Keys
<1>3. /\ fresh' \in [Threads -> Slot \cup {Nothing}]
      /\ old' \in [Threads -> Slot \cup {Nothing}]
  BY DEF TypeOK, Return
<1>4. /\ reply' \in [Reloaders -> {"none", "ok", "err"}]
      /\ since' \in [Reloaders -> SUBSET Builds]
  <2>1. CASE th = Main
    BY <2>1 DEF TypeOK, Return, answers
  <2>2. CASE th # Main
    BY <2>2 DEF TypeOK, Return, Threads
  <2> QED BY <2>1, <2>2
<1> QED BY <1>1, <1>2, <1>3, <1>4

(* A handle stays accounted for while no reload forgets its old slot.      *)
LEMMA HandlesKept ==
    ASSUME Handles, UNCHANGED <<hold, live>>,
           \A r \in Reloaders :
               pc[r] \in AfterSwap => pc'[r] \in AfterSwap /\ old'[r] = old[r]
    PROVE  Handles'
BY DEF Handles

(* So does a consumer, while slots stay where they are.                    *)
LEMMA ConsumersKept ==
    ASSUME Consumers, consuming' \subseteq consuming, UNCHANGED live,
           \A th \in Threads :
               pc[th] \in {"insert", "swap"} =>
                   pc'[th] = pc[th] /\ fresh'[th] = fresh[th],
           \A r \in Reloaders :
               pc[r] = "stop" => pc'[r] = "stop" /\ old'[r] = old[r]
    PROVE  Consumers'
BY DEF Consumers

(* Mutexes can only be broken by a thread that enters.                     *)
LEMMA MutexesKept ==
    ASSUME Mutexes,
           \A th \in Threads : pc'[th] \in InsideLoad => pc[th] \in InsideLoad,
           \A r \in Reloaders :
               pc'[r] \in InsideReload =>
                   pc[r] \in InsideReload /\ table'[r] = table[r]
    PROVE  Mutexes'
BY DEF Mutexes

(* Writing one key of DB changes that key and no other.                    *)
LEMMA KeyWritten ==
    ASSUME TypeOK, NEW t \in Tables, NEW k \in Keys,
           NEW m \in Mapping \cup {Nothing},
           db' = [db EXCEPT ![t][k] = m]
    PROVE  /\ db' \in [Tables -> [Keys -> Mapping \cup {Nothing}]]
           /\ db'[t][k] = m
           /\ \A u \in Tables, j \in Keys :
                  u # t \/ j # k => db'[u][j] = db[u][j]
           /\ \A s \in Slot :
                  s.table # t \/ s.key # k => Mapped(s)' = Mapped(s)
<1>1. db \in [Tables -> [Keys -> Mapping \cup {Nothing}]]
  BY DEF TypeOK
<1>2. db' \in [Tables -> [Keys -> Mapping \cup {Nothing}]]
  BY <1>1
<1>3. /\ db'[t][k] = m
      /\ \A u \in Tables, j \in Keys : u # t \/ j # k => db'[u][j] = db[u][j]
  BY <1>1
<1>4. ASSUME NEW s \in Slot, s.table # t \/ s.key # k
      PROVE  Mapped(s)' = Mapped(s)
  <2>1. s.table \in Tables /\ s.key \in Keys
    BY DEF Slot
  <2>2. db'[s.table][s.key] = db[s.table][s.key]
    BY <1>3, <1>4, <2>1
  <2> QED BY <2>2 DEF Mapped
<1> QED BY <1>2, <1>3, <1>4

(* Two threads inside their critical sections work on different tables.    *)
LEMMA Alone ==
    ASSUME IInv, NEW th \in Threads, NEW x \in Threads, x # th,
           pc[th] \in InsideLoad \cup InsideReload,
           pc[x] \in InsideLoad \cup InsideReload
    PROVE  table[x] # table[th]
<1> USE RegistryAssumption
<1>1. \A y \in Threads : pc[y] \in InsideReload => y \in Reloaders
  BY DEF IInv, Commands, Threads
<1> QED BY <1>1 DEF IInv, Mutexes, Commands

(* A DB key is only written by the thread that owns it, so the live slots  *)
(* and the slots of the other threads do not notice.                       *)
OwnsKey(th, k) ==
    \/ pc[th] \in InsideLoad /\ k = "primary"
    \/ pc[th] \in BeforeSwap /\ k = next[th]
    \/ pc[th] = "drain" /\ k = Other(next[th])

LEMMA OthersKept ==
    ASSUME IInv, NEW th \in Threads, NEW k \in Keys, OwnsKey(th, k),
           NEW m \in Mapping \cup {Nothing},
           db' = [db EXCEPT ![table[th]][k] = m],
           UNCHANGED heads,
           \A x \in Threads \ {th} :
               /\ pc'[x] = pc[x]
               /\ table'[x] = table[x]
               /\ next'[x] = next[x]
               /\ fresh'[x] = fresh[x]
               /\ old'[x] = old[x]
    PROVE  /\ LiveSlots'
           /\ \A x \in Threads \ {th} : FreshSlot(x)'
           /\ \A r \in Reloaders \ {th} : OldSlot(r)'
<1> USE RegistryAssumption
<1> DEFINE t == table[th]
<1>1. /\ t \in Tables
      /\ pc[th] \in InsideLoad \cup InsideReload
      /\ live[t] # Nothing => live[t].key # k
  BY DEF OwnsKey, IInv, TypeOK, Commands, FreshSlots, FreshSlot, OldSlots,
         OldSlot, InsideReload, AfterSwap, Other, Keys, Threads
<1>2. /\ \A u \in Tables, j \in Keys : u # t => db'[u][j] = db[u][j]
      /\ \A s \in Slot : s.table # t \/ s.key # k => Mapped(s)' = Mapped(s)
  <2>1. TypeOK /\ t \in Tables /\ db' = [db EXCEPT ![t][k] = m]
    BY <1>1 DEF IInv
  <2> HIDE DEF t
  <2>2. \A u \in Tables, j \in Keys :
           u # t \/ j # k => db'[u][j] = db[u][j]
    BY ONLY <2>1, KeyWritten, k \in Keys, m \in Mapping \cup {Nothing}
  <2>3. \A s \in Slot :
           s.table # t \/ s.key # k => Mapped(s)' = Mapped(s)
    BY ONLY <2>1, KeyWritten, k \in Keys, m \in Mapping \cup {Nothing}
  <2> QED BY <2>2, <2>3
<1>3. LiveSlots'
  <2> SUFFICES ASSUME NEW u \in Tables, live[u] # Nothing
               PROVE  /\ live[u].table = u
                      /\ Mapped(live[u])'
                      /\ live[u].key = IF stagingIsLive[u] THEN "staging"
                                                           ELSE "primary"
    BY DEF LiveSlots, heads
  <2>1. live[u] \in Slot /\ live[u].table = u /\ Mapped(live[u])
    BY DEF IInv, TypeOK, LiveSlots
  <2>2. Mapped(live[u])' = Mapped(live[u])
    BY <1>1, <1>2, <2>1 DEF heads, Mapped
  <2> QED BY <2>1, <2>2 DEF IInv, LiveSlots
<1>4. ASSUME NEW x \in Threads \ {th} PROVE FreshSlot(x)'
  <2>1. CASE pc[x] \in {"canonical", "build", "insert"} \cup BeforeSwap
    <3>1. table[x] # t /\ table[x] \in Tables
      BY <1>1, <2>1, Alone DEF IInv, TypeOK, Commands, InsideLoad, InsideReload
    <3>2. next[x] \in Keys /\ fresh[x] \in Slot \cup {Nothing}
      BY DEF IInv, TypeOK
    <3>3. FreshSlot(x)
      BY DEF IInv, FreshSlots
    <3>4. pc[x] \in {"insert", "swap"} => Mapped(fresh[x])' = Mapped(fresh[x])
      BY <1>2, <3>1, <3>2, <3>3 DEF FreshSlot, Mapped
    <3>5. "primary" \in Keys
      BY DEF Keys
    <3> QED BY <1>2, <3>1, <3>2, <3>3, <3>4, <3>5
            DEF FreshSlot, heads, Mapped, BeforeSwap
  <2>2. CASE pc[x] \notin {"canonical", "build", "insert"} \cup BeforeSwap
    BY <2>2 DEF FreshSlot, BeforeSwap
  <2> QED BY <2>1, <2>2
<1>5. ASSUME NEW r \in Reloaders \ {th} PROVE OldSlot(r)'
  <2>1. CASE pc[r] \in AfterSwap
    <3>1. table[r] # t
      BY <1>1, <2>1, Alone DEF InsideReload, Threads
    <3>2. OldSlot(r) /\ old[r] \in Slot \cup {Nothing}
      BY DEF IInv, OldSlots, TypeOK, Threads
    <3>3. Mapped(old[r])' = Mapped(old[r])
      BY <1>2, <2>1, <3>1, <3>2 DEF OldSlot, Mapped, Threads
    <3> QED BY <2>1, <3>2, <3>3 DEF OldSlot, heads, Mapped, Threads
  <2>2. CASE pc[r] \notin AfterSwap
    BY <2>2 DEF OldSlot, Threads
  <2> QED BY <2>1, <2>2
<1> QED BY <1>3, <1>4, <1>5

-----------------------------------------------------------------------------
LEMMA InitInv == Init => IInv
<1> SUFFICES ASSUME Init PROVE IInv
  OBVIOUS
<1> USE RegistryAssumption DEF Init, Threads
<1>1. TypeOK
  BY DEF TypeOK, Keys, Labels, Dirs, Paths
<1>2. Mutexes /\ Commands /\ OldSlots /\ Consumers /\ Handles
  BY DEF Mutexes, Commands, OldSlots, OldSlot, Consumers, Handles, InsideLoad,
         InsideReload, BeforeSwap, AfterSwap
<1>3. LiveSlots /\ FreshSlots
  BY DEF LiveSlots, FreshSlots, FreshSlot, BeforeSwap
<1> QED BY <1>1, <1>2, <1>3 DEF IInv

LEMMA RestartInv == ASSUME TypeOK, Restart PROVE IInv'
<1> USE RegistryAssumption DEF Restart, Threads
<1>1. TypeOK'
  BY DEF TypeOK, Keys, Labels, Dirs, Paths, disk
<1>2. (Mutexes /\ Commands /\ OldSlots /\ Consumers /\ Handles)'
  BY DEF Mutexes, Commands, OldSlots, OldSlot, Consumers, Handles, InsideLoad,
         InsideReload, BeforeSwap, AfterSwap
<1>3. (LiveSlots /\ FreshSlots)'
  BY DEF LiveSlots, FreshSlots, FreshSlot, BeforeSwap
<1> QED BY <1>1, <1>2, <1>3 DEF IInv

-----------------------------------------------------------------------------
(* The operator, the main thread and the clients.                          *)

LEMMA RepointInv ==
    ASSUME IInv, NEW t \in Tables, NEW b \in Dirs, Repoint(t, b)
    PROVE  IInv'
<1> USE RegistryAssumption DEF Repoint, Threads, heads, locals
<1>1. TypeOK'
  BY DEF IInv, TypeOK, Dirs, Paths
<1>2. (Mutexes /\ Commands /\ OldSlots)'
  BY DEF IInv, Mutexes, Commands, OldSlots, OldSlot, Mapped
<1>3. (LiveSlots /\ FreshSlots)'
  BY DEF IInv, LiveSlots, FreshSlots, FreshSlot, Mapped
<1>4. (Handles /\ Consumers)'
  BY DEF IInv, Handles, Consumers
<1> QED BY <1>1, <1>2, <1>3, <1>4 DEF IInv

LEMMA ScanEntryInv == ASSUME IInv, NEW t \in Tables, ScanEntry(t) PROVE IInv'
<1> USE RegistryAssumption
        DEF ScanEntry, Threads, disk, heads, locals, answers
<1>1. TypeOK'
  BY DEF IInv, TypeOK, Labels
<1>2. \A th \in Threads :
          \/ pc'[th] = pc[th] /\ table'[th] = table[th]
          \/ pc[th] = "scan" /\ pc'[th] = "load" /\ table'[th] = t
  BY DEF IInv, TypeOK
<1>3. UNCHANGED <<next, fresh, old>>
  OBVIOUS
<1>4. Mutexes'
  BY <1>2, MutexesKept DEF IInv, InsideLoad, InsideReload, BeforeSwap, AfterSwap
<1>5. Commands'
  BY <1>2 DEF IInv, Commands, InsideLoad, InsideReload, BeforeSwap, AfterSwap
<1>6. (LiveSlots /\ FreshSlots /\ OldSlots)'
  BY <1>2, <1>3 DEF IInv, LiveSlots, FreshSlots, FreshSlot, OldSlots, OldSlot, Mapped, BeforeSwap,
                    AfterSwap
<1>7. Handles'
  BY <1>2, <1>3, HandlesKept DEF IInv, AfterSwap
<1>8. Consumers'
  BY <1>2, <1>3, ConsumersKept DEF IInv
<1> QED BY <1>1, <1>4, <1>5, <1>6, <1>7, <1>8 DEF IInv

LEMMA StartServingInv == ASSUME IInv, StartServing PROVE IInv'
<1> USE RegistryAssumption
        DEF StartServing, Threads, disk, heads, locals, answers
<1>1. TypeOK'
  BY DEF IInv, TypeOK, Labels
<1>2. /\ \A th \in Reloaders : pc'[th] = pc[th]
      /\ pc'[Main] = "serving"
  BY DEF IInv, TypeOK
<1>3. (Mutexes /\ Commands)'
  BY <1>2 DEF IInv, Mutexes, Commands, InsideLoad, InsideReload, BeforeSwap,
              AfterSwap
<1>4. (LiveSlots /\ FreshSlots /\ OldSlots)'
  BY <1>2 DEF IInv, LiveSlots, FreshSlots, FreshSlot, OldSlots, OldSlot, Mapped, BeforeSwap,
              AfterSwap
<1>5. Handles'
  BY <1>2, HandlesKept DEF IInv, AfterSwap
<1>6. Consumers'
  BY <1>2, ConsumersKept DEF IInv
<1> QED BY <1>1, <1>3, <1>4, <1>5, <1>6 DEF IInv

LEMMA AcquireInv ==
    ASSUME IInv, NEW c \in Clients, NEW t \in Tables, Acquire(c, t)
    PROVE  IInv'
<1> USE DEF Acquire, disk, heads, locals, answers
<1>1. TypeOK'
  BY DEF IInv, TypeOK
<1>2. (Mutexes /\ Commands /\ OldSlots)'
  BY DEF IInv, Mutexes, Commands, OldSlots, OldSlot, Mapped
<1>3. (LiveSlots /\ FreshSlots /\ Consumers)'
  BY DEF IInv, LiveSlots, FreshSlots, FreshSlot, Consumers, Mapped
<1>4. Handles'
  <2>1. live[t] # Nothing /\ live[t].table = t
    BY DEF IInv, LiveSlots
  <2>2. \A d \in Clients : hold'[d] = IF d = c THEN live[t] ELSE hold[d]
    BY DEF IInv, TypeOK
  <2> QED BY <2>1, <2>2 DEF IInv, Handles
<1> QED BY <1>1, <1>2, <1>3, <1>4 DEF IInv

LEMMA ReleaseInv == ASSUME IInv, NEW c \in Clients, Release(c) PROVE IInv'
<1> USE DEF Release, disk, heads, locals, answers
<1>1. TypeOK'
  BY DEF IInv, TypeOK
<1>2. (Mutexes /\ Commands /\ OldSlots)'
  BY DEF IInv, Mutexes, Commands, OldSlots, OldSlot, Mapped
<1>3. (LiveSlots /\ FreshSlots /\ Consumers)'
  BY DEF IInv, LiveSlots, FreshSlots, FreshSlot, Consumers, Mapped
<1>4. Handles'
  <2>1. \A d \in Clients : hold'[d] = IF d = c THEN Nothing ELSE hold[d]
    BY DEF IInv, TypeOK
  <2> QED BY <2>1 DEF IInv, Handles
<1> QED BY <1>1, <1>2, <1>3, <1>4 DEF IInv

-----------------------------------------------------------------------------
(* LoadTable.                                                              *)

(* A thread that returns outside the reload's critical points, and leaves  *)
(* slots and handles alone, keeps the invariant.                           *)
LEMMA ReturnKeeps ==
    ASSUME IInv, NEW th \in Threads, NEW what \in {"ok", "err"},
           Return(th, what),
           pc[th] \notin {"insert", "swap"} \cup AfterSwap,
           UNCHANGED <<heads, hold, consuming>>
    PROVE  /\ Mutexes'
           /\ Commands'
           /\ Handles'
           /\ Consumers'
<1> USE RegistryAssumption DEF heads
<1>1. /\ \A x \in Threads \ {th} :
            /\ pc'[x] = pc[x]
            /\ table'[x] = table[x]
            /\ fresh'[x] = fresh[x]
            /\ old'[x] = old[x]
      /\ pc'[th] = IF th = Main THEN "scan" ELSE "idle"
  BY DEF IInv, TypeOK, Return
<1>2. Mutexes'
  BY <1>1, MutexesKept DEF IInv, InsideLoad, InsideReload, BeforeSwap, AfterSwap,
                       Threads
<1>3. Commands'
  BY <1>1 DEF IInv, Commands, InsideLoad, InsideReload, BeforeSwap, AfterSwap,
              Threads
<1>4. Handles'
  BY <1>1, HandlesKept DEF IInv, Threads
<1>5. Consumers'
  BY <1>1, ConsumersKept DEF IInv, AfterSwap, Threads
<1> QED BY <1>2, <1>3, <1>4, <1>5

(* When it does not touch the engine either, every slot stays as it was.   *)
LEMMA ReturnIdle ==
    ASSUME IInv, NEW th \in Threads, NEW what \in {"ok", "err"},
           Return(th, what),
           pc[th] \notin {"insert", "swap"} \cup AfterSwap,
           active' \in [Tables -> Dirs], link' \in [Tables -> Paths],
           UNCHANGED <<db, heads, hold, consuming, unscanned>>
    PROVE  IInv'
<1> USE RegistryAssumption DEF heads
<1>1. TypeOK'
  BY ReturnTypes DEF IInv, TypeOK
<1>2. Mutexes' /\ Commands' /\ Handles' /\ Consumers'
  BY ReturnKeeps
<1>3. /\ \A x \in Threads \ {th} :
            /\ pc'[x] = pc[x]
            /\ table'[x] = table[x]
            /\ next'[x] = next[x]
            /\ fresh'[x] = fresh[x]
            /\ old'[x] = old[x]
      /\ pc'[th] = IF th = Main THEN "scan" ELSE "idle"
  BY DEF IInv, TypeOK, Return
<1>4. LiveSlots'
  BY DEF IInv, LiveSlots, Mapped
<1>5. FreshSlots' /\ OldSlots'
  BY <1>3 DEF IInv, FreshSlots, FreshSlot, OldSlots, OldSlot, Mapped, BeforeSwap, AfterSwap,
              Threads
<1> QED BY <1>1, <1>2, <1>4, <1>5 DEF IInv

(* A step on to the next point of the critical section.                    *)
LEMMA AdvanceKeeps ==
    ASSUME IInv, NEW th \in Threads, NEW to \in Labels,
           pc' = [pc EXCEPT ![th] = to],
           \/ pc[th] \in InsideLoad /\ to \in InsideLoad
           \/ pc[th] \in BeforeSwap /\ to \in BeforeSwap,
           UNCHANGED <<live, stagingIsLive, hold, table, old>>
    PROVE  /\ Mutexes'
           /\ Commands'
           /\ Handles'
           /\ pc'[th] = to
           /\ \A x \in Threads \ {th} : pc'[x] = pc[x]
<1>1. /\ \A x \in Threads \ {th} : pc'[x] = pc[x]
      /\ pc'[th] = to
  BY DEF IInv, TypeOK
<1>2. Mutexes'
  BY <1>1, MutexesKept DEF IInv, InsideLoad, InsideReload, BeforeSwap,
                           AfterSwap, Threads
<1>3. Commands'
  BY <1>1 DEF IInv, Commands, InsideLoad, InsideReload, BeforeSwap, AfterSwap
<1>4. Handles'
  BY <1>1, HandlesKept DEF IInv, InsideLoad, BeforeSwap, AfterSwap, Threads
<1> QED BY <1>1, <1>2, <1>3, <1>4

LEMMA LoadBeginInv == ASSUME IInv, NEW th \in Threads, LoadBegin(th) PROVE IInv'
<1> USE RegistryAssumption DEF LoadBegin, disk, heads, locals, answers
<1>1. CASE live[table[th]] # Nothing
  <2>1. Return(th, "ok") /\ pc[th] = "load"
    BY <1>1
  <2>2. UNCHANGED <<active, link, db, heads, hold, consuming, unscanned>>
    OBVIOUS
  <2>3. active' \in [Tables -> Dirs] /\ link' \in [Tables -> Paths]
    BY <2>2 DEF IInv, TypeOK
  <2> QED BY <2>1, <2>2, <2>3, ReturnIdle DEF AfterSwap
<1>2. CASE live[table[th]] = Nothing
  <2>1. TypeOK'
    BY <1>2 DEF IInv, TypeOK, Labels, InsideLoad
  <2>2. /\ \A x \in Threads \ {th} : pc'[x] = pc[x] /\ pc[x] \notin InsideLoad
        /\ pc'[th] = "open"
        /\ UNCHANGED <<table, next, fresh, old>>
    BY <1>2 DEF IInv, TypeOK, LoadMutexFree
  <2>3. Mutexes'
    BY <2>2 DEF IInv, Mutexes, InsideLoad, InsideReload, BeforeSwap, AfterSwap,
                Threads
  <2>4. Commands'
    BY <1>2, <2>2 DEF IInv, Commands, InsideLoad, InsideReload, BeforeSwap,
                      AfterSwap
  <2>5. (LiveSlots /\ FreshSlots /\ OldSlots)'
    BY <2>2 DEF IInv, LiveSlots, FreshSlots, FreshSlot, OldSlots, OldSlot, Mapped, BeforeSwap,
                AfterSwap, Threads
  <2>6. Handles'
    BY <2>2, HandlesKept DEF IInv, AfterSwap, Threads
  <2>7. Consumers'
    BY <2>2, ConsumersKept DEF IInv, Threads
  <2> QED BY <2>1, <2>3, <2>4, <2>5, <2>6, <2>7 DEF IInv
<1> QED BY <1>1, <1>2

LEMMA LoadOpenFailsInv ==
    ASSUME IInv, NEW th \in Threads, LoadOpenFails(th) PROVE IInv'
<1>1. active' \in [Tables -> Dirs] /\ link' \in [Tables -> Paths]
  BY DEF LoadOpenFails, disk, IInv, TypeOK
<1> QED BY <1>1, ReturnIdle DEF LoadOpenFails, AfterSwap

LEMMA LoadOpenInv == ASSUME IInv, NEW th \in Threads, LoadOpen(th) PROVE IInv'
<1> USE RegistryAssumption
<1> DEFINE t == table[th]
<1>1. /\ pc[th] = "open" /\ pc' = [pc EXCEPT ![th] = "canonical"]
      /\ UNCHANGED <<active, link, live, stagingIsLive, hold, consuming,
                     unscanned, table, dir, next, fresh, old, reply, since>>
  BY DEF LoadOpen, disk, heads, locals, answers
<1>2. t \in Tables /\ live[t] = Nothing /\ "primary" \in Keys /\ TypeOK
  BY <1>1 DEF IInv, TypeOK, Commands, InsideLoad, Keys
<1>3. /\ \A x \in Threads \ {th} : pc'[x] = pc[x]
      /\ pc'[th] = "canonical"
  BY <1>1 DEF IInv, TypeOK
<1>4. PICK m \in Mapping : db' = [db EXCEPT ![t]["primary"] = m]
  <2>1. CASE db[t]["primary"] # Nothing
    <3>1. UNCHANGED db /\ db[t]["primary"] \in Mapping
      BY <1>2, <2>1 DEF LoadOpen, OpenIndex, TypeOK
    <3>2. db' = [db EXCEPT ![t]["primary"] = db[t]["primary"]]
      BY <1>2, <3>1 DEF TypeOK
    <3> QED BY <3>1, <3>2
  <2>2. CASE db[t]["primary"] = Nothing
    <3>1. active[t] \in Builds
      BY <1>2, <2>2 DEF LoadOpen, OpenIndex, TypeOK, Dirs, Paths
    <3>2. PICK p \in Ptrs : db' = [db EXCEPT ![t]["primary"] =
                                     [ptr |-> p, build |-> active[t]]]
      BY <2>2 DEF LoadOpen, OpenIndex
    <3> QED BY <3>1, <3>2 DEF Mapping
  <2> QED BY <2>1, <2>2
<1>5. /\ db' \in [Tables -> [Keys -> Mapping \cup {Nothing}]]
      /\ db'[t]["primary"] \in Mapping
  <2>1. m \in Mapping \cup {Nothing}
    OBVIOUS
  <2> QED BY ONLY <1>2, <1>4, <2>1, KeyWritten, m \in Mapping
<1>6. TypeOK'
  BY <1>1, <1>5 DEF IInv, TypeOK, Labels, InsideLoad
<1>7. Mutexes' /\ Commands' /\ Handles'
  BY <1>1, AdvanceKeeps DEF InsideLoad, Labels
<1>8. LiveSlots' /\ FreshSlots' /\ OldSlots'
  <2>1. /\ LiveSlots'
        /\ \A x \in Threads \ {th} : FreshSlot(x)'
        /\ \A r \in Reloaders \ {th} : OldSlot(r)'
    BY <1>1, <1>2, <1>3, <1>4, OthersKept DEF OwnsKey, InsideLoad, heads
  <2>2. FreshSlot(th)'
    BY <1>1, <1>3, <1>5 DEF FreshSlot, BeforeSwap
  <2>3. th \in Reloaders => OldSlot(th)'
    BY <1>3 DEF OldSlot, AfterSwap
  <2> QED BY <2>1, <2>2, <2>3 DEF FreshSlots, OldSlots
<1>9. Consumers'
  BY <1>1, <1>3, ConsumersKept DEF IInv, Threads
<1> QED BY <1>6, <1>7, <1>8, <1>9 DEF IInv

(* The paths that are kept and what they name.                             *)
LEMMA PathTypes ==
    ASSUME TypeOK, NEW t \in Tables
    PROVE  /\ Canonical(t) \in Paths
           /\ \A path \in Paths : Named(t, path) \in Dirs
BY DEF TypeOK, Canonical, Named, Paths, Dirs

LEMMA LoadCanonicalInv ==
    ASSUME IInv, NEW th \in Threads, LoadCanonical(th) PROVE IInv'
<1>1. /\ pc[th] = "canonical" /\ pc' = [pc EXCEPT ![th] = "build"]
      /\ dir' = [dir EXCEPT ![th] = Canonical(table[th])]
      /\ UNCHANGED <<active, link, db, live, stagingIsLive, hold, consuming,
                     unscanned, table, next, fresh, old, reply, since>>
  BY DEF LoadCanonical, disk, heads, answers
<1>2. table[th] \in Tables
  BY <1>1, RegistryAssumption DEF IInv, TypeOK, Commands, InsideLoad
<1>3. /\ \A x \in Threads \ {th} : pc'[x] = pc[x]
      /\ pc'[th] = "build"
  BY <1>1 DEF IInv, TypeOK
<1>4. TypeOK'
  BY <1>1, <1>2, PathTypes DEF IInv, TypeOK, Labels, InsideLoad
<1>5. Mutexes' /\ Commands' /\ Handles'
  BY <1>1, AdvanceKeeps DEF InsideLoad, Labels
<1>6. (LiveSlots /\ FreshSlots /\ OldSlots)'
  BY <1>1, <1>3 DEF IInv, LiveSlots, FreshSlots, FreshSlot, OldSlots, OldSlot,
                    Mapped, BeforeSwap, AfterSwap, Threads
<1>7. Consumers'
  BY <1>1, <1>3, ConsumersKept DEF IInv, Threads
<1> QED BY <1>4, <1>5, <1>6, <1>7 DEF IInv

(* The slot built from a registered key points into its mapping, and is    *)
(* the only one that can have started to consume.                          *)
LEMMA BuildKeeps ==
    ASSUME IInv, NEW th \in Threads, NEW k \in Keys, NEW to \in {"insert", "swap"},
           BuildSlotAfterOpen(th, k, to),
           table[th] \in Tables, db[table[th]][k] # Nothing,
           pc[th] \notin {"insert", "swap"} \cup AfterSwap,
           UNCHANGED <<db, live>>
    PROVE  /\ fresh'[th] \in Slot
           /\ fresh'[th].table = table[th]
           /\ fresh'[th].key = k
           /\ Mapped(fresh[th])'
           /\ fresh' \in [Threads -> Slot \cup {Nothing}]
           /\ \A x \in Threads \ {th} : fresh'[x] = fresh[x]
           /\ consuming' \subseteq Slot
           /\ Consumers'
<1> DEFINE s == SlotOf(table[th], k, dir[th])
<1>1. /\ pc' = [pc EXCEPT ![th] = to]
      /\ fresh' = [fresh EXCEPT ![th] = s]
      /\ consuming' \subseteq consuming \cup {s}
      /\ old' = old
  BY DEF BuildSlotAfterOpen
<1>2. /\ db[table[th]][k] \in Mapping
      /\ dir[th] \in Paths
  BY DEF IInv, TypeOK
<1>3. /\ s \in Slot
      /\ s.table = table[th]
      /\ s.key = k
      /\ db'[s.table][s.key] = [ptr |-> s.ptr, build |-> s.build]
  <2>1. /\ s.table = table[th]
        /\ s.key = k
        /\ s.ptr = db[table[th]][k].ptr
        /\ s.build = db[table[th]][k].build
    BY DEF SlotOf
  <2>2. s \in Slot
    BY <1>2 DEF SlotOf, Slot, Mapping
  <2>3. db[table[th]][k] = [ptr |-> db[table[th]][k].ptr,
                            build |-> db[table[th]][k].build]
    BY <1>2 DEF Mapping
  <2> QED BY <2>1, <2>2, <2>3
<1> HIDE DEF s
<1>4. /\ fresh'[th] = s
      /\ pc'[th] = to
      /\ \A x \in Threads \ {th} : fresh'[x] = fresh[x] /\ pc'[x] = pc[x]
      /\ fresh' \in [Threads -> Slot \cup {Nothing}]
  BY <1>1, <1>3 DEF IInv, TypeOK
<1>5. consuming' \subseteq Slot
  BY <1>1, <1>3 DEF IInv, TypeOK
<1>6. Consumers'
  <2> SUFFICES ASSUME NEW c \in consuming'
               PROVE  \/ c = live'[c.table]
                      \/ \E x \in Threads : /\ pc'[x] \in {"insert", "swap"}
                                             /\ fresh'[x] = c
                      \/ \E r \in Reloaders : pc'[r] = "stop" /\ old'[r] = c
    BY DEF Consumers
  <2>1. CASE c = s
    BY <1>4, <2>1
  <2>2. CASE c \in consuming
    <3>1. \/ c = live[c.table]
          \/ \E x \in Threads : pc[x] \in {"insert", "swap"} /\ fresh[x] = c
          \/ \E r \in Reloaders : pc[r] = "stop" /\ old[r] = c
      BY <2>2 DEF IInv, Consumers
    <3> QED BY <1>1, <1>4, <3>1 DEF AfterSwap, Threads
  <2> QED BY <1>1, <2>1, <2>2
<1>7. Mapped(fresh[th])'
  BY <1>3, <1>4 DEF Mapped
<1> QED BY <1>3, <1>4, <1>5, <1>6, <1>7

LEMMA LoadBuildInv == ASSUME IInv, NEW th \in Threads, LoadBuild(th) PROVE IInv'
<1> USE RegistryAssumption
<1>1. /\ pc[th] = "build" /\ pc' = [pc EXCEPT ![th] = "insert"]
      /\ UNCHANGED <<active, link, db, live, stagingIsLive, hold,
                     unscanned, table, dir, next, old, reply, since>>
      /\ BuildSlotAfterOpen(th, "primary", "insert")
  BY DEF LoadBuild, BuildSlotAfterOpen, disk, heads, answers
<1>2. /\ table[th] \in Tables
      /\ db[table[th]]["primary"] # Nothing
      /\ "primary" \in Keys
  BY <1>1 DEF IInv, TypeOK, Commands, InsideLoad, FreshSlots, FreshSlot, Keys
<1>3. /\ \A x \in Threads \ {th} : pc'[x] = pc[x]
      /\ pc'[th] = "insert"
  BY <1>1 DEF IInv, TypeOK
<1>4. /\ fresh'[th] \in Slot
      /\ fresh'[th].table = table[th]
      /\ fresh'[th].key = "primary"
      /\ Mapped(fresh[th])'
      /\ fresh' \in [Threads -> Slot \cup {Nothing}]
      /\ \A x \in Threads \ {th} : fresh'[x] = fresh[x]
      /\ consuming' \subseteq Slot
      /\ Consumers'
  <2>1. pc[th] \notin {"insert", "swap"} \cup AfterSwap /\ UNCHANGED <<db, live>>
    BY <1>1 DEF AfterSwap
  <2> QED BY <1>1, <1>2, <2>1, BuildKeeps
<1>5. TypeOK'
  BY <1>1, <1>4 DEF IInv, TypeOK, Labels, InsideLoad
<1>6. Mutexes' /\ Commands' /\ Handles'
  BY <1>1, AdvanceKeeps DEF InsideLoad, Labels
<1>7. LiveSlots' /\ OldSlots'
  BY <1>1, <1>3 DEF IInv, LiveSlots, OldSlots, OldSlot, Mapped, AfterSwap,
                    Threads
<1>8. FreshSlots'
  <2>1. fresh'[th] # Nothing
    BY <1>4
  <2>2. FreshSlot(th)'
    BY <1>1, <1>3, <1>4, <2>1 DEF FreshSlot, BeforeSwap
  <2>3. \A x \in Threads \ {th} : FreshSlot(x)'
    BY <1>1, <1>3, <1>4 DEF IInv, FreshSlots, FreshSlot, Mapped
  <2> QED BY <2>2, <2>3 DEF FreshSlots
<1> QED BY <1>4, <1>5, <1>6, <1>7, <1>8 DEF IInv

(* A thread that gives up closes the key it owns and returns.              *)
LEMMA CloseAndReturn ==
    ASSUME IInv, NEW th \in Threads, NEW k \in Keys,
           NEW what \in {"ok", "err"}, OwnsKey(th, k),
           pc[th] \notin {"insert", "swap"} \cup AfterSwap,
           CloseIndex(table[th], k),
           Return(th, what),
           table[th] \in Tables,
           active' \in [Tables -> Dirs], link' \in [Tables -> Paths],
           UNCHANGED <<heads, hold, consuming, unscanned>>
    PROVE  IInv'
<1>1. /\ db' = [db EXCEPT ![table[th]][k] = Nothing]
      /\ UNCHANGED <<live, stagingIsLive, hold, consuming, unscanned>>
      /\ TypeOK
  BY DEF CloseIndex, IInv, heads
<1>2. db' \in [Tables -> [Keys -> Mapping \cup {Nothing}]]
  BY <1>1, KeyWritten
<1>3. TypeOK'
  BY <1>1, <1>2, ReturnTypes DEF TypeOK
<1>4. Mutexes' /\ Commands' /\ Handles' /\ Consumers'
  BY ReturnKeeps
<1>5. /\ \A x \in Threads \ {th} :
            /\ pc'[x] = pc[x]
            /\ table'[x] = table[x]
            /\ next'[x] = next[x]
            /\ fresh'[x] = fresh[x]
            /\ old'[x] = old[x]
      /\ pc'[th] \in {"scan", "idle"}
  BY DEF IInv, TypeOK, Return
<1>6. /\ LiveSlots'
      /\ \A x \in Threads \ {th} : FreshSlot(x)'
      /\ \A r \in Reloaders \ {th} : OldSlot(r)'
  BY <1>1, <1>5, OthersKept
<1>7. FreshSlot(th)'
  BY <1>5 DEF FreshSlot, BeforeSwap
<1>8. th \in Reloaders => OldSlot(th)'
  BY <1>5 DEF OldSlot, AfterSwap
<1> QED BY <1>3, <1>4, <1>6, <1>7, <1>8 DEF IInv, FreshSlots, OldSlots

LEMMA LoadAbortsInv ==
    ASSUME IInv, NEW th \in Threads, LoadAborts(th) PROVE IInv'
<1>1. /\ pc[th] \in {"canonical", "build"}
      /\ CloseIndex(table[th], "primary")
      /\ Return(th, "err")
      /\ UNCHANGED <<active, link>>
      /\ UNCHANGED <<heads, hold, consuming, unscanned>>
  BY DEF LoadAborts, disk
<1>2. table[th] \in Tables
  BY <1>1, RegistryAssumption DEF IInv, TypeOK, Commands, InsideLoad
<1>3. /\ OwnsKey(th, "primary")
      /\ pc[th] \notin {"insert", "swap"} \cup AfterSwap
      /\ "primary" \in Keys
  BY <1>1 DEF OwnsKey, InsideLoad, AfterSwap, Keys
<1>4. active' \in [Tables -> Dirs] /\ link' \in [Tables -> Paths]
  BY <1>1 DEF IInv, TypeOK
<1> QED BY <1>1, <1>2, <1>3, <1>4, CloseAndReturn

LEMMA LoadThrowsInv ==
    ASSUME IInv, NEW th \in Threads, LoadThrows(th) PROVE IInv'
<1>1. CASE th = Main
  BY <1>1, RestartInv DEF LoadThrows, IInv
<1>2. CASE th # Main
  <2>1. /\ pc[th] = "build"
        /\ Return(th, "err")
        /\ UNCHANGED <<active, link>>
        /\ UNCHANGED <<db, heads, hold, consuming, unscanned>>
    BY <1>2 DEF LoadThrows, disk
  <2>2. active' \in [Tables -> Dirs] /\ link' \in [Tables -> Paths]
    BY <2>1 DEF IInv, TypeOK
  <2> QED BY <2>1, <2>2, ReturnIdle DEF AfterSwap
<1> QED BY <1>1, <1>2

(* The slot goes into heads_: its mapping stays, its consumer is the       *)
(* table's, and no other thread works on a table that has no slot yet.     *)
LEMMA LoadInsertInv ==
    ASSUME IInv, NEW th \in Threads, LoadInsert(th) PROVE IInv'
<1> USE RegistryAssumption
<1> DEFINE t == table[th]
           s == fresh[th]
<1>1. /\ pc[th] = "insert"
      /\ Return(th, "ok")
      /\ UNCHANGED <<active, link, hold, unscanned>>
  BY DEF LoadInsert, disk
<1>2. t \in Tables /\ live[t] = Nothing
  BY <1>1 DEF IInv, TypeOK, Commands, InsideLoad
<1>3. /\ live' = [live EXCEPT ![t] = s]
      /\ stagingIsLive' = [stagingIsLive EXCEPT ![t] = FALSE]
      /\ UNCHANGED <<consuming, db>>
  BY <1>2 DEF LoadInsert
<1>4. /\ s \in Slot
      /\ s # Nothing
      /\ s.table = t
      /\ s.key = "primary"
      /\ Mapped(s)
  BY <1>1 DEF IInv, FreshSlots, FreshSlot, TypeOK
<1>5. /\ live' \in [Tables -> Slot \cup {Nothing}]
      /\ stagingIsLive' \in [Tables -> BOOLEAN]
      /\ live'[t] = s
      /\ stagingIsLive'[t] = FALSE
      /\ \A u \in Tables \ {t} : /\ live'[u] = live[u]
                                 /\ stagingIsLive'[u] = stagingIsLive[u]
  BY <1>2, <1>3, <1>4 DEF IInv, TypeOK
<1>6. /\ \A x \in Threads \ {th} :
            /\ pc'[x] = pc[x]
            /\ table'[x] = table[x]
            /\ next'[x] = next[x]
            /\ fresh'[x] = fresh[x]
            /\ old'[x] = old[x]
      /\ pc'[th] = IF th = Main THEN "scan" ELSE "idle"
  BY <1>1 DEF IInv, TypeOK, Return
<1>7. \A x \in Threads \ {th} :
          /\ pc[x] \notin InsideLoad
          /\ pc[x] \in {"reload"} \cup InsideReload =>
                table[x] \in Tables \ {t}
  BY <1>1, <1>2 DEF IInv, TypeOK, Mutexes, Commands, InsideLoad
<1>8. TypeOK'
  BY <1>1, <1>3, <1>5, ReturnTypes DEF IInv, TypeOK
<1>9. Mutexes'
  BY <1>6, MutexesKept DEF IInv, InsideLoad, InsideReload, BeforeSwap,
                           AfterSwap, Threads
<1>10. Commands'
  <2>1. \A x \in Threads \ {th} :
            pc[x] \in {"reload"} \cup InsideReload => live'[table[x]] # Nothing
    BY <1>5, <1>7 DEF IInv, Commands
  <2> QED BY <1>6, <1>7, <2>1 DEF IInv, Commands, InsideLoad, InsideReload,
                                  BeforeSwap, AfterSwap, Threads
<1>11. LiveSlots'
  BY <1>3, <1>4, <1>5 DEF IInv, LiveSlots, Mapped
<1>12. FreshSlots'
  BY <1>3, <1>5, <1>6, <1>7 DEF IInv, FreshSlots, FreshSlot, Mapped,
     InsideLoad, InsideReload, BeforeSwap
<1>13. OldSlots'
  BY <1>3, <1>5, <1>6, <1>7 DEF IInv, OldSlots, OldSlot, Mapped, InsideReload,
     AfterSwap, Threads
<1>14. Handles'
  <2> SUFFICES ASSUME NEW c \in Clients, hold[c] # Nothing
               PROVE  \/ hold[c] = live'[hold[c].table]
                      \/ \E r \in Reloaders : /\ pc'[r] \in AfterSwap
                                              /\ old'[r] = hold[c]
    BY <1>1 DEF Handles
  <2>1. hold[c].table \in Tables
    BY DEF IInv, TypeOK, Slot
  <2>2. hold[c] = live[hold[c].table] => hold[c] = live'[hold[c].table]
    BY <1>2, <1>5, <2>1
  <2> QED BY <1>1, <1>6, <2>2 DEF IInv, Handles, AfterSwap, Threads
<1>15. Consumers'
  <2> SUFFICES ASSUME NEW c \in consuming
               PROVE  \/ c = live'[c.table]
                      \/ \E x \in Threads : /\ pc'[x] \in {"insert", "swap"}
                                            /\ fresh'[x] = c
                      \/ \E r \in Reloaders : pc'[r] = "stop" /\ old'[r] = c
    BY <1>3 DEF Consumers
  <2>1. c # Nothing /\ c.table \in Tables
    BY DEF IInv, TypeOK, Slot
  <2>2. c = live[c.table] => c = live'[c.table]
    BY <1>2, <1>5, <2>1
  <2>3. c = fresh[th] => c = live'[c.table]
    BY <1>4, <1>5
  <2> QED BY <1>1, <1>6, <2>2, <2>3 DEF IInv, Consumers, Threads
<1> QED BY <1>8, <1>9, <1>10, <1>11, <1>12, <1>13, <1>14, <1>15 DEF IInv

-----------------------------------------------------------------------------
(* ReloadTable.                                                            *)

LEMMA ReloadCommandInv ==
    ASSUME IInv, NEW r \in Reloaders, NEW t \in Tables, ReloadCommand(r, t)
    PROVE  IInv'
<1> USE RegistryAssumption
<1>1. /\ pc[r] = "idle" /\ pc' = [pc EXCEPT ![r] = "look"]
      /\ table' = [table EXCEPT ![r] = t]
      /\ UNCHANGED <<active, link, db, live, stagingIsLive, hold, consuming,
                     unscanned, dir, next, fresh, old>>
  BY DEF ReloadCommand, disk, heads
<1>2. TypeOK'
  BY <1>1 DEF ReloadCommand, IInv, TypeOK, Labels, Dirs, Paths, Threads
<1>3. /\ \A x \in Threads \ {r} : pc'[x] = pc[x] /\ table'[x] = table[x]
      /\ pc'[r] = "look"
      /\ table'[r] = t
      /\ r \in Threads
  BY <1>1 DEF IInv, TypeOK, Threads
<1>4. Mutexes'
  BY <1>3, MutexesKept DEF IInv, InsideLoad, InsideReload, BeforeSwap, AfterSwap,
                           Threads
<1>5. Commands'
  BY <1>1, <1>3 DEF IInv, Commands, InsideLoad, InsideReload, BeforeSwap,
                    AfterSwap, Threads
<1>6. (LiveSlots /\ FreshSlots /\ OldSlots)'
  BY <1>1, <1>3 DEF IInv, LiveSlots, FreshSlots, FreshSlot, OldSlots, OldSlot,
                    Mapped, BeforeSwap, AfterSwap, Threads
<1>7. Handles'
  BY <1>1, <1>3, HandlesKept DEF IInv, AfterSwap, Threads
<1>8. Consumers'
  BY <1>1, <1>3, ConsumersKept DEF IInv, Threads
<1> QED BY <1>2, <1>4, <1>5, <1>6, <1>7, <1>8 DEF IInv

LEMMA ReloadLookupInv ==
    ASSUME IInv, NEW r \in Reloaders, ReloadLookup(r) PROVE IInv'
<1> USE RegistryAssumption
<1>1. /\ pc[r] = "look" /\ r \in Threads
      /\ UNCHANGED <<active, link, db, live, stagingIsLive, hold, consuming,
                     unscanned>>
  BY DEF ReloadLookup, disk, heads, Threads
<1>2. CASE live[table[r]] = Nothing /\ active[table[r]] = Nothing
  <2>1. active' \in [Tables -> Dirs] /\ link' \in [Tables -> Paths]
    BY <1>1 DEF IInv, TypeOK
  <2>2. UNCHANGED <<db, heads, hold, consuming, unscanned>>
    BY <1>1 DEF heads
  <2> QED BY <1>1, <1>2, <2>1, <2>2, ReturnIdle DEF ReloadLookup, AfterSwap
<1>3. CASE ~(live[table[r]] = Nothing /\ active[table[r]] = Nothing)
  <2>1. /\ pc' = [pc EXCEPT ![r] = IF live[table[r]] = Nothing
                                   THEN "load" ELSE "reload"]
        /\ UNCHANGED <<table, dir, next, fresh, old, reply, since>>
    BY <1>3 DEF ReloadLookup, locals, answers
  <2>2. TypeOK'
    BY <1>1, <2>1 DEF IInv, TypeOK, Labels
  <2>3. /\ \A x \in Threads \ {r} : pc'[x] = pc[x]
        /\ pc'[r] = IF live[table[r]] = Nothing THEN "load" ELSE "reload"
    BY <1>1, <2>1 DEF IInv, TypeOK
  <2>4. Mutexes'
    BY <2>1, <2>3, MutexesKept DEF IInv, InsideLoad, InsideReload, BeforeSwap,
                                   AfterSwap, Threads
  <2>5. Commands'
    BY <1>1, <2>1, <2>3 DEF IInv, Commands, InsideLoad, InsideReload,
                            BeforeSwap, AfterSwap
  <2>6. (LiveSlots /\ FreshSlots /\ OldSlots)'
    BY <1>1, <2>1, <2>3 DEF IInv, LiveSlots, FreshSlots, FreshSlot, OldSlots,
                            OldSlot, Mapped, BeforeSwap, AfterSwap, Threads
  <2>7. Handles'
    BY <1>1, <2>1, <2>3, HandlesKept DEF IInv, AfterSwap, Threads
  <2>8. Consumers'
    BY <1>1, <2>1, <2>3, ConsumersKept DEF IInv, Threads
  <2> QED BY <2>2, <2>4, <2>5, <2>6, <2>7, <2>8 DEF IInv
<1> QED BY <1>2, <1>3

LEMMA ReloadPrepareInv ==
    ASSUME IInv, NEW r \in Reloaders, ReloadPrepare(r) PROVE IInv'
<1> USE RegistryAssumption
<1> DEFINE t == table[r]
<1>1. /\ pc[r] = "reload" /\ pc' = [pc EXCEPT ![r] = "reopen"]
      /\ ReloadSerialFree(t)
      /\ next' = [next EXCEPT ![r] = NextKey(t)]
      /\ dir' = [dir EXCEPT ![r] = Canonical(t)]
      /\ link' = IF NextKey(t) = "staging"
                 THEN [link EXCEPT ![t] = Canonical(t)] ELSE link
      /\ UNCHANGED <<active, db, live, stagingIsLive, hold, consuming,
                     unscanned, table, fresh, old, reply, since>>
      /\ r \in Threads
  BY DEF ReloadPrepare, heads, answers, Threads
<1>2. /\ t \in Tables
      /\ live[t] # Nothing
      /\ NextKey(t) \in Keys
      /\ live[t].key # NextKey(t)
  BY <1>1 DEF IInv, TypeOK, Commands, LiveSlots, NextKey, Keys
<1>3. TypeOK'
  BY <1>1, <1>2, PathTypes DEF IInv, TypeOK, Labels, InsideReload, BeforeSwap
<1>4. /\ \A x \in Threads \ {r} : pc'[x] = pc[x] /\ next'[x] = next[x]
      /\ pc'[r] = "reopen"
      /\ next'[r] = NextKey(t)
  BY <1>1 DEF IInv, TypeOK
<1>5. Mutexes'
  BY <1>1, <1>4 DEF IInv, Mutexes, ReloadSerialFree, InsideLoad, InsideReload,
                    BeforeSwap, AfterSwap, Threads
<1>6. Commands'
  BY <1>1, <1>4 DEF IInv, Commands, InsideLoad, InsideReload, BeforeSwap,
                    AfterSwap
<1>7. (LiveSlots /\ FreshSlots /\ OldSlots)'
  <2>1. LiveSlots'
    BY <1>1 DEF IInv, LiveSlots, Mapped
  <2>2. FreshSlots'
    BY <1>1, <1>2, <1>4 DEF IInv, FreshSlots, FreshSlot, Mapped, BeforeSwap
  <2>3. OldSlots'
    BY <1>1, <1>4 DEF IInv, OldSlots, OldSlot, Mapped, AfterSwap, Threads
  <2> QED BY <2>1, <2>2, <2>3
<1>8. Handles'
  BY <1>1, <1>4, HandlesKept DEF IInv, AfterSwap, Threads
<1>9. Consumers'
  BY <1>1, <1>4, ConsumersKept DEF IInv, Threads
<1> QED BY <1>3, <1>5, <1>6, <1>7, <1>8, <1>9 DEF IInv

LEMMA ReloadPrepareFailsInv ==
    ASSUME IInv, NEW r \in Reloaders, ReloadPrepareFails(r) PROVE IInv'
<1>1. pc[r] = "reload" /\ Return(r, "err") /\ r \in Threads
  BY DEF ReloadPrepareFails, Threads
<1>2. active' \in [Tables -> Dirs] /\ link' \in [Tables -> Paths]
  BY DEF ReloadPrepareFails, IInv, TypeOK, Dirs, Paths
<1>3. UNCHANGED <<db, heads, hold, consuming, unscanned>>
  BY DEF ReloadPrepareFails
<1> QED BY <1>1, <1>2, <1>3, ReturnIdle DEF AfterSwap

LEMMA ReloadOpenInv ==
    ASSUME IInv, NEW r \in Reloaders, ReloadOpen(r) PROVE IInv'
<1> USE RegistryAssumption
<1> DEFINE t == table[r]
<1>1. /\ pc[r] = "reopen" /\ pc' = [pc EXCEPT ![r] = "rebuild"]
      /\ UNCHANGED <<active, link, live, stagingIsLive, hold, consuming,
                     unscanned, table, dir, next, fresh, old, reply, since>>
      /\ r \in Threads
  BY DEF ReloadOpen, disk, heads, locals, answers, Threads
<1>2. t \in Tables /\ next[r] \in Keys /\ NextTarget(r) \in Dirs /\ TypeOK
  BY <1>1, PathTypes DEF IInv, TypeOK, Commands, InsideReload, BeforeSwap,
                         NextTarget
<1>3. PICK m \in Mapping : db' = [db EXCEPT ![t][next[r]] = m]
  <2>1. NextTarget(r) \in Builds
    BY <1>2 DEF ReloadOpen, ReopenIndex, Dirs, Paths
  <2>2. PICK p \in Ptrs : db' = [db EXCEPT ![t][next[r]] =
                                   [ptr |-> p, build |-> NextTarget(r)]]
    BY DEF ReloadOpen, ReopenIndex
  <2> QED BY <2>1, <2>2 DEF Mapping
<1>4. /\ db' \in [Tables -> [Keys -> Mapping \cup {Nothing}]]
      /\ db'[t][next[r]] \in Mapping
  <2>1. m \in Mapping \cup {Nothing}
    OBVIOUS
  <2> QED BY ONLY <1>2, <1>3, <2>1, KeyWritten, m \in Mapping
<1>5. TypeOK'
  BY <1>1, <1>4 DEF IInv, TypeOK, Labels, InsideReload, BeforeSwap
<1>6. /\ Mutexes' /\ Commands' /\ Handles'
      /\ pc'[r] = "rebuild"
      /\ \A x \in Threads \ {r} : pc'[x] = pc[x]
  BY <1>1, AdvanceKeeps DEF BeforeSwap, InsideReload, Labels
<1>7. LiveSlots' /\ FreshSlots' /\ OldSlots'
  <2>1. /\ LiveSlots'
        /\ \A x \in Threads \ {r} : FreshSlot(x)'
        /\ \A x \in Reloaders \ {r} : OldSlot(x)'
    BY <1>1, <1>2, <1>3, <1>6, OthersKept DEF OwnsKey, BeforeSwap, heads
  <2>2. live[t].key # next[r]
    BY <1>1 DEF IInv, FreshSlots, FreshSlot, BeforeSwap
  <2>3. FreshSlot(r)'
    BY <1>1, <1>4, <1>6, <2>2 DEF FreshSlot
  <2>4. OldSlot(r)'
    BY <1>6 DEF OldSlot, AfterSwap
  <2> QED BY <2>1, <2>3, <2>4 DEF FreshSlots, OldSlots
<1>8. Consumers'
  BY <1>1, <1>6, ConsumersKept DEF IInv, Threads
<1> QED BY <1>5, <1>6, <1>7, <1>8 DEF IInv

LEMMA ReloadAbortsInv ==
    ASSUME IInv, NEW r \in Reloaders, ReloadAborts(r) PROVE IInv'
<1>1. /\ pc[r] \in {"reopen", "rebuild"}
      /\ CloseIndex(table[r], next[r])
      /\ Return(r, "err")
      /\ UNCHANGED active
      /\ UNCHANGED <<heads, hold, consuming, unscanned>>
      /\ r \in Threads
  BY DEF ReloadAborts, Threads
<1>2. table[r] \in Tables /\ next[r] \in Keys
  BY <1>1, RegistryAssumption
     DEF IInv, TypeOK, Commands, InsideReload, BeforeSwap
<1>3. /\ OwnsKey(r, next[r])
      /\ pc[r] \notin {"insert", "swap"} \cup AfterSwap
  BY <1>1 DEF OwnsKey, BeforeSwap, AfterSwap
<1>4. active' \in [Tables -> Dirs] /\ link' \in [Tables -> Paths]
  BY <1>1 DEF ReloadAborts, DropLink, IInv, TypeOK, Dirs, Paths
<1> QED BY <1>1, <1>2, <1>3, <1>4, CloseAndReturn

LEMMA ReloadBuildInv ==
    ASSUME IInv, NEW r \in Reloaders, ReloadBuild(r) PROVE IInv'
<1> USE RegistryAssumption
<1>1. /\ pc[r] = "rebuild" /\ pc' = [pc EXCEPT ![r] = "swap"]
      /\ UNCHANGED <<active, link, db, live, stagingIsLive, hold,
                     unscanned, table, dir, next, old, reply, since>>
      /\ BuildSlotAfterOpen(r, next[r], "swap")
      /\ r \in Threads
  BY DEF ReloadBuild, BuildSlotAfterOpen, disk, heads, answers, Threads
<1>2. /\ table[r] \in Tables
      /\ next[r] \in Keys
      /\ db[table[r]][next[r]] # Nothing
      /\ live[table[r]].key # next[r]
  BY <1>1 DEF IInv, TypeOK, Commands, InsideReload, BeforeSwap, FreshSlots,
              FreshSlot
<1>3. /\ fresh'[r] \in Slot
      /\ fresh'[r].table = table[r]
      /\ fresh'[r].key = next[r]
      /\ Mapped(fresh[r])'
      /\ fresh' \in [Threads -> Slot \cup {Nothing}]
      /\ \A x \in Threads \ {r} : fresh'[x] = fresh[x]
      /\ consuming' \subseteq Slot
      /\ Consumers'
  <2>1. pc[r] \notin {"insert", "swap"} \cup AfterSwap /\ UNCHANGED <<db, live>>
    BY <1>1 DEF AfterSwap
  <2> QED BY <1>1, <1>2, <2>1, BuildKeeps
<1>4. TypeOK'
  BY <1>1, <1>3 DEF IInv, TypeOK, Labels, InsideReload, BeforeSwap
<1>5. /\ Mutexes' /\ Commands' /\ Handles'
      /\ pc'[r] = "swap"
      /\ \A x \in Threads \ {r} : pc'[x] = pc[x]
  BY <1>1, AdvanceKeeps DEF BeforeSwap, InsideReload, Labels
<1>6. LiveSlots' /\ OldSlots'
  BY <1>1, <1>5 DEF IInv, LiveSlots, OldSlots, OldSlot, Mapped, AfterSwap,
                    Threads
<1>7. FreshSlots'
  <2>1. fresh'[r] # Nothing
    BY <1>3
  <2>2. FreshSlot(r)'
    BY <1>1, <1>2, <1>3, <1>5, <2>1 DEF FreshSlot
  <2>3. \A x \in Threads \ {r} : FreshSlot(x)'
    BY <1>1, <1>3, <1>5 DEF IInv, FreshSlots, FreshSlot, Mapped
  <2> QED BY <2>2, <2>3 DEF FreshSlots
<1> QED BY <1>3, <1>4, <1>5, <1>6, <1>7 DEF IInv

LEMMA ReloadThrowsInv ==
    ASSUME IInv, NEW r \in Reloaders, ReloadThrows(r) PROVE IInv'
<1>1. pc[r] = "rebuild" /\ Return(r, "err") /\ r \in Threads
  BY DEF ReloadThrows, Threads
<1>2. active' \in [Tables -> Dirs] /\ link' \in [Tables -> Paths]
  BY DEF ReloadThrows, disk, IInv, TypeOK
<1>3. UNCHANGED <<db, heads, hold, consuming, unscanned>>
  BY DEF ReloadThrows
<1> QED BY <1>1, <1>2, <1>3, ReturnIdle DEF AfterSwap

(* The swap moves the new slot to live and the live one to old: every      *)
(* handle and every consumer is accounted for under the new name.          *)
LEMMA ReloadSwapInv ==
    ASSUME IInv, NEW r \in Reloaders, ReloadSwap(r) PROVE IInv'
<1> USE RegistryAssumption
<1> DEFINE t == table[r]
           s == fresh[r]
<1>1. /\ pc[r] = "swap" /\ pc' = [pc EXCEPT ![r] = "stop"]
      /\ live' = [live EXCEPT ![t] = s]
      /\ stagingIsLive' = [stagingIsLive EXCEPT ![t] = next[r] = "staging"]
      /\ old' = [old EXCEPT ![r] = live[t]]
      /\ fresh' = [fresh EXCEPT ![r] = Nothing]
      /\ UNCHANGED <<active, link, db, hold, consuming, unscanned, table, dir,
                     next, reply, since>>
      /\ r \in Threads
  BY DEF ReloadSwap, disk, answers, Threads
<1>2. t \in Tables /\ next[r] \in Keys /\ live[t] # Nothing
  BY <1>1 DEF IInv, TypeOK, Commands, InsideReload, BeforeSwap
<1>3. /\ s \in Slot
      /\ s # Nothing
      /\ s.table = t
      /\ s.key = next[r]
      /\ Mapped(s)
      /\ live[t].key # next[r]
  BY <1>1 DEF IInv, FreshSlots, FreshSlot, BeforeSwap, TypeOK
<1>4. live[t] \in Slot /\ live[t].table = t /\ Mapped(live[t])
  BY <1>2 DEF IInv, TypeOK, LiveSlots
<1>5. /\ live'[t] = s
      /\ stagingIsLive'[t] = (next[r] = "staging")
      /\ \A u \in Tables \ {t} : /\ live'[u] = live[u]
                                 /\ stagingIsLive'[u] = stagingIsLive[u]
  BY <1>1, <1>2 DEF IInv, TypeOK
<1>6. /\ \A x \in Threads \ {r} : /\ pc'[x] = pc[x]
                                  /\ fresh'[x] = fresh[x]
                                  /\ old'[x] = old[x]
      /\ pc'[r] = "stop"
      /\ old'[r] = live[t]
  BY <1>1 DEF IInv, TypeOK
<1>7. \A x \in Threads \ {r} :
          pc[x] \in InsideLoad \cup InsideReload => table[x] \in Tables \ {t}
  <2>1. pc[r] \in InsideReload
    BY <1>1 DEF InsideReload, BeforeSwap
  <2> QED BY <1>1, <2>1, Alone DEF IInv, TypeOK, Commands
<1>8. TypeOK'
  BY <1>1, <1>3, <1>4 DEF IInv, TypeOK, Labels, InsideReload, AfterSwap
<1>9. Mutexes'
  BY <1>1, <1>6, MutexesKept DEF IInv, InsideLoad, InsideReload, BeforeSwap,
                                 AfterSwap, Threads
<1>10. Commands'
  <2>1. \A x \in Threads :
            table[x] \in Tables =>
                (live'[table[x]] # Nothing <=> live[table[x]] # Nothing)
    BY <1>2, <1>3, <1>5
  <2> QED BY <1>1, <1>6, <2>1 DEF IInv, TypeOK, Commands, InsideLoad,
                                  InsideReload, BeforeSwap, AfterSwap
<1>11. LiveSlots'
  <2> SUFFICES ASSUME NEW u \in Tables, live'[u] # Nothing
               PROVE  /\ live'[u].table = u
                      /\ Mapped(live[u])'
                      /\ live'[u].key = IF stagingIsLive'[u] THEN "staging"
                                                             ELSE "primary"
    BY DEF LiveSlots
  <2>1. CASE u = t
    <3>1. db' = db /\ live'[u] = s /\ s.table = u
      BY <1>1, <1>3, <1>5, <2>1
    <3>2. s.key = IF stagingIsLive'[u] THEN "staging" ELSE "primary"
      BY <1>2, <1>3, <1>5, <2>1 DEF Keys
    <3>3. Mapped(live[u])'
      BY <1>3, <3>1 DEF Mapped
    <3> QED BY <3>1, <3>2, <3>3
  <2>2. CASE u # t
    BY <1>1, <1>5, <2>2 DEF IInv, LiveSlots, Mapped
  <2> QED BY <2>1, <2>2
<1>12. FreshSlots'
  BY <1>1, <1>5, <1>6, <1>7 DEF IInv, FreshSlots, FreshSlot, Mapped,
     InsideLoad, InsideReload, BeforeSwap
<1>13. OldSlots'
  <2>1. OldSlot(r)'
    BY <1>1, <1>2, <1>3, <1>4, <1>5, <1>6 DEF OldSlot, Mapped
  <2>2. \A x \in Reloaders \ {r} : OldSlot(x)'
    BY <1>1, <1>5, <1>6, <1>7 DEF IInv, OldSlots, OldSlot, Mapped,
       InsideReload, Threads
  <2> QED BY <2>1, <2>2 DEF OldSlots
<1>14. Handles'
  <2> SUFFICES ASSUME NEW c \in Clients, hold[c] # Nothing
               PROVE  \/ hold[c] = live'[hold[c].table]
                      \/ \E x \in Reloaders : /\ pc'[x] \in AfterSwap
                                              /\ old'[x] = hold[c]
    BY <1>1 DEF Handles
  <2>1. hold[c].table \in Tables
    BY DEF IInv, TypeOK, Slot
  <2>2. CASE hold[c] = live[hold[c].table]
    BY <1>5, <1>6, <2>1, <2>2 DEF AfterSwap
  <2>3. CASE \E x \in Reloaders : pc[x] \in AfterSwap /\ old[x] = hold[c]
    BY <1>1, <1>6, <2>3 DEF AfterSwap, Threads
  <2> QED BY <2>2, <2>3 DEF IInv, Handles
<1>15. Consumers'
  <2> SUFFICES ASSUME NEW c \in consuming
               PROVE  \/ c = live'[c.table]
                      \/ \E x \in Threads : /\ pc'[x] \in {"insert", "swap"}
                                            /\ fresh'[x] = c
                      \/ \E x \in Reloaders : pc'[x] = "stop" /\ old'[x] = c
    BY <1>1 DEF Consumers
  <2>1. c.table \in Tables
    BY DEF IInv, TypeOK, Slot
  <2>2. CASE c = live[c.table]
    BY <1>5, <1>6, <2>1, <2>2
  <2>3. CASE \E x \in Threads : pc[x] \in {"insert", "swap"} /\ fresh[x] = c
    BY <1>3, <1>5, <1>6, <2>3
  <2>4. CASE \E x \in Reloaders : pc[x] = "stop" /\ old[x] = c
    BY <1>1, <1>6, <2>4 DEF Threads
  <2> QED BY <2>2, <2>3, <2>4 DEF IInv, Consumers
<1> QED BY <1>8, <1>9, <1>10, <1>11, <1>12, <1>13, <1>14, <1>15 DEF IInv

LEMMA ReloadStopInv ==
    ASSUME IInv, NEW r \in Reloaders, ReloadStop(r) PROVE IInv'
<1>1. /\ pc[r] = "stop" /\ pc' = [pc EXCEPT ![r] = "drain"]
      /\ consuming' = consuming \ {old[r]}
      /\ UNCHANGED <<active, link, db, live, stagingIsLive, hold, unscanned,
                     table, dir, next, fresh, old, reply, since>>
      /\ r \in Threads
  BY DEF ReloadStop, disk, heads, locals, answers, Threads
<1>2. TypeOK'
  BY <1>1 DEF IInv, TypeOK, Labels, InsideReload, AfterSwap
<1>3. /\ \A x \in Threads \ {r} : pc'[x] = pc[x]
      /\ pc'[r] = "drain"
  BY <1>1 DEF IInv, TypeOK
<1>4. Mutexes'
  BY <1>1, <1>3, MutexesKept DEF IInv, InsideLoad, InsideReload, BeforeSwap,
                                 AfterSwap, Threads
<1>5. Commands'
  BY <1>1, <1>3 DEF IInv, Commands, InsideLoad, InsideReload, BeforeSwap,
                    AfterSwap
<1>6. (LiveSlots /\ FreshSlots /\ OldSlots)'
  BY <1>1, <1>3 DEF IInv, LiveSlots, FreshSlots, FreshSlot, OldSlots, OldSlot,
                    Mapped, BeforeSwap, AfterSwap, Threads
<1>7. Handles'
  BY <1>1, <1>3, HandlesKept DEF IInv, AfterSwap, Threads
<1>8. Consumers'
  BY <1>1, <1>3 DEF IInv, Consumers, Threads
<1> QED BY <1>2, <1>4, <1>5, <1>6, <1>7, <1>8 DEF IInv

(* The old key is closed when no handle is left on the old slot.           *)
LEMMA ReloadFinishInv ==
    ASSUME IInv, NEW r \in Reloaders, ReloadFinish(r) PROVE IInv'
<1> USE RegistryAssumption
<1> DEFINE t == table[r]
           k == Other(next[r])
<1>1. /\ pc[r] = "drain"
      /\ Drained(r)
      /\ db' = [db EXCEPT ![t][k] = Nothing]
      /\ Return(r, "ok")
      /\ UNCHANGED <<active, live, stagingIsLive, hold, consuming, unscanned>>
      /\ r \in Threads
      /\ TypeOK
  BY DEF ReloadFinish, CloseIndex, heads, Threads, IInv
<1>2. t \in Tables /\ k \in Keys /\ Nothing \in Mapping \cup {Nothing}
  BY <1>1 DEF IInv, TypeOK, Commands, InsideReload, AfterSwap, Other, Keys
<1>3. db' \in [Tables -> [Keys -> Mapping \cup {Nothing}]]
  BY ONLY <1>1, <1>2, KeyWritten
<1>4. link' \in [Tables -> Paths]
  BY DEF ReloadFinish, DropLink, IInv, TypeOK, Dirs, Paths
<1>5. TypeOK'
  BY <1>1, <1>3, <1>4, ReturnTypes DEF TypeOK
<1>6. /\ \A x \in Threads \ {r} :
            /\ pc'[x] = pc[x]
            /\ table'[x] = table[x]
            /\ next'[x] = next[x]
            /\ fresh'[x] = fresh[x]
            /\ old'[x] = old[x]
      /\ pc'[r] = "idle"
  BY <1>1 DEF IInv, TypeOK, Return
<1>7. Mutexes'
  BY <1>6, MutexesKept DEF IInv, InsideLoad, InsideReload, BeforeSwap,
                           AfterSwap, Threads
<1>8. Commands'
  BY <1>1, <1>6 DEF IInv, Commands, InsideLoad, InsideReload, BeforeSwap,
                    AfterSwap, Threads
<1>9. /\ LiveSlots'
      /\ \A x \in Threads \ {r} : FreshSlot(x)'
      /\ \A x \in Reloaders \ {r} : OldSlot(x)'
  BY <1>1, <1>2, <1>6, OthersKept DEF OwnsKey, heads
<1>10. FreshSlots' /\ OldSlots'
  <2>1. FreshSlot(r)' /\ OldSlot(r)'
    BY <1>6 DEF FreshSlot, BeforeSwap, OldSlot, AfterSwap
  <2> QED BY <1>9, <2>1 DEF FreshSlots, OldSlots
<1>11. Handles'
  BY <1>1, <1>6 DEF IInv, Handles, Drained, AfterSwap, Threads
<1>12. Consumers'
  BY <1>1, <1>6 DEF IInv, Consumers, Threads
<1> QED BY <1>5, <1>7, <1>8, <1>9, <1>10, <1>11, <1>12 DEF IInv

-----------------------------------------------------------------------------
LEMMA LoadStepInv == ASSUME IInv, NEW th \in Threads, LoadStep(th) PROVE IInv'
BY LoadBeginInv, LoadOpenInv, LoadOpenFailsInv, LoadCanonicalInv, LoadBuildInv,
   LoadAbortsInv, LoadThrowsInv, LoadInsertInv DEF LoadStep

LEMMA ReloadStepInv ==
    ASSUME IInv, NEW r \in Reloaders, ReloadStep(r) PROVE IInv'
BY ReloadLookupInv, ReloadPrepareInv, ReloadPrepareFailsInv, ReloadOpenInv,
   ReloadAbortsInv, ReloadBuildInv, ReloadThrowsInv, ReloadSwapInv,
   ReloadStopInv, ReloadFinishInv DEF ReloadStep

LEMMA StutterInv == ASSUME IInv, UNCHANGED vars PROVE IInv'
BY DEF vars, IInv, TypeOK, Mutexes, Commands, LiveSlots, FreshSlots, FreshSlot,
       OldSlots, OldSlot, Handles, Consumers, Mapped

(* No step of the server, the operator or the clients breaks the           *)
(* invariant.                                                              *)
LEMMA NextInv == ASSUME IInv, [Next]_vars PROVE IInv'
<1>1. CASE Crash
  BY <1>1, RestartInv DEF Crash, IInv
<1>2. CASE \E t \in Tables, b \in Dirs : Repoint(t, b)
  BY <1>2, RepointInv
<1>3. CASE \E t \in Tables : ScanEntry(t)
  BY <1>3, ScanEntryInv
<1>4. CASE StartServing
  BY <1>4, StartServingInv
<1>5. CASE \E th \in Threads : LoadStep(th)
  BY <1>5, LoadStepInv
<1>6. CASE \E r \in Reloaders, t \in Tables : ReloadCommand(r, t)
  BY <1>6, ReloadCommandInv
<1>7. CASE \E r \in Reloaders : ReloadStep(r)
  BY <1>7, ReloadStepInv
<1>8. CASE \E c \in Clients, t \in Tables : Acquire(c, t)
  BY <1>8, AcquireInv
<1>9. CASE \E c \in Clients : Release(c)
  BY <1>9, ReleaseInv
<1>10. CASE UNCHANGED vars
  BY <1>10, StutterInv
<1> QED BY <1>1, <1>2, <1>3, <1>4, <1>5, <1>6, <1>7, <1>8, <1>9, <1>10 DEF Next

(* Every reachable state of the registry satisfies the inductive           *)
(* invariant: whatever load, reload, operator and client do.               *)
THEOREM Invariance == Spec => []IInv
<1>1. Init => IInv
  BY InitInv
<1>2. IInv /\ [Next]_vars => IInv'
  BY NextInv
<1> QED BY <1>1, <1>2, PTL DEF Spec

(* Types: LoadTable, ReloadTable and Acquire keep every variable in its    *)
(* set.                                                                    *)
THEOREM TypeCorrect == Spec => []TypeOK
<1>1. IInv => TypeOK
  BY DEF IInv
<1> QED BY <1>1, Invariance, PTL

(* A handle is on the live slot, or on one whose reload is not over.       *)
LEMMA HandlesMapped == IInv => HandleIsMapped
<1> SUFFICES ASSUME IInv, NEW c \in Clients, hold[c] # Nothing
             PROVE  Mapped(hold[c])
  BY DEF HandleIsMapped
<1>1. hold[c] \in Slot /\ hold[c].table \in Tables
  BY DEF IInv, TypeOK, Slot
<1>2. CASE hold[c] = live[hold[c].table]
  BY <1>1, <1>2 DEF IInv, LiveSlots
<1>3. CASE \E r \in Reloaders : pc[r] \in AfterSwap /\ old[r] = hold[c]
  BY <1>3 DEF IInv, OldSlots, OldSlot
<1> QED BY <1>2, <1>3 DEF IInv, Handles

(* ReloadTable never closes the index a TableHandle still points into.     *)
THEOREM HandlesStayMapped == Spec => []HandleIsMapped
BY HandlesMapped, Invariance, PTL

(* A loaded table always has a mapped index: ReloadTable swaps slots       *)
(* without a window in which there is none.                                *)
THEOREM LiveSlotsStayMapped == Spec => []LiveIsMapped
<1>1. IInv => LiveIsMapped
  BY DEF IInv, LiveSlots, LiveIsMapped
<1> QED BY <1>1, Invariance, PTL

LEMMA ConsumersMapped == IInv => ConsumerIsMapped
<1> SUFFICES ASSUME IInv, NEW s \in consuming PROVE Mapped(s)
  BY DEF ConsumerIsMapped
<1>1. s \in Slot /\ s.table \in Tables /\ s # Nothing
  BY RegistryAssumption DEF IInv, TypeOK, Slot
<1>2. CASE s = live[s.table]
  BY <1>1, <1>2 DEF IInv, LiveSlots
<1>3. CASE \E th \in Threads : pc[th] \in {"insert", "swap"} /\ fresh[th] = s
  BY <1>3 DEF IInv, FreshSlots, FreshSlot
<1>4. CASE \E r \in Reloaders : pc[r] = "stop" /\ old[r] = s
  BY <1>4 DEF IInv, OldSlots, OldSlot, AfterSwap
<1> QED BY <1>2, <1>3, <1>4 DEF IInv, Consumers

(* A KafkaSource is stopped before the index it writes is closed.          *)
THEOREM ConsumersStayMapped == Spec => []ConsumerIsMapped
BY ConsumersMapped, Invariance, PTL

(* LoadTable and ReloadTable leave no consumer behind but the live slot's, *)
(* on every path, the failing ones included.                               *)
THEOREM OneConsumerWhenQuiet == Spec => []QuietTableHasOneConsumer
<1>1. IInv => QuietTableHasOneConsumer
  <2> SUFFICES ASSUME IInv, NEW s \in consuming
               PROVE  Busy(s.table) \/ s = live[s.table]
    BY DEF QuietTableHasOneConsumer
  <2>1. ASSUME NEW th \in Threads, pc[th] \in {"insert", "swap"}, fresh[th] = s
        PROVE  Busy(s.table)
    BY <2>1 DEF IInv, FreshSlots, FreshSlot, Busy, InsideLoad, InsideReload,
                BeforeSwap
  <2>2. ASSUME NEW r \in Reloaders, pc[r] = "stop", old[r] = s
        PROVE  Busy(s.table)
    BY <2>2 DEF IInv, OldSlots, OldSlot, Busy, InsideReload, AfterSwap, Threads
  <2> QED BY <2>1, <2>2 DEF IInv, Consumers
<1> QED BY <1>1, Invariance, PTL

==============================================================================
