------------------------ MODULE RegistryReloadProofs ------------------------
(***************************************************************************)
(* More proofs about Registry, from the invariant of RegistryProofs: the   *)
(* registry implements TableService, a reload serves a build the table     *)
(* directory resolved to since the command, the staging link names the     *)
(* config directory of the live slot, an exclusive arena has one consumer, *)
(* and reloads do not pile up mappings.                                    *)
(***************************************************************************)
EXTENDS RegistryProofs

-----------------------------------------------------------------------------
(* The registry implements TableService.                                   *)

Current == [t \in Tables |-> IndexOf(live[t])]
Pinned == [c \in Clients |-> IndexOf(hold[c])]
MappedIndexes == {IndexAt(e[1], e[2]) : e \in Registered}

(* What is registered is an index; a slot whose mapping is registered is   *)
(* one of them.                                                            *)
LEMMA IndexesType == TypeOK => MappedIndexes \subseteq Index
<1> SUFFICES ASSUME TypeOK, NEW e \in Registered
             PROVE  IndexAt(e[1], e[2]) \in Index
  BY DEF MappedIndexes
<1>1. e[1] \in Tables /\ e[2] \in Keys /\ db[e[1]][e[2]] # Nothing
  BY DEF Registered
<1>2. db[e[1]][e[2]] \in Mapping
  BY <1>1 DEF TypeOK
<1> QED BY <1>1, <1>2 DEF IndexAt, Index, Mapping

LEMMA MappedIsIndex ==
    ASSUME NEW s \in Slot, Mapped(s)
    PROVE  IndexOf(s) \in MappedIndexes /\ IndexOf(s) # Nothing
<1> USE RegistryAssumption
<1>1. /\ s.table \in Tables /\ s.key \in Keys /\ s.ptr \in Ptrs
      /\ s.build \in Builds /\ s # Nothing
  BY DEF Slot
<1>2. [ptr |-> s.ptr, build |-> s.build] \in Mapping
  BY <1>1 DEF Mapping
<1>3. db[s.table][s.key] # Nothing
  BY <1>2 DEF Mapped
<1> DEFINE e == <<s.table, s.key>>
<1>4. e \in Registered
  BY <1>1, <1>3 DEF Registered
<1>5. IndexOf(s) = IndexAt(e[1], e[2])
  BY <1>1 DEF IndexOf, IndexAt, Mapped
<1>6. IndexOf(s) \in Index
  BY <1>1 DEF IndexOf, Index
<1> QED BY <1>4, <1>5, <1>6 DEF MappedIndexes

(* The index of every table and of every request is mapped.                *)
UsedIsMapped ==
    /\ \A t \in Tables : Current[t] \in MappedIndexes \cup {Nothing}
    /\ \A c \in Clients : Pinned[c] \in MappedIndexes \cup {Nothing}
    /\ Nothing \notin MappedIndexes

LEMMA InUseIsMapped == IInv => UsedIsMapped
<1> SUFFICES ASSUME IInv PROVE UsedIsMapped
  OBVIOUS
<1> USE RegistryAssumption
<1>1. ASSUME NEW t \in Tables PROVE Current[t] \in MappedIndexes \cup {Nothing}
  <2>1. CASE live[t] = Nothing
    BY <2>1 DEF Current, IndexOf
  <2>2. CASE live[t] # Nothing
    <3>1. live[t] \in Slot /\ Mapped(live[t])
      BY <2>2 DEF IInv, TypeOK, LiveSlots
    <3> QED BY <3>1, MappedIsIndex DEF Current
  <2> QED BY <2>1, <2>2
<1>2. ASSUME NEW c \in Clients PROVE Pinned[c] \in MappedIndexes \cup {Nothing}
  <2>1. CASE hold[c] = Nothing
    BY <2>1 DEF Pinned, IndexOf
  <2>2. CASE hold[c] # Nothing
    <3>1. hold[c] \in Slot /\ Mapped(hold[c])
      BY <2>2, HandlesMapped DEF IInv, TypeOK, HandleIsMapped
    <3> QED BY <3>1, MappedIsIndex DEF Pinned
  <2> QED BY <2>1, <2>2
<1>3. Nothing \notin MappedIndexes
  BY IndexesType DEF IInv
<1> QED BY <1>1, <1>2, <1>3 DEF UsedIsMapped

(* A step that leaves slots and handles alone at most maps and unmaps      *)
(* indexes: what is in use before it is mapped after it.                   *)
LEMMA RemapStep ==
    ASSUME IInv, IInv', UNCHANGED <<live, hold>>
    PROVE  Service!Remap
<1>1. MappedIndexes' \in SUBSET Index
  <2>1. (TypeOK => MappedIndexes \subseteq Index)'
    BY IndexesType, PTL
  <2> QED BY <2>1 DEF IInv
<1>2. Current' = Current /\ Pinned' = Pinned
  BY DEF Current, Pinned
<1>3. /\ \A t \in Tables : Current[t] \in MappedIndexes' \cup {Nothing}
      /\ \A c \in Clients : Pinned[c] \in MappedIndexes' \cup {Nothing}
  <2>1. (IInv => UsedIsMapped)'
    BY InUseIsMapped, PTL
  <2>2. /\ \A t \in Tables : Current'[t] \in MappedIndexes' \cup {Nothing}
        /\ \A c \in Clients : Pinned'[c] \in MappedIndexes' \cup {Nothing}
    BY <2>1 DEF UsedIsMapped
  <2> QED BY <2>2, <1>2
<1>4. Nothing \notin MappedIndexes
  BY InUseIsMapped DEF UsedIsMapped
<1> DEFINE InUse == {Current[t] : t \in Tables} \cup {Pinned[c] : c \in Clients}
<1>5. (MappedIndexes \ MappedIndexes') \cap InUse = {}
  BY <1>3, <1>4
<1> QED BY <1>1, <1>2, <1>5
        DEF Service!Remap, Service!InUse, Current, Pinned, MappedIndexes

(* Publishing a slot whose mapping is registered moves the table to that   *)
(* index; the previous one stays mapped.                                   *)
LEMMA PublishStep ==
    ASSUME IInv, NEW t \in Tables, NEW s \in Slot, Mapped(s),
           live' = [live EXCEPT ![t] = s], UNCHANGED <<db, hold>>
    PROVE  Service!Next
<1>1. IndexOf(s) \in MappedIndexes
  BY MappedIsIndex
<1>2. Current' = [Current EXCEPT ![t] = IndexOf(s)]
  <2>1. live \in [Tables -> Slot \cup {Nothing}]
    BY DEF IInv, TypeOK
  <2>2. Current' = [u \in Tables |-> IndexOf(live'[u])]
    BY DEF Current, IndexOf
  <2>3. \A u \in Tables :
            IndexOf(live'[u]) = IF u = t THEN IndexOf(s) ELSE IndexOf(live[u])
    BY <2>1
  <2> QED BY <2>2, <2>3, Zenon DEF Current
<1>3. Pinned' = Pinned
  BY DEF Pinned
<1>4. MappedIndexes' = MappedIndexes
  BY DEF MappedIndexes, IndexAt, Registered
<1>5. Service!Publish(t, IndexOf(s))
  BY <1>1, <1>2, <1>3, <1>4 DEF Service!Publish, Current, Pinned, MappedIndexes
<1> QED BY <1>1, <1>5 DEF Service!Next, MappedIndexes

(* A new process has no index and no request.                              *)
LEMMA DieStep == ASSUME Restart PROVE Service!Next
<1>1. /\ \A t \in Tables : live'[t] = Nothing
      /\ \A c \in Clients : hold'[c] = Nothing
      /\ \A t \in Tables, k \in Keys : db'[t][k] = Nothing
  BY DEF Restart
<1>2. Current' = [t \in Tables |-> Nothing]
  BY <1>1 DEF Current, IndexOf
<1>3. Pinned' = [c \in Clients |-> Nothing]
  BY <1>1 DEF Pinned, IndexOf
<1>4. MappedIndexes' = {}
  BY <1>1 DEF MappedIndexes, Registered
<1> QED BY <1>2, <1>3, <1>4
        DEF Service!Next, Service!Die, Current, Pinned, MappedIndexes

(* Acquire pins the index of the live slot.                                *)
LEMMA PinStep ==
    ASSUME IInv, NEW c \in Clients, NEW t \in Tables, Acquire(c, t)
    PROVE  Service!Next
<1>1. /\ hold[c] = Nothing /\ live[t] # Nothing
      /\ hold' = [hold EXCEPT ![c] = live[t]]
      /\ UNCHANGED <<db, live>>
  BY DEF Acquire, heads
<1>2. live[t] \in Slot /\ Mapped(live[t])
  BY <1>1 DEF IInv, TypeOK, LiveSlots
<1>3. Current[t] # Nothing
  BY <1>2, MappedIsIndex DEF Current
<1>4. Pinned[c] = Nothing
  BY <1>1 DEF Pinned, IndexOf
<1>5. Pinned' = [Pinned EXCEPT ![c] = Current[t]]
  <2>1. hold \in [Clients -> Slot \cup {Nothing}]
    BY DEF IInv, TypeOK
  <2>2. Pinned' = [d \in Clients |-> IndexOf(hold'[d])]
    BY DEF Pinned, IndexOf
  <2>3. \A d \in Clients : hold'[d] = IF d = c THEN live[t] ELSE hold[d]
    BY <1>1, <2>1
  <2> QED BY <2>2, <2>3 DEF Pinned, Current
<1>6. Current' = Current
  BY <1>1 DEF Current
<1>7. MappedIndexes' = MappedIndexes
  BY <1>1 DEF MappedIndexes, IndexAt, Registered
<1>8. Service!Pin(c, t)
  BY <1>3, <1>4, <1>5, <1>6, <1>7
     DEF Service!Pin, Current, Pinned, MappedIndexes
<1> QED BY <1>8 DEF Service!Next

(* Destroying a TableHandle unpins its index.                              *)
LEMMA UnpinStep ==
    ASSUME IInv, NEW c \in Clients, Release(c)
    PROVE  Service!Next
<1>1. /\ hold[c] # Nothing
      /\ hold' = [hold EXCEPT ![c] = Nothing]
      /\ UNCHANGED <<db, live>>
  BY DEF Release, heads
<1>2. hold[c] \in Slot /\ Mapped(hold[c])
  BY <1>1, HandlesMapped DEF IInv, TypeOK, HandleIsMapped
<1>3. Pinned[c] # Nothing
  BY <1>2, MappedIsIndex DEF Pinned
<1>4. Pinned' = [Pinned EXCEPT ![c] = Nothing]
  <2>1. hold \in [Clients -> Slot \cup {Nothing}]
    BY DEF IInv, TypeOK
  <2>2. Pinned' = [d \in Clients |-> IndexOf(hold'[d])]
    BY DEF Pinned, IndexOf
  <2>3. \A d \in Clients : hold'[d] = IF d = c THEN Nothing ELSE hold[d]
    BY <1>1, <2>1
  <2> QED BY <2>2, <2>3 DEF Pinned, IndexOf
<1>5. Current' = Current
  BY <1>1 DEF Current
<1>6. MappedIndexes' = MappedIndexes
  BY <1>1 DEF MappedIndexes, IndexAt, Registered
<1>7. Service!Unpin(c)
  BY <1>3, <1>4, <1>5, <1>6 DEF Service!Unpin, Current, Pinned, MappedIndexes
<1> QED BY <1>7 DEF Service!Next

-----------------------------------------------------------------------------
LEMMA ServiceInit == Init => Service!Init
<1> SUFFICES ASSUME Init PROVE Service!Init
  OBVIOUS
<1>1. /\ \A t \in Tables : live[t] = Nothing
      /\ \A c \in Clients : hold[c] = Nothing
      /\ \A t \in Tables, k \in Keys : db[t][k] = Nothing
  BY DEF Init
<1>2. Current = [t \in Tables |-> Nothing]
  BY <1>1 DEF Current, IndexOf
<1>3. Pinned = [c \in Clients |-> Nothing]
  BY <1>1 DEF Pinned, IndexOf
<1>4. MappedIndexes = {}
  BY <1>1 DEF MappedIndexes, Registered
<1> QED BY <1>2, <1>3, <1>4
        DEF Service!Init, Current, Pinned, MappedIndexes

(* LoadTable publishes a slot, ends the process, or leaves slots alone.    *)
LEMMA LoadServiceStep ==
    ASSUME IInv, IInv', NEW th \in Threads, LoadStep(th)
    PROVE  Service!Next
<1>1. CASE UNCHANGED <<live, hold>>
  BY <1>1, RemapStep DEF Service!Next
<1>2. CASE Restart
  BY <1>2, DieStep
<1>3. CASE LoadInsert(th) /\ ~UNCHANGED <<live, hold>>
  <2>1. /\ table[th] \in Tables /\ fresh[th] \in Slot /\ Mapped(fresh[th])
    BY <1>3 DEF LoadInsert, IInv, Commands, FreshSlots, FreshSlot, TypeOK,
                InsideLoad
  <2>2. /\ live' = [live EXCEPT ![table[th]] = fresh[th]]
        /\ UNCHANGED <<db, hold>>
    BY <1>3 DEF LoadInsert, heads
  <2> QED BY <2>1, <2>2, PublishStep
<1>4. UNCHANGED <<live, hold>> \/ Restart \/ LoadInsert(th)
  BY DEF LoadStep, LoadBegin, LoadOpen, LoadOpenFails, LoadCanonical, LoadBuild,
         LoadAborts, LoadThrows, heads
<1> QED BY <1>1, <1>2, <1>3, <1>4

(* ReloadTable publishes a slot or leaves slots alone.                     *)
LEMMA ReloadServiceStep ==
    ASSUME IInv, IInv', NEW r \in Reloaders, ReloadStep(r)
    PROVE  Service!Next
<1>1. CASE UNCHANGED <<live, hold>>
  BY <1>1, RemapStep DEF Service!Next
<1>2. CASE ReloadSwap(r)
  <2>1. /\ table[r] \in Tables /\ fresh[r] \in Slot /\ Mapped(fresh[r])
    BY <1>2 DEF ReloadSwap, IInv, Commands, FreshSlots, FreshSlot, TypeOK,
                InsideReload, BeforeSwap, Threads
  <2>2. /\ live' = [live EXCEPT ![table[r]] = fresh[r]]
        /\ UNCHANGED <<db, hold>>
    BY <1>2 DEF ReloadSwap
  <2> QED BY <2>1, <2>2, PublishStep
<1>3. UNCHANGED <<live, hold>> \/ ReloadSwap(r)
  BY DEF ReloadStep, ReloadLookup, ReloadPrepare, ReloadPrepareFails,
         ReloadOpen, ReloadAborts, ReloadBuild, ReloadThrows, ReloadStop,
         ReloadFinish, heads
<1> QED BY <1>1, <1>2, <1>3

LEMMA ServiceStep ==
    ASSUME IInv, IInv', [Next]_vars
    PROVE  [Service!Next]_(Service!vars)
<1>1. CASE Crash
  BY <1>1, DieStep DEF Crash
<1>2. CASE UNCHANGED <<live, hold>>
  BY <1>2, RemapStep DEF Service!Next
<1>3. CASE \E th \in Threads : LoadStep(th)
  BY <1>3, LoadServiceStep
<1>4. CASE \E r \in Reloaders : ReloadStep(r)
  BY <1>4, ReloadServiceStep
<1>5. CASE \E c \in Clients, t \in Tables : Acquire(c, t)
  BY <1>5, PinStep
<1>6. CASE \E c \in Clients : Release(c)
  BY <1>6, UnpinStep
<1>7. \/ Crash
      \/ UNCHANGED <<live, hold>>
      \/ \E th \in Threads : LoadStep(th)
      \/ \E r \in Reloaders : ReloadStep(r)
      \/ \E c \in Clients, t \in Tables : Acquire(c, t)
      \/ \E c \in Clients : Release(c)
  <2>1. CASE \/ \E t \in Tables, b \in Dirs : Repoint(t, b)
             \/ \E t \in Tables : ScanEntry(t)
             \/ StartServing
             \/ \E r \in Reloaders, t \in Tables : ReloadCommand(r, t)
             \/ UNCHANGED vars
    BY <2>1 DEF Repoint, ScanEntry, StartServing, ReloadCommand, vars, heads
  <2> QED BY <2>1 DEF Next
<1> QED BY <1>1, <1>2, <1>3, <1>4, <1>5, <1>6, <1>7

(* The registry implements TableService for every set of tables, builds,   *)
(* clients and admin threads: LoadTable, ReloadTable and Acquire keep what *)
(* a table serves and a request works on mapped until nobody uses it.      *)
THEOREM RegistryImplementsService == Spec => ImplementsService
<1>1. Init => Service!Init
  BY ServiceInit
<1>2. IInv /\ IInv' /\ [Next]_vars => [Service!Next]_(Service!vars)
  BY ServiceStep
<1> QED BY <1>1, <1>2, Invariance, PTL DEF Spec, ImplementsService, Service!Spec

-----------------------------------------------------------------------------
(* A thread's step: what it leaves alone.                                  *)

OthersSame(th) ==
    /\ \A x \in Threads \ {th} :
          /\ pc'[x] = pc[x]
          /\ table'[x] = table[x]
          /\ dir'[x] = dir[x]
          /\ next'[x] = next[x]
          /\ fresh'[x] = fresh[x]
          /\ old'[x] = old[x]
    /\ \A x \in Reloaders \ {th} : since'[x] = since[x]

TableSame(t) == /\ db'[t] = db[t]
                /\ link'[t] = link[t]
                /\ live'[t] = live[t]
                /\ stagingIsLive'[t] = stagingIsLive[t]

LEMMA ReturnOthers ==
    ASSUME IInv, NEW th \in Threads, NEW what \in {"ok", "err"},
           Return(th, what)
    PROVE  /\ OthersSame(th)
           /\ pc'[th] \in {"scan", "idle"}
           /\ table'[th] = Nothing
BY DEF IInv, TypeOK, Return, OthersSame, answers

LEMMA BuildOthers ==
    ASSUME IInv, NEW th \in Threads, NEW k \in Keys, NEW to \in {"insert", "swap"},
           BuildSlotAfterOpen(th, k, to), UNCHANGED answers
    PROVE  /\ OthersSame(th)
           /\ pc'[th] = to
           /\ fresh'[th] = SlotOf(table[th], k, dir[th])
BY DEF IInv, TypeOK, BuildSlotAfterOpen, OthersSame, answers

LEMMA LoadOthers ==
    ASSUME IInv, NEW th \in Threads, LoadStep(th), ~Restart
    PROVE  OthersSame(th)
<1>1. CASE LoadBegin(th)
  <2>1. CASE Return(th, "ok")
    BY <2>1, ReturnOthers
  <2>2. CASE pc' = [pc EXCEPT ![th] = "open"] /\ UNCHANGED <<locals, answers>>
    BY <2>2 DEF IInv, TypeOK, OthersSame, locals, answers
  <2> QED BY <1>1, <2>1, <2>2 DEF LoadBegin
<1>2. CASE LoadOpen(th)
  BY <1>2 DEF LoadOpen, IInv, TypeOK, OthersSame, locals, answers
<1>3. CASE LoadCanonical(th)
  BY <1>3 DEF LoadCanonical, IInv, TypeOK, OthersSame, answers
<1>4. CASE LoadBuild(th)
  BY <1>4, BuildOthers DEF LoadBuild, Keys
<1>5. CASE LoadOpenFails(th) \/ LoadAborts(th) \/ LoadInsert(th)
  BY <1>5, ReturnOthers DEF LoadOpenFails, LoadAborts, LoadInsert
<1>6. CASE LoadThrows(th)
  BY <1>6, ReturnOthers DEF LoadThrows
<1> QED BY <1>1, <1>2, <1>3, <1>4, <1>5, <1>6 DEF LoadStep

LEMMA ReloadOthers ==
    ASSUME IInv, NEW r \in Reloaders, ReloadStep(r)
    PROVE  OthersSame(r)
<1>0. r \in Threads /\ next[r] \in Keys
  BY DEF Threads, IInv, TypeOK
<1>1. CASE ReloadLookup(r)
  <2>1. CASE Return(r, "err")
    BY <1>0, <2>1, ReturnOthers
  <2>2. CASE ~Return(r, "err")
    BY <1>0, <1>1, <2>2
       DEF ReloadLookup, IInv, TypeOK, OthersSame, locals, answers
  <2> QED BY <2>1, <2>2
<1>2. CASE ReloadPrepare(r)
  BY <1>0, <1>2 DEF ReloadPrepare, IInv, TypeOK, OthersSame, answers
<1>3. CASE ReloadOpen(r)
  BY <1>0, <1>3 DEF ReloadOpen, IInv, TypeOK, OthersSame, locals, answers
<1>4. CASE ReloadBuild(r)
  BY <1>0, <1>4, BuildOthers DEF ReloadBuild
<1>5. CASE ReloadPrepareFails(r) \/ ReloadAborts(r) \/ ReloadThrows(r)
           \/ ReloadFinish(r)
  BY <1>0, <1>5, ReturnOthers
     DEF ReloadPrepareFails, ReloadAborts, ReloadThrows, ReloadFinish
<1>6. CASE ReloadSwap(r)
  BY <1>0, <1>6 DEF ReloadSwap, IInv, TypeOK, OthersSame, answers
<1>7. CASE ReloadStop(r)
  BY <1>0, <1>7 DEF ReloadStop, IInv, TypeOK, OthersSame, locals, answers
<1> QED BY <1>1, <1>2, <1>3, <1>4, <1>5, <1>6, <1>7 DEF ReloadStep

(* A step writes the keys, the link and the slot of its own table only,    *)
(* and those only in its critical section or on entering it.               *)
LEMMA LoadOwnTable ==
    ASSUME IInv, NEW th \in Threads, LoadStep(th), ~Restart
    PROVE  /\ \A u \in Tables \ {table[th]} : TableSame(u)
           /\ pc[th] \notin InsideLoad => \A u \in Tables : TableSame(u)
<1>1. CASE UNCHANGED <<db, link, live, stagingIsLive>>
  BY <1>1 DEF TableSame
<1>2. CASE LoadOpen(th)
  BY <1>2 DEF LoadOpen, OpenIndex, IInv, TypeOK, TableSame, disk, heads,
              InsideLoad
<1>3. CASE LoadAborts(th)
  BY <1>3 DEF LoadAborts, CloseIndex, IInv, TypeOK, TableSame, disk, heads,
              InsideLoad
<1>4. CASE LoadInsert(th)
  BY <1>4 DEF LoadInsert, CloseIndex, IInv, TypeOK, TableSame, disk, heads,
              InsideLoad
<1>5. \/ UNCHANGED <<db, link, live, stagingIsLive>>
      \/ LoadOpen(th) \/ LoadAborts(th) \/ LoadInsert(th)
  BY DEF LoadStep, LoadBegin, LoadOpenFails, LoadCanonical, LoadBuild,
         LoadThrows, heads, disk
<1> QED BY <1>1, <1>2, <1>3, <1>4, <1>5

LEMMA ReloadOwnTable ==
    ASSUME IInv, NEW r \in Reloaders, ReloadStep(r)
    PROVE  /\ \A u \in Tables \ {table[r]} : TableSame(u)
           /\ \/ pc[r] \in InsideReload
              \/ ReloadSerialFree(table[r])
              \/ \A u \in Tables : TableSame(u)
<1>1. CASE UNCHANGED <<db, link, live, stagingIsLive>>
  BY <1>1 DEF TableSame
<1>2. CASE ReloadPrepare(r)
  BY <1>2 DEF ReloadPrepare, IInv, TypeOK, TableSame, heads
<1>3. CASE ReloadPrepareFails(r)
  BY <1>3 DEF ReloadPrepareFails, IInv, TypeOK, TableSame, heads
<1>4. CASE ReloadOpen(r)
  BY <1>4 DEF ReloadOpen, ReopenIndex, IInv, TypeOK, TableSame, disk, heads,
              InsideReload, BeforeSwap
<1>5. CASE ReloadAborts(r)
  BY <1>5 DEF ReloadAborts, CloseIndex, DropLink, IInv, TypeOK, TableSame,
              heads, InsideReload, BeforeSwap
<1>6. CASE ReloadSwap(r)
  BY <1>6 DEF ReloadSwap, IInv, TypeOK, TableSame, disk, InsideReload,
              BeforeSwap
<1>7. CASE ReloadFinish(r)
  BY <1>7 DEF ReloadFinish, CloseIndex, DropLink, IInv, TypeOK, TableSame,
              heads, InsideReload, AfterSwap
<1>8. \/ UNCHANGED <<db, link, live, stagingIsLive>>
      \/ ReloadPrepare(r) \/ ReloadPrepareFails(r) \/ ReloadOpen(r)
      \/ ReloadAborts(r) \/ ReloadSwap(r) \/ ReloadFinish(r)
  BY DEF ReloadStep, ReloadLookup, ReloadBuild, ReloadThrows, ReloadStop,
         heads, disk
<1> QED BY <1>1, <1>2, <1>3, <1>4, <1>5, <1>6, <1>7, <1>8

(* So the table of a reload in its critical section stays as it is while   *)
(* another thread steps.                                                   *)
ReloadsUndisturbed(th) ==
    \A x \in Reloaders \ {th} : pc[x] \in InsideReload => TableSame(table[x])

LEMMA LoadUndisturbed ==
    ASSUME IInv, NEW th \in Threads, LoadStep(th), ~Restart
    PROVE  ReloadsUndisturbed(th)
<1> SUFFICES ASSUME NEW x \in Reloaders \ {th}, pc[x] \in InsideReload
             PROVE  TableSame(table[x])
  BY DEF ReloadsUndisturbed
<1>1. x \in Threads /\ table[x] \in Tables
  BY DEF Threads, IInv, TypeOK, Commands
<1>2. CASE pc[th] \in InsideLoad
  BY <1>1, <1>2, Alone, LoadOwnTable
<1> QED BY <1>1, <1>2, LoadOwnTable

LEMMA ReloadUndisturbed ==
    ASSUME IInv, NEW r \in Reloaders, ReloadStep(r)
    PROVE  ReloadsUndisturbed(r)
<1> SUFFICES ASSUME NEW x \in Reloaders \ {r}, pc[x] \in InsideReload
             PROVE  TableSame(table[x])
  BY DEF ReloadsUndisturbed
<1>1. x \in Threads /\ r \in Threads /\ table[x] \in Tables
  BY DEF Threads, IInv, TypeOK, Commands
<1>2. CASE pc[r] \in InsideReload
  BY <1>1, <1>2, Alone, ReloadOwnTable
<1>3. CASE ReloadSerialFree(table[r])
  BY <1>1, <1>3, ReloadOwnTable DEF ReloadSerialFree
<1> QED BY <1>1, <1>2, <1>3, ReloadOwnTable

-----------------------------------------------------------------------------
(* A reload and the directory it follows.                                  *)

(* What a reload has in hand, from the config directory to the slot it     *)
(* published, is a build the table directory resolved to since the         *)
(* command; the config directory may also be the table directory itself.   *)
Serves(r) ==
    LET t == table[r]
        reached == since[r] \cup {TableDir}
    IN  /\ t # Nothing /\ active[t] # Nothing => active[t] \in since[r]
        /\ pc[r] \in {"reopen", "rebuild"} => dir[r] \in reached
        /\ pc[r] = "rebuild" => db[t][next[r]].build \in since[r]
        /\ pc[r] = "swap" =>
              fresh[r].build \in since[r] /\ fresh[r].dir \in reached
        /\ pc[r] \in AfterSwap =>
              live[t].build \in since[r] /\ live[t].dir \in reached

(* Towards the staging key: the link and the directory of the new slot     *)
(* agree, and name the mapping unless they are the table directory.        *)
LinkFollows(r) ==
    LET t == table[r]
    IN  next[r] = "staging" =>
        /\ pc[r] = "reopen" => link[t] = dir[r]
        /\ pc[r] = "rebuild" =>
              /\ link[t] = dir[r]
              /\ dir[r] \in {db[t]["staging"].build, TableDir}
        /\ pc[r] = "swap" =>
              /\ link[t] = fresh[r].dir
              /\ fresh[r].dir \in {fresh[r].build, TableDir}

LinkStands(t) ==
    live[t] # Nothing /\ stagingIsLive[t] =>
        link[t] = live[t].dir /\ live[t].dir \in {live[t].build, TableDir}

FInv == /\ IInv
        /\ \A r \in Reloaders : Serves(r) /\ LinkFollows(r)
        /\ \A t \in Tables : LinkStands(t)

LEMMA FInvInit == Init => FInv
<1> USE RegistryAssumption
<1> SUFFICES ASSUME Init PROVE FInv
  OBVIOUS
<1>1. ASSUME NEW r \in Reloaders PROVE Serves(r) /\ LinkFollows(r)
  <2>1. pc[r] = "idle" /\ table[r] = Nothing
    BY DEF Init, Threads
  <2> QED BY <2>1 DEF Serves, LinkFollows, AfterSwap
<1>2. ASSUME NEW t \in Tables PROVE LinkStands(t)
  BY DEF Init, LinkStands
<1> QED BY <1>1, <1>2, InitInv DEF FInv

LEMMA RestartFollows == ASSUME FInv, Restart PROVE FInv'
<1> USE RegistryAssumption
<1>1. IInv'
  BY RestartInv DEF FInv, IInv
<1>2. ASSUME NEW r \in Reloaders PROVE (Serves(r) /\ LinkFollows(r))'
  <2>1. pc'[r] = "idle" /\ table'[r] = Nothing
    BY DEF Restart, Threads
  <2> QED BY <2>1 DEF Serves, LinkFollows, AfterSwap
<1>3. ASSUME NEW t \in Tables PROVE LinkStands(t)'
  BY DEF Restart, LinkStands
<1> QED BY <1>1, <1>2, <1>3 DEF FInv

(* The reloads of the other threads go on undisturbed.                     *)
LEMMA OthersFollow ==
    ASSUME FInv, NEW th \in Threads, OthersSame(th), ReloadsUndisturbed(th),
           UNCHANGED active
    PROVE  \A x \in Reloaders \ {th} : Serves(x)' /\ LinkFollows(x)'
<1> SUFFICES ASSUME NEW x \in Reloaders \ {th}
             PROVE  Serves(x)' /\ LinkFollows(x)'
  OBVIOUS
<1>1. /\ x \in Threads
      /\ pc'[x] = pc[x] /\ table'[x] = table[x] /\ dir'[x] = dir[x]
      /\ next'[x] = next[x] /\ fresh'[x] = fresh[x] /\ since'[x] = since[x]
  BY DEF OthersSame, Threads
<1>2. pc[x] \in InsideReload => TableSame(table[x])
  BY DEF ReloadsUndisturbed
<1>3. Serves(x) /\ LinkFollows(x)
  BY DEF FInv
<1>4. Serves(x)'
  BY <1>1, <1>2, <1>3 DEF Serves, TableSame, InsideReload, BeforeSwap, AfterSwap
<1>5. LinkFollows(x)'
  BY <1>1, <1>2, <1>3 DEF LinkFollows, TableSame, InsideReload, BeforeSwap
<1> QED BY <1>4, <1>5

(* A thread outside a reload's critical section has only to know what the  *)
(* table directory resolves to.                                            *)
LEMMA OutsideFollows ==
    ASSUME FInv, NEW r \in Reloaders, UNCHANGED active,
           pc'[r] \notin InsideReload,
           \/ table'[r] = Nothing
           \/ table'[r] = table[r] /\ since'[r] = since[r]
    PROVE  Serves(r)' /\ LinkFollows(r)'
BY DEF FInv, Serves, LinkFollows, InsideReload, BeforeSwap, AfterSwap

LEMMA LoadFollows ==
    ASSUME FInv, NEW th \in Threads, LoadStep(th), ~Restart
    PROVE  FInv'
<1> USE RegistryAssumption
<1>1. IInv /\ IInv'
  BY LoadStepInv DEF FInv
<1>2. UNCHANGED <<active, link>>
  BY DEF LoadStep, LoadBegin, LoadOpen, LoadOpenFails, LoadCanonical, LoadBuild,
         LoadAborts, LoadThrows, LoadInsert, disk
<1>3. \A x \in Reloaders \ {th} : Serves(x)' /\ LinkFollows(x)'
  BY <1>1, <1>2, LoadOthers, LoadUndisturbed, OthersFollow
<1>4. ASSUME th \in Reloaders PROVE Serves(th)' /\ LinkFollows(th)'
  <2>1. CASE \E what \in {"ok", "err"} : Return(th, what)
    <3>1. pc'[th] \in {"scan", "idle"} /\ table'[th] = Nothing
      BY <1>1, <2>1, ReturnOthers
    <3> QED BY <1>2, <1>4, <3>1, OutsideFollows
            DEF InsideReload, BeforeSwap, AfterSwap
  <2>2. CASE pc'[th] \in InsideLoad /\ UNCHANGED <<table, since>>
    BY <1>2, <1>4, <2>2, OutsideFollows
       DEF InsideLoad, InsideReload, BeforeSwap, AfterSwap
  <2>3. ASSUME LoadBegin(th)
        PROVE  \/ Return(th, "ok")
               \/ pc'[th] \in InsideLoad /\ UNCHANGED <<table, since>>
    <3>1. CASE pc' = [pc EXCEPT ![th] = "open"] /\ UNCHANGED <<locals, answers>>
      BY <1>1, <3>1 DEF IInv, TypeOK, locals, answers, InsideLoad
    <3> QED BY <2>3, <3>1 DEF LoadBegin
  <2>4. LoadOpen(th) \/ LoadCanonical(th) \/ LoadBuild(th) =>
            UNCHANGED <<table, since>> /\ pc'[th] \in InsideLoad
    BY <1>1 DEF LoadOpen, LoadCanonical, LoadBuild, BuildSlotAfterOpen, IInv,
                TypeOK, locals, answers, InsideLoad
  <2>5. LoadOpenFails(th) \/ LoadAborts(th) \/ LoadThrows(th) \/ LoadInsert(th) =>
            Return(th, "err") \/ Return(th, "ok")
    BY DEF LoadOpenFails, LoadAborts, LoadThrows, LoadInsert
  <2> QED BY <2>1, <2>2, <2>3, <2>4, <2>5 DEF LoadStep
<1>5. ASSUME NEW t \in Tables PROVE LinkStands(t)'
  <2>1. CASE UNCHANGED <<live, stagingIsLive>>
    BY <1>2, <2>1 DEF FInv, LinkStands
  <2>2. CASE ~UNCHANGED <<live, stagingIsLive>>
    <3>1. LoadInsert(th) /\ ~UNCHANGED heads
      BY <2>2 DEF LoadStep, LoadBegin, LoadOpen, LoadOpenFails, LoadCanonical,
                  LoadBuild, LoadAborts, LoadThrows, LoadInsert, heads
    <3>2. /\ live' = [live EXCEPT ![table[th]] = fresh[th]]
          /\ stagingIsLive' = [stagingIsLive EXCEPT ![table[th]] = FALSE]
      BY <3>1 DEF LoadInsert
    <3> QED BY <1>1, <1>2, <3>2 DEF FInv, LinkStands, IInv, TypeOK
  <2> QED BY <2>1, <2>2
<1> QED BY <1>1, <1>3, <1>4, <1>5 DEF FInv

LEMMA ReloadFollows ==
    ASSUME FInv, NEW r \in Reloaders, ReloadStep(r)
    PROVE  FInv'
<1> USE RegistryAssumption
<1> DEFINE t == table[r]
<1>1. IInv /\ IInv'
  BY ReloadStepInv DEF FInv
<1>2. /\ r \in Threads
      /\ pc[r] \in {"look", "reload"} \cup InsideReload
      /\ t \in Tables
  BY <1>1 DEF Threads, IInv, TypeOK, Commands, ReloadStep, ReloadLookup,
              ReloadPrepare, ReloadPrepareFails, ReloadOpen, ReloadAborts,
              ReloadBuild, ReloadThrows, ReloadSwap, ReloadStop, ReloadFinish,
              InsideReload, BeforeSwap, AfterSwap
<1>3. UNCHANGED active
  BY DEF ReloadStep, ReloadLookup, ReloadPrepare, ReloadPrepareFails,
         ReloadOpen, ReloadAborts, ReloadBuild, ReloadThrows, ReloadSwap,
         ReloadStop, ReloadFinish, disk
<1>4. \A x \in Reloaders \ {r} : Serves(x)' /\ LinkFollows(x)'
  BY <1>1, <1>2, <1>3, ReloadOthers, ReloadUndisturbed, OthersFollow
<1>5. /\ db \in [Tables -> [Keys -> Mapping \cup {Nothing}]]
      /\ link \in [Tables -> Paths]
      /\ live \in [Tables -> Slot \cup {Nothing}]
      /\ stagingIsLive \in [Tables -> BOOLEAN]
      /\ pc \in [Threads -> Labels]
      /\ next \in [Threads -> Keys]
      /\ dir \in [Threads -> Paths]
      /\ fresh \in [Threads -> Slot \cup {Nothing}]
      /\ old \in [Threads -> Slot \cup {Nothing}]
  BY <1>1 DEF IInv, TypeOK
<1>6. Serves(r) /\ LinkFollows(r) /\ LinkStands(t)
  BY <1>2 DEF FInv
<1>7. /\ live[t] # Nothing => stagingIsLive[t] = (live[t].key = "staging")
      /\ pc[r] \in BeforeSwap => live[t].key # next[r]
      /\ pc[r] \in AfterSwap => live[t].key = next[r]
      /\ pc[r] \in InsideReload => live[t] # Nothing
  <2>1. live[t] # Nothing => stagingIsLive[t] = (live[t].key = "staging")
    BY <1>1, <1>2, <1>5 DEF IInv, LiveSlots
  <2>2. pc[r] \in BeforeSwap => live[t].key # next[r]
    BY <1>1, <1>2 DEF IInv, FreshSlots, FreshSlot
  <2>3. pc[r] \in AfterSwap => live[t].key = next[r]
    BY <1>1, <1>2 DEF IInv, OldSlots, OldSlot
  <2>4. pc[r] \in InsideReload => live[t] # Nothing
    BY <1>1, <1>2 DEF IInv, Commands
  <2> QED BY <2>1, <2>2, <2>3, <2>4
<1>8. Serves(r)' /\ LinkFollows(r)'
  <2>1. CASE \E what \in {"ok", "err"} : Return(r, what)
    <3>1. pc'[r] \in {"scan", "idle"} /\ table'[r] = Nothing
      BY <1>1, <1>2, <2>1, ReturnOthers
    <3> QED BY <1>3, <3>1, OutsideFollows DEF InsideReload, BeforeSwap, AfterSwap
  <2>2. CASE ReloadLookup(r) /\ ~Return(r, "err")
    <3>1. pc'[r] \in {"load", "reload"} /\ UNCHANGED <<table, since>>
      BY <1>2, <1>5, <2>2 DEF ReloadLookup, locals, answers
    <3> QED BY <1>3, <3>1, OutsideFollows DEF InsideReload, BeforeSwap, AfterSwap
  <2>3. CASE ReloadPrepare(r)
    <3>1. /\ pc'[r] = "reopen" /\ next'[r] = NextKey(t)
          /\ dir'[r] = Canonical(t)
          /\ NextKey(t) = "staging" => link'[t] = Canonical(t)
          /\ UNCHANGED <<table, since>>
      BY <1>2, <1>5, <2>3 DEF ReloadPrepare, answers
    <3>2. active[t] # Nothing => active[t] \in since[r]
      BY <1>2, <1>6, RegistryAssumption DEF Serves
    <3>3. Canonical(t) \in since[r] \cup {TableDir}
      BY <3>2 DEF Canonical
    <3>4. Serves(r)'
      BY <1>3, <3>1, <3>2, <3>3 DEF Serves, AfterSwap
    <3>5. LinkFollows(r)'
      BY <3>1 DEF LinkFollows
    <3> QED BY <3>4, <3>5
  <2>4. CASE ReloadOpen(r)
    <3>1. /\ pc[r] = "reopen" /\ pc'[r] = "rebuild"
          /\ NextTarget(r) # Nothing
          /\ db'[t][next[r]].build = NextTarget(r)
          /\ UNCHANGED <<link, table, dir, next, since>>
      BY <1>2, <1>5, <2>4
         DEF ReloadOpen, ReopenIndex, disk, locals, answers
    <3>2. dir[r] \in since[r] \cup {TableDir}
      BY <1>6, <3>1 DEF Serves
    <3>3. next[r] = "staging" => link[t] = dir[r]
      BY <1>6, <3>1 DEF LinkFollows
    <3>4. active[t] # Nothing => active[t] \in since[r]
      BY <1>2, <1>6 DEF Serves
    <3>5. NextTarget(r) \in since[r]
      BY <3>1, <3>2, <3>3, <3>4 DEF NextTarget, Named
    <3>6. next[r] = "staging" => dir[r] \in {NextTarget(r), TableDir}
      BY <3>3 DEF NextTarget, Named
    <3>7. Serves(r)'
      BY <1>3, <1>6, <3>1, <3>2, <3>5 DEF Serves, AfterSwap
    <3>8. LinkFollows(r)'
      BY <3>1, <3>3, <3>6 DEF LinkFollows
    <3> QED BY <3>7, <3>8
  <2>5. CASE ReloadBuild(r)
    <3>1. /\ pc[r] = "rebuild" /\ pc'[r] = "swap"
          /\ fresh'[r] = SlotOf(t, next[r], dir[r])
          /\ UNCHANGED <<db, link, table, dir, next, since>>
      BY <1>1, <1>2, <1>5, <2>5, BuildOthers
         DEF ReloadBuild, BuildSlotAfterOpen, disk, answers
    <3>2. fresh'[r].build = db[t][next[r]].build /\ fresh'[r].dir = dir[r]
      BY <3>1 DEF SlotOf
    <3>3. Serves(r)'
      BY <1>3, <1>6, <3>1, <3>2 DEF Serves, AfterSwap
    <3>4. LinkFollows(r)'
      BY <1>6, <3>1, <3>2 DEF LinkFollows
    <3> QED BY <3>3, <3>4
  <2>6. CASE ReloadSwap(r)
    <3>1. /\ pc[r] = "swap" /\ pc'[r] = "stop" /\ live'[t] = fresh[r]
          /\ UNCHANGED <<table, since>>
      BY <1>2, <1>5, <2>6 DEF ReloadSwap, answers
    <3> QED BY <1>3, <1>6, <3>1 DEF Serves, LinkFollows, AfterSwap
  <2>7. CASE ReloadStop(r)
    <3>1. /\ pc[r] = "stop" /\ pc'[r] = "drain"
          /\ UNCHANGED <<live, table, since>>
      BY <1>2, <1>5, <2>7 DEF ReloadStop, heads, locals, answers
    <3> QED BY <1>3, <1>6, <3>1 DEF Serves, LinkFollows, AfterSwap
  <2>8. ReloadPrepareFails(r) \/ ReloadAborts(r) \/ ReloadThrows(r)
            \/ ReloadFinish(r) => Return(r, "err") \/ Return(r, "ok")
    BY DEF ReloadPrepareFails, ReloadAborts, ReloadThrows, ReloadFinish
  <2> QED BY <2>1, <2>2, <2>3, <2>4, <2>5, <2>6, <2>7, <2>8 DEF ReloadStep
<1>9. ASSUME NEW u \in Tables PROVE LinkStands(u)'
  <2>1. CASE u # t
    <3>1. TableSame(u)
      BY <1>1, <2>1, ReloadOwnTable
    <3> QED BY <3>1 DEF FInv, LinkStands, TableSame
  <2>2. CASE UNCHANGED <<link, live, stagingIsLive>>
    BY <2>2 DEF FInv, LinkStands
  <2>3. CASE UNCHANGED <<live, stagingIsLive>> /\ ~stagingIsLive[t]
    BY <2>1, <2>3 DEF LinkStands
  <2>4. CASE u = t /\ ReloadSwap(r)
    <3>1. /\ pc[r] = "swap" /\ live'[t] = fresh[r]
          /\ stagingIsLive'[t] = (next[r] = "staging")
          /\ UNCHANGED link
      BY <1>2, <1>5, <2>4 DEF ReloadSwap, disk
    <3> QED BY <1>6, <2>4, <3>1 DEF LinkStands, LinkFollows
  <2>5. CASE ReloadPrepare(r) \/ ReloadPrepareFails(r)
    <3>1. stagingIsLive[t] => UNCHANGED link
      BY <2>5 DEF ReloadPrepare, ReloadPrepareFails, NextKey
    <3>2. UNCHANGED <<live, stagingIsLive>>
      BY <2>5 DEF ReloadPrepare, ReloadPrepareFails, heads
    <3> QED BY <2>2, <2>3, <3>1, <3>2
  <2>6. CASE ReloadAborts(r)
    <3>1. /\ pc[r] \in BeforeSwap
          /\ UNCHANGED <<live, stagingIsLive>>
          /\ next[r] # "staging" => UNCHANGED link
      BY <2>6 DEF ReloadAborts, BeforeSwap, DropLink, heads
    <3>2. next[r] = "staging" => ~stagingIsLive[t]
      BY <1>2, <1>5, <1>7, <3>1 DEF InsideReload
    <3> QED BY <2>2, <2>3, <3>1, <3>2
  <2>7. CASE ReloadFinish(r)
    <3>1. /\ pc[r] \in AfterSwap
          /\ UNCHANGED <<live, stagingIsLive>>
          /\ next[r] # "primary" => UNCHANGED link
      BY <1>2, <1>5, <2>7 DEF ReloadFinish, AfterSwap, DropLink, heads, Other, Keys
    <3>2. next[r] = "primary" => ~stagingIsLive[t]
      BY <1>2, <1>5, <1>7, <3>1 DEF InsideReload
    <3> QED BY <2>2, <2>3, <3>1, <3>2
  <2>8. ReloadLookup(r) \/ ReloadOpen(r) \/ ReloadBuild(r) \/ ReloadThrows(r)
            \/ ReloadStop(r) => UNCHANGED <<link, live, stagingIsLive>>
    BY DEF ReloadLookup, ReloadOpen, ReloadBuild, ReloadThrows, ReloadStop,
           heads, disk
  <2> QED BY <2>1, <2>2, <2>4, <2>5, <2>6, <2>7, <2>8 DEF ReloadStep
<1> QED BY <1>1, <1>4, <1>8, <1>9 DEF FInv

(* The operator may repoint the directory at any moment; a command that is *)
(* under way remembers it.                                                 *)
LEMMA RepointFollows ==
    ASSUME FInv, NEW t \in Tables, NEW b \in Dirs, Repoint(t, b)
    PROVE  FInv'
<1>1. IInv /\ IInv'
  BY RepointInv DEF FInv
<1>2. /\ active' = [active EXCEPT ![t] = b]
      /\ since' = [r \in Reloaders |->
                      IF table[r] = t THEN since[r] \cup ({b} \ {Nothing})
                                          ELSE since[r]]
      /\ UNCHANGED <<link, db, live, stagingIsLive, pc, table, dir, next, fresh>>
  BY DEF Repoint, heads, locals
<1>3. ASSUME NEW r \in Reloaders PROVE Serves(r)' /\ LinkFollows(r)'
  <2>1. Serves(r) /\ LinkFollows(r)
    BY DEF FInv
  <2>2. since[r] \subseteq since'[r]
    BY <1>2
  <2>3. table[r] = t => {b} \ {Nothing} \subseteq since'[r]
    BY <1>2
  <2>4. table[r] # t => active'[table[r]] = active[table[r]] \/ table[r] = Nothing
    BY <1>1, <1>2 DEF IInv, TypeOK, Threads
  <2>5. active'[t] = b
    BY <1>1, <1>2 DEF IInv, TypeOK
  <2>6. Serves(r)'
    BY <1>2, <2>1, <2>2, <2>3, <2>4, <2>5 DEF Serves
  <2>7. LinkFollows(r)'
    BY <1>2, <2>1 DEF LinkFollows
  <2> QED BY <2>6, <2>7
<1>4. ASSUME NEW u \in Tables PROVE LinkStands(u)'
  BY <1>2 DEF FInv, LinkStands
<1> QED BY <1>1, <1>3, <1>4 DEF FInv

(* A command starts the history with what the directory resolves to.       *)
LEMMA CommandFollows ==
    ASSUME FInv, NEW r \in Reloaders, NEW t \in Tables, ReloadCommand(r, t)
    PROVE  FInv'
<1>1. IInv /\ IInv'
  BY ReloadCommandInv DEF FInv
<1>2. /\ OthersSame(r)
      /\ pc'[r] = "look" /\ table'[r] = t
      /\ since'[r] = {active[t]} \ {Nothing}
      /\ UNCHANGED <<active, link, db, live, stagingIsLive, next>>
      /\ r \in Threads
  BY <1>1 DEF ReloadCommand, IInv, TypeOK, OthersSame, Threads, disk, heads
<1>3. ReloadsUndisturbed(r)
  BY <1>2 DEF ReloadsUndisturbed, TableSame
<1>4. \A x \in Reloaders \ {r} : Serves(x)' /\ LinkFollows(x)'
  BY <1>2, <1>3, OthersFollow
<1>5. Serves(r)' /\ LinkFollows(r)'
  BY <1>2 DEF Serves, LinkFollows, AfterSwap
<1>6. ASSUME NEW u \in Tables PROVE LinkStands(u)'
  BY <1>2 DEF FInv, LinkStands
<1> QED BY <1>1, <1>4, <1>5, <1>6 DEF FInv

(* The scan, the clients and stuttering change nothing a reload looks at.  *)
LEMMA RestFollows ==
    ASSUME FInv, IInv',
           \/ \E t \in Tables : ScanEntry(t)
           \/ StartServing
           \/ \E c \in Clients, t \in Tables : Acquire(c, t)
           \/ \E c \in Clients : Release(c)
           \/ UNCHANGED vars
    PROVE  FInv'
<1>1. /\ UNCHANGED <<active, link, db, live, stagingIsLive, since>>
      /\ \A r \in Reloaders :
            /\ pc'[r] = pc[r] /\ table'[r] = table[r] /\ dir'[r] = dir[r]
            /\ next'[r] = next[r] /\ fresh'[r] = fresh[r]
  BY RegistryAssumption
     DEF FInv, IInv, TypeOK, ScanEntry, StartServing, Acquire, Release, vars,
         disk, heads, locals, answers, Threads
<1>2. ASSUME NEW r \in Reloaders PROVE Serves(r)' /\ LinkFollows(r)'
  BY <1>1 DEF FInv, Serves, LinkFollows
<1>3. ASSUME NEW t \in Tables PROVE LinkStands(t)'
  BY <1>1 DEF FInv, LinkStands
<1> QED BY <1>2, <1>3 DEF FInv

LEMMA FInvStep == FInv /\ [Next]_vars => FInv'
<1> SUFFICES ASSUME FInv, [Next]_vars PROVE FInv'
  OBVIOUS
<1>1. IInv'
  BY NextInv DEF FInv
<1>2. CASE Crash
  BY <1>2, RestartFollows DEF Crash
<1>3. CASE \E t \in Tables, b \in Dirs : Repoint(t, b)
  BY <1>3, RepointFollows
<1>4. CASE \E th \in Threads : LoadStep(th)
  BY <1>4, LoadFollows, RestartFollows
<1>5. CASE \E r \in Reloaders, t \in Tables : ReloadCommand(r, t)
  BY <1>5, CommandFollows
<1>6. CASE \E r \in Reloaders : ReloadStep(r)
  BY <1>6, ReloadFollows
<1>7. CASE \/ \E t \in Tables : ScanEntry(t)
           \/ StartServing
           \/ \E c \in Clients, t \in Tables : Acquire(c, t)
           \/ \E c \in Clients : Release(c)
           \/ UNCHANGED vars
  BY <1>1, <1>7, RestFollows
<1> QED BY <1>2, <1>3, <1>4, <1>5, <1>6, <1>7 DEF Next

LEMMA ReloadInvariance == Spec => []FInv
BY FInvInit, FInvStep, PTL DEF Spec

(* A reload that swaps publishes a build the table directory resolved to   *)
(* since the command, and a config directory that is such a build or the   *)
(* table directory, for any number of admin threads and whatever the       *)
(* operator does between ReloadTable's reads of the directory.             *)
THEOREM ReloadServesWhatIsActive == Spec => []ReloadServesActive
<1>1. FInv => ReloadServesActive
  BY DEF FInv, Serves, ReloadServesActive
<1> QED BY <1>1, ReloadInvariance, PTL

(* While the staging key is live its link on disk is the slot's config     *)
(* directory, which is the build that is mapped unless it is the table     *)
(* directory: no step of another reload, of LoadTable or of the operator,  *)
(* and no failure, parts them.                                             *)
THEOREM StagingLinkStands == Spec => []StagingLinkNamesSlotDir
<1>1. FInv => StagingLinkNamesSlotDir
  BY DEF FInv, LinkStands, StagingLinkNamesSlotDir
<1> QED BY <1>1, ReloadInvariance, PTL

-----------------------------------------------------------------------------
(* One consumer per arena.                                                 *)

(* With the option on, no two keys have the same build open.               *)
ArenasApart ==
    ExclusiveArena =>
        \A e, f \in Registered :
            db[e[1]][e[2]].build = db[f[1]][f[2]].build => e = f

(* Closing a key, or opening one whose arena no other key has open.        *)
LEMMA WriteApart ==
    ASSUME TypeOK, ArenasApart, NEW t \in Tables, NEW k \in Keys,
           NEW m \in Mapping \cup {Nothing},
           m # Nothing => ~Locked(t, k, m.build),
           db' = [db EXCEPT ![t][k] = m]
    PROVE  ArenasApart'
<1> SUFFICES ASSUME ExclusiveArena, NEW e \in Registered', NEW f \in Registered',
                    db'[e[1]][e[2]].build = db'[f[1]][f[2]].build
             PROVE  e = f
  BY DEF ArenasApart
<1>1. /\ e \in Tables \X Keys /\ db'[e[1]][e[2]] # Nothing
      /\ f \in Tables \X Keys /\ db'[f[1]][f[2]] # Nothing
  BY DEF Registered
<1>2. ASSUME NEW g \in Tables \X Keys
      PROVE  db'[g[1]][g[2]] = IF g = <<t, k>> THEN m ELSE db[g[1]][g[2]]
  <2>1. db \in [Tables -> [Keys -> Mapping \cup {Nothing}]]
    BY DEF TypeOK
  <2>2. db'[g[1]] = IF g[1] = t THEN [db[t] EXCEPT ![k] = m] ELSE db[g[1]]
    BY <2>1
  <2>3. db[g[1]] \in [Keys -> Mapping \cup {Nothing}]
    BY <2>1
  <2>4. g = <<t, k>> <=> g[1] = t /\ g[2] = k
    OBVIOUS
  <2> QED BY <2>1, <2>2, <2>3, <2>4
<1>3. CASE e = <<t, k>> /\ f # <<t, k>>
  <2>1. m # Nothing /\ m.build = db[f[1]][f[2]].build
    BY <1>1, <1>2, <1>3
  <2>2. f \in Registered \ {<<t, k>>}
    BY <1>1, <1>2, <1>3 DEF Registered
  <2> QED BY <2>1, <2>2 DEF Locked
<1>4. CASE f = <<t, k>> /\ e # <<t, k>>
  <2>1. m # Nothing /\ m.build = db[e[1]][e[2]].build
    BY <1>1, <1>2, <1>4
  <2>2. e \in Registered \ {<<t, k>>}
    BY <1>1, <1>2, <1>4 DEF Registered
  <2> QED BY <2>1, <2>2 DEF Locked
<1>5. CASE e # <<t, k>> /\ f # <<t, k>>
  <2>1. e \in Registered /\ f \in Registered
    BY <1>1, <1>2, <1>5 DEF Registered
  <2> QED BY <1>1, <1>2, <1>5, <2>1 DEF ArenasApart
<1> QED BY <1>3, <1>4, <1>5

LEMMA CloseApart ==
    ASSUME TypeOK, ArenasApart, NEW t \in Tables, NEW k \in Keys,
           CloseIndex(t, k)
    PROVE  ArenasApart'
BY WriteApart DEF CloseIndex

(* What OpenIndex and ReopenIndex register is not locked.                  *)
LEMMA OpenApart ==
    ASSUME TypeOK, ArenasApart, NEW t \in Tables, NEW k \in Keys,
           NEW b \in Builds,
           ~Locked(t, k, b), NEW p \in Ptrs,
           db' = [db EXCEPT ![t][k] = [ptr |-> p, build |-> b]]
    PROVE  ArenasApart'
<1>1. [ptr |-> p, build |-> b] \in Mapping
  BY DEF Mapping
<1> QED BY <1>1, WriteApart

LEMMA SameApart == ASSUME ArenasApart, UNCHANGED db PROVE ArenasApart'
BY DEF ArenasApart, Registered

LEMMA LoadApart ==
    ASSUME IInv, ArenasApart, NEW th \in Threads, LoadStep(th), ~Restart
    PROVE  ArenasApart'
<1>1. TypeOK /\ "primary" \in Keys
  BY DEF IInv, Keys
<1>2. pc[th] \in InsideLoad => table[th] \in Tables
  BY DEF IInv, Commands, TypeOK
<1>3. CASE UNCHANGED db
  BY <1>3, SameApart
<1>4. CASE LoadOpen(th) /\ ~UNCHANGED db
  <2>1. PICK p \in Ptrs :
            /\ active[table[th]] # Nothing
            /\ ~Locked(table[th], "primary", active[table[th]])
            /\ db' = [db EXCEPT ![table[th]]["primary"] =
                         [ptr |-> p, build |-> active[table[th]]]]
    BY <1>4 DEF LoadOpen, OpenIndex
  <2>2. table[th] \in Tables /\ active[table[th]] \in Builds
    BY <1>1, <1>2, <1>4, <2>1 DEF LoadOpen, InsideLoad, TypeOK, Dirs
  <2> QED BY <1>1, <2>1, <2>2, OpenApart
<1>5. CASE /\ pc[th] \in InsideLoad
           /\ CloseIndex(table[th], "primary")
  BY <1>1, <1>2, <1>5, CloseApart
<1>6. \/ UNCHANGED db
      \/ LoadOpen(th)
      \/ pc[th] \in InsideLoad /\ CloseIndex(table[th], "primary")
  BY DEF LoadStep, LoadBegin, LoadOpenFails, LoadCanonical, LoadBuild,
         LoadAborts, LoadThrows, LoadInsert, InsideLoad
<1> QED BY <1>3, <1>4, <1>5, <1>6

LEMMA ReloadApart ==
    ASSUME IInv, ArenasApart, NEW r \in Reloaders, ReloadStep(r)
    PROVE  ArenasApart'
<1>1. TypeOK
  BY DEF IInv
<1>2. /\ r \in Threads
      /\ next[r] \in Keys /\ Other(next[r]) \in Keys
      /\ pc[r] \in InsideReload => table[r] \in Tables
  BY DEF IInv, Commands, TypeOK, Threads, Other, Keys
<1>3. CASE UNCHANGED db
  BY <1>3, SameApart
<1>4. CASE ReloadOpen(r)
  <2>1. PICK p \in Ptrs :
            /\ NextTarget(r) # Nothing
            /\ ~Locked(table[r], next[r], NextTarget(r))
            /\ db' = [db EXCEPT ![table[r]][next[r]] =
                         [ptr |-> p, build |-> NextTarget(r)]]
    BY <1>4 DEF ReloadOpen, ReopenIndex
  <2>2. table[r] \in Tables
    BY <1>2, <1>4 DEF ReloadOpen, InsideReload, BeforeSwap
  <2>3. NextTarget(r) \in Builds
    BY <1>1, <2>1, <2>2 DEF NextTarget, Named, TypeOK, Paths, Dirs
  <2> QED BY <1>1, <1>2, <2>1, <2>2, <2>3, OpenApart
<1>5. CASE ReloadAborts(r) \/ ReloadFinish(r)
  <2>1. pc[r] \in InsideReload
    BY <1>5 DEF ReloadAborts, ReloadFinish, InsideReload, BeforeSwap, AfterSwap
  <2> QED BY <1>1, <1>2, <1>5, <2>1, CloseApart DEF ReloadAborts, ReloadFinish
<1>6. UNCHANGED db \/ ReloadOpen(r) \/ ReloadAborts(r) \/ ReloadFinish(r)
  BY DEF ReloadStep, ReloadLookup, ReloadPrepare, ReloadPrepareFails,
         ReloadBuild, ReloadThrows, ReloadSwap, ReloadStop
<1> QED BY <1>3, <1>4, <1>5, <1>6

LEMMA ApartStep == IInv /\ ArenasApart /\ [Next]_vars => ArenasApart'
<1> SUFFICES ASSUME IInv, ArenasApart, [Next]_vars PROVE ArenasApart'
  OBVIOUS
<1>1. CASE Restart
  BY <1>1 DEF Restart, ArenasApart, Registered
<1>2. CASE \E th \in Threads : LoadStep(th)
  BY <1>1, <1>2, LoadApart
<1>3. CASE \E r \in Reloaders : ReloadStep(r)
  BY <1>3, ReloadApart
<1>4. CASE \/ \E t \in Tables, b \in Dirs : Repoint(t, b)
           \/ \E t \in Tables : ScanEntry(t)
           \/ StartServing
           \/ \E r \in Reloaders, t \in Tables : ReloadCommand(r, t)
           \/ \E c \in Clients, t \in Tables : Acquire(c, t)
           \/ \E c \in Clients : Release(c)
           \/ UNCHANGED vars
  <2>1. UNCHANGED db
    BY <1>4 DEF Repoint, ScanEntry, StartServing, ReloadCommand, Acquire,
                Release, vars
  <2> QED BY <2>1, SameApart
<1> QED BY <1>1, <1>2, <1>3, <1>4 DEF Next, Crash

(* Two consumers under one key of one table are one: where a thread is     *)
(* between building a slot and stopping the one it replaces, the slots at  *)
(* hand have different keys.                                               *)
LEMMA OneConsumerPerKey ==
    ASSUME IInv, NEW s \in consuming, NEW u \in consuming,
           s.table = u.table, s.key = u.key
    PROVE  s = u
<1> USE RegistryAssumption
<1> DEFINE FreshOf(th, x) == pc[th] \in {"insert", "swap"} /\ fresh[th] = x
           OldOf(r, x) == pc[r] = "stop" /\ old[r] = x
<1>1. /\ s \in Slot /\ u \in Slot /\ s # Nothing /\ u # Nothing
      /\ s.table \in Tables
  BY DEF IInv, TypeOK, Slot
<1>2. ASSUME NEW x \in consuming
      PROVE  \/ x = live[x.table]
             \/ \E th \in Threads : FreshOf(th, x)
             \/ \E r \in Reloaders : OldOf(r, x)
  BY DEF IInv, Consumers
<1>3. ASSUME NEW th \in Threads, NEW x \in consuming, FreshOf(th, x)
      PROVE  /\ table[th] = x.table
             /\ pc[th] \in InsideLoad \cup InsideReload
             /\ x # live[x.table] /\ live[x.table] # Nothing =>
                    live[x.table].key # x.key
             /\ x = live[x.table] => FALSE
  <2>1. x \in Slot /\ x # Nothing
    BY DEF IInv, TypeOK, Slot
  <2>2. x.table = table[th]
    BY <1>3 DEF IInv, FreshSlots, FreshSlot
  <2>3. pc[th] = "insert" => live[table[th]] = Nothing
    BY DEF IInv, Commands, InsideLoad
  <2>4. pc[th] = "swap" => live[table[th]].key # next[th] /\ x.key = next[th]
    BY <1>3 DEF IInv, FreshSlots, FreshSlot, BeforeSwap
  <2> QED BY <1>3, <2>1, <2>2, <2>3, <2>4
          DEF InsideLoad, InsideReload, BeforeSwap
<1>4. ASSUME NEW r \in Reloaders, NEW x \in consuming, OldOf(r, x)
      PROVE  /\ r \in Threads
             /\ table[r] = x.table
             /\ pc[r] \in InsideLoad \cup InsideReload
             /\ live[x.table] # Nothing /\ live[x.table].key # x.key
  BY <1>4 DEF IInv, OldSlots, OldSlot, Commands, Threads, InsideReload, AfterSwap
<1>5. CASE s = live[s.table]
  BY <1>1, <1>2, <1>3, <1>4, <1>5
<1>6. CASE u = live[u.table]
  BY <1>1, <1>2, <1>3, <1>4, <1>6
<1>7. CASE /\ \E a \in Threads : FreshOf(a, s) \/ (a \in Reloaders /\ OldOf(a, s))
           /\ \E b \in Threads : FreshOf(b, u) \/ (b \in Reloaders /\ OldOf(b, u))
  <2> PICK a \in Threads : FreshOf(a, s) \/ (a \in Reloaders /\ OldOf(a, s))
    BY <1>7
  <2> PICK b \in Threads : FreshOf(b, u) \/ (b \in Reloaders /\ OldOf(b, u))
    BY <1>7
  <2>1. /\ table[a] = s.table /\ pc[a] \in InsideLoad \cup InsideReload
        /\ table[b] = u.table /\ pc[b] \in InsideLoad \cup InsideReload
    BY <1>3, <1>4
  <2>2. a = b
    BY <2>1, Alone
  <2> QED BY <2>2
<1> QED BY <1>2, <1>4, <1>5, <1>6, <1>7

(* With exclusive_arena_lock an arena has one consumer at most, for any    *)
(* number of admin threads, tables and clients: ReloadTable starts a       *)
(* consumer before it stops the old one, and then on another arena.        *)
THEOREM OneArenaOneConsumer == Spec => []OneConsumerPerArena
<1>1. Init => ArenasApart
  BY DEF Init, ArenasApart, Registered
<1>2. IInv /\ ArenasApart => OneConsumerPerArena
  <2> SUFFICES ASSUME IInv, ArenasApart, ExclusiveArena,
                      NEW s \in consuming, NEW u \in consuming,
                      s.build = u.build
               PROVE  s = u
    BY DEF OneConsumerPerArena
  <2>1. s \in Slot /\ Mapped(s) /\ u \in Slot /\ Mapped(u)
    BY ConsumersMapped DEF IInv, TypeOK, ConsumerIsMapped
  <2> DEFINE e == <<s.table, s.key>>
             f == <<u.table, u.key>>
  <2>2. /\ e \in Registered /\ db[e[1]][e[2]].build = s.build
        /\ f \in Registered /\ db[f[1]][f[2]].build = u.build
    BY <2>1, RegistryAssumption DEF Registered, Mapped, Slot, Mapping
  <2>3. e = f
    BY <2>2 DEF ArenasApart
  <2>4. s.table = u.table /\ s.key = u.key
    BY <2>3
  <2> QED BY <2>4, OneConsumerPerKey
<1> QED BY <1>1, <1>2, ApartStep, Invariance, PTL DEF Spec

-----------------------------------------------------------------------------
(* Reloads do not pile up mappings.                                        *)

(* The key a thread answers for: the one it opened, or after the swap the  *)
(* one it is about to close.                                               *)
Claims(th, t, k) ==
    /\ table[th] = t
    /\ \/ pc[th] \in InsideLoad /\ k = "primary"
       \/ pc[th] \in BeforeSwap /\ k = next[th]
       \/ pc[th] \in AfterSwap /\ k = Other(next[th])

(* Whatever is registered is live or somebody answers for it; LoadTable    *)
(* comes to its OpenIndex with nothing registered.                         *)
Owned(t, k) ==
    db[t][k] # Nothing =>
        \/ live[t] # Nothing /\ live[t].key = k
        \/ \E th \in Threads : Claims(th, t, k)

NothingYet(th) == pc[th] = "open" => db[table[th]]["primary"] = Nothing

QInv == /\ IInv
        /\ \A t \in Tables, k \in Keys : Owned(t, k)
        /\ \A th \in Threads : NothingYet(th)

LEMMA QInvInit == Init => QInv
<1> SUFFICES ASSUME Init PROVE QInv
  OBVIOUS
<1>1. IInv
  BY InitInv
<1>2. \A t \in Tables, k \in Keys : db[t][k] = Nothing
  BY DEF Init
<1>3. \A th \in Threads : pc[th] # "open"
  BY DEF Init
<1> QED BY <1>1, <1>2, <1>3 DEF QInv, Owned, NothingYet

LEMMA RestartOwned == ASSUME QInv, Restart PROVE QInv'
<1>1. IInv'
  BY RestartInv DEF QInv, IInv
<1>2. \A t \in Tables, k \in Keys : db'[t][k] = Nothing
  BY DEF Restart
<1>3. \A th \in Threads : pc'[th] # "open"
  BY DEF Restart
<1> QED BY <1>1, <1>2, <1>3 DEF QInv, Owned, NothingYet

(* What a step of one thread has to show: each key is live or claimed, by  *)
(* it or by another.                                                       *)
LEMMA OwnedKept ==
    ASSUME QInv, IInv', NEW th \in Threads, OthersSame(th),
           \A t \in Tables, k \in Keys :
               db'[t][k] # Nothing =>
                   \/ live'[t] # Nothing /\ live'[t].key = k
                   \/ Claims(th, t, k)'
                   \/ \E x \in Threads \ {th} : Claims(x, t, k),
           \A x \in Threads \ {th} : pc[x] = "open" => db'[table[x]] = db[table[x]],
           NothingYet(th)'
    PROVE  QInv'
<1>1. ASSUME NEW x \in Threads \ {th}, NEW t, NEW k, Claims(x, t, k)
      PROVE  Claims(x, t, k)'
  BY <1>1 DEF Claims, OthersSame
<1>2. \A t \in Tables, k \in Keys : Owned(t, k)'
  BY <1>1 DEF Owned
<1>3. ASSUME NEW x \in Threads \ {th} PROVE NothingYet(x)'
  BY DEF QInv, NothingYet, OthersSame
<1> QED BY <1>2, <1>3 DEF QInv

(* A thread that answers for nothing and touches neither keys nor slots.   *)
LEMMA IdleOwned ==
    ASSUME QInv, IInv', NEW th \in Threads, OthersSame(th),
           pc[th] \notin InsideLoad \cup InsideReload,
           UNCHANGED <<db, live>>, NothingYet(th)'
    PROVE  QInv'
<1>1. \A t \in Tables, k \in Keys : ~Claims(th, t, k)
  BY DEF Claims, InsideReload
<1>2. ASSUME NEW t \in Tables, NEW k \in Keys, db'[t][k] # Nothing
      PROVE  \/ live'[t] # Nothing /\ live'[t].key = k
             \/ \E x \in Threads \ {th} : Claims(x, t, k)
  BY <1>1, <1>2 DEF QInv, Owned
<1> QED BY <1>2, OwnedKept

(* A thread inside its critical section that goes on answering for its key *)
(* and writes no other.                                                    *)
LEMMA HolderOwned ==
    ASSUME QInv, IInv', NEW th \in Threads, OthersSame(th),
           pc[th] \in InsideLoad \cup InsideReload,
           pc'[th] # "open", UNCHANGED live,
           \A t \in Tables, k \in Keys :
               /\ Claims(th, t, k) => Claims(th, t, k)'
               /\ db'[t][k] = db[t][k] \/ Claims(th, t, k)
    PROVE  QInv'
<1>1. ASSUME NEW t \in Tables, NEW k \in Keys, db'[t][k] # Nothing
      PROVE  \/ live'[t] # Nothing /\ live'[t].key = k
             \/ Claims(th, t, k)'
             \/ \E x \in Threads \ {th} : Claims(x, t, k)
  BY <1>1 DEF QInv, Owned
<1>2. ASSUME NEW x \in Threads \ {th}, pc[x] = "open"
      PROVE  db'[table[x]] = db[table[x]]
  <2>1. table[x] # table[th] /\ table[x] \in Tables
    BY <1>2, Alone DEF QInv, InsideLoad, IInv, TypeOK, Commands
  <2>2. \A k \in Keys : db'[table[x]][k] = db[table[x]][k]
    BY <2>1 DEF Claims
  <2> QED BY <2>1, <2>2 DEF QInv, IInv, TypeOK
<1>3. NothingYet(th)'
  BY DEF NothingYet
<1> QED BY <1>1, <1>2, <1>3, OwnedKept

(* A thread that closes the one key it answers for, or had not opened it.  *)
LEMMA CloserOwned ==
    ASSUME QInv, IInv', NEW th \in Threads, OthersSame(th),
           pc[th] \in InsideLoad \cup InsideReload,
           pc'[th] # "open", UNCHANGED live,
           NEW k \in Keys, table[th] \in Tables,
           \A j \in Keys : Claims(th, table[th], j) => j = k,
           CloseIndex(table[th], k)
    PROVE  QInv'
<1>1. /\ db'[table[th]][k] = Nothing
      /\ \A t \in Tables, j \in Keys :
            t # table[th] \/ j # k => db'[t][j] = db[t][j]
      /\ \A t \in Tables : t # table[th] => db'[t] = db[t]
  BY DEF CloseIndex, QInv, IInv, TypeOK
<1>2. ASSUME NEW t \in Tables, NEW j \in Keys, db'[t][j] # Nothing
      PROVE  \/ live'[t] # Nothing /\ live'[t].key = j
             \/ \E x \in Threads \ {th} : Claims(x, t, j)
  <2>1. (t # table[th] \/ j # k) /\ db[t][j] # Nothing
    BY <1>1, <1>2
  <2>2. ~Claims(th, t, j)
    BY <2>1 DEF Claims
  <2> QED BY <2>1, <2>2 DEF QInv, Owned
<1>3. ASSUME NEW x \in Threads \ {th}, pc[x] = "open"
      PROVE  db'[table[x]] = db[table[x]]
  <2>1. table[x] # table[th] /\ table[x] \in Tables
    BY <1>3, Alone DEF QInv, InsideLoad, IInv, TypeOK, Commands
  <2> QED BY <1>1, <2>1
<1>4. NothingYet(th)'
  BY DEF NothingYet
<1> QED BY <1>2, <1>3, <1>4, OwnedKept

LEMMA LoadOwned ==
    ASSUME QInv, "spawn" \notin Faults, NEW th \in Threads, LoadStep(th),
           ~Restart
    PROVE  QInv'
<1> USE RegistryAssumption
<1> DEFINE t == table[th]
<1>1. IInv /\ IInv' /\ OthersSame(th)
  BY LoadStepInv, LoadOthers DEF QInv
<1>2. /\ pc \in [Threads -> Labels]
      /\ db \in [Tables -> [Keys -> Mapping \cup {Nothing}]]
      /\ live \in [Tables -> Slot \cup {Nothing}]
      /\ "primary" \in Keys
  BY <1>1 DEF IInv, TypeOK, Keys
<1>3. pc[th] \in InsideLoad => t \in Tables /\ live[t] = Nothing
  BY <1>1 DEF IInv, TypeOK, Commands
<1>4. ASSUME pc[th] \in InsideLoad, NEW u, NEW k, Claims(th, u, k)
      PROVE  u = t /\ k = "primary"
  BY <1>4 DEF Claims, InsideLoad, BeforeSwap, AfterSwap
<1>5. ASSUME pc[th] \in InsideLoad, pc'[th] \in InsideLoad, table'[th] = t,
             NEW u, NEW k, Claims(th, u, k)
      PROVE  Claims(th, u, k)'
  BY <1>4, <1>5 DEF Claims
<1>6. pc[th] \in InsideLoad => Claims(th, t, "primary")
  BY DEF Claims
<1>7. CASE LoadBegin(th)
  <2>1. /\ pc[th] = "load" /\ LoadMutexFree
        /\ UNCHANGED <<db, live>>
    BY <1>7 DEF LoadBegin, heads
  <2>2. CASE live[t] # Nothing
    <3>1. pc'[th] \in {"scan", "idle"}
      BY <1>1, <1>7, <2>2, ReturnOthers DEF LoadBegin
    <3>2. NothingYet(th)'
      BY <3>1 DEF NothingYet
    <3> QED BY <1>1, <2>1, <3>2, IdleOwned
            DEF InsideLoad, InsideReload, BeforeSwap, AfterSwap
  <2>3. CASE live[t] = Nothing
    <3>1. t \in Tables /\ table'[th] = t
      BY <1>1, <1>7, <2>1, <2>3 DEF LoadBegin, IInv, TypeOK, Commands, locals
    <3>2. ASSUME NEW x \in Threads, Claims(x, t, "primary") PROVE FALSE
      <4>1. pc[x] \notin InsideLoad
        BY <2>1 DEF LoadMutexFree
      <4>2. pc[x] \notin InsideReload
        BY <1>1, <2>3, <3>2 DEF Claims, IInv, Commands
      <4> QED BY <3>2, <4>1, <4>2 DEF Claims, InsideReload
    <3>3. db[t]["primary"] = Nothing
      BY <1>2, <2>3, <3>1, <3>2 DEF QInv, Owned
    <3>4. NothingYet(th)'
      BY <2>1, <3>1, <3>3 DEF NothingYet
    <3> QED BY <1>1, <2>1, <3>4, IdleOwned
            DEF InsideLoad, InsideReload, BeforeSwap, AfterSwap
  <2> QED BY <2>2, <2>3
<1>8. CASE LoadOpen(th) \/ LoadCanonical(th) \/ LoadBuild(th)
  <2>1. /\ pc[th] \in InsideLoad
        /\ pc'[th] \in InsideLoad \ {"open"}
        /\ table'[th] = t
        /\ UNCHANGED live
    BY <1>2, <1>8 DEF LoadOpen, LoadCanonical, LoadBuild, BuildSlotAfterOpen,
                      locals, heads, InsideLoad
  <2>2. ASSUME NEW u \in Tables, NEW k \in Keys
        PROVE  db'[u][k] = db[u][k] \/ Claims(th, u, k)
    <3>1. CASE u = t /\ k = "primary"
      BY <1>6, <2>1, <3>1
    <3>2. CASE u # t \/ k # "primary"
      <4>1. db' = db \/ \E m : db' = [db EXCEPT ![t]["primary"] = m]
        BY <1>8 DEF LoadOpen, OpenIndex, LoadCanonical, LoadBuild
      <4>2. CASE \E m : db' = [db EXCEPT ![t]["primary"] = m]
        <5> PICK m : db' = [db EXCEPT ![t]["primary"] = m]
          BY <4>2
        <5>1. db'[u] = IF u = t THEN [db[u] EXCEPT !["primary"] = m] ELSE db[u]
          BY <1>2
        <5>2. db[u] \in [Keys -> Mapping \cup {Nothing}]
          BY <1>2
        <5> QED BY <3>2, <5>1, <5>2
      <4> QED BY <4>1, <4>2
    <3> QED BY <3>1, <3>2
  <2>3. \A u \in Tables, k \in Keys : Claims(th, u, k) => Claims(th, u, k)'
    BY <1>5, <2>1
  <2> QED BY <1>1, <2>1, <2>2, <2>3, HolderOwned
<1>9. CASE LoadOpenFails(th)
  <2>1. /\ pc[th] = "open"
        /\ UNCHANGED <<db, live>>
        /\ pc'[th] \in {"scan", "idle"}
    BY <1>1, <1>9, ReturnOthers DEF LoadOpenFails, heads
  <2>2. t \in Tables /\ db[t]["primary"] = Nothing
    BY <1>3, <2>1 DEF QInv, NothingYet, InsideLoad
  <2>3. ASSUME NEW u \in Tables, NEW k \in Keys, db'[u][k] # Nothing
        PROVE  \/ live'[u] # Nothing /\ live'[u].key = k
               \/ \E x \in Threads \ {th} : Claims(x, u, k)
    BY <1>4, <2>1, <2>2, <2>3 DEF QInv, Owned, InsideLoad
  <2>4. NothingYet(th)'
    BY <2>1 DEF NothingYet
  <2> QED BY <1>1, <2>1, <2>3, <2>4, OwnedKept
<1>10. CASE LoadAborts(th)
  <2>1. /\ pc[th] \in InsideLoad
        /\ CloseIndex(t, "primary")
        /\ UNCHANGED live
        /\ pc'[th] \in {"scan", "idle"}
    BY <1>1, <1>10, ReturnOthers DEF LoadAborts, heads, InsideLoad
  <2> QED BY <1>1, <1>2, <1>3, <1>4, <2>1, CloserOwned
<1>11. CASE LoadInsert(th)
  <2>1. /\ pc[th] \in InsideLoad
        /\ fresh[th] # Nothing /\ fresh[th].key = "primary"
    BY <1>1, <1>11 DEF LoadInsert, InsideLoad, IInv, FreshSlots, FreshSlot
  <2>2. t \in Tables /\ live[t] = Nothing
    BY <1>3, <2>1
  <2>3. /\ live' = [live EXCEPT ![t] = fresh[th]]
        /\ UNCHANGED db
        /\ pc'[th] \in {"scan", "idle"}
    BY <1>1, <1>11, <2>2, ReturnOthers DEF LoadInsert
  <2>4. ASSUME NEW u \in Tables, NEW k \in Keys, db'[u][k] # Nothing
        PROVE  \/ live'[u] # Nothing /\ live'[u].key = k
               \/ \E x \in Threads \ {th} : Claims(x, u, k)
    <3>1. \/ live[u] # Nothing /\ live[u].key = k
          \/ \E x \in Threads : Claims(x, u, k)
      BY <2>3, <2>4 DEF QInv, Owned
    <3>2. CASE Claims(th, u, k)
      BY <1>2, <1>4, <2>1, <2>2, <2>3, <3>2
    <3>3. CASE live[u] # Nothing /\ live[u].key = k
      BY <1>2, <2>2, <2>3, <3>3
    <3> QED BY <3>1, <3>2, <3>3
  <2>5. NothingYet(th)'
    BY <2>3 DEF NothingYet
  <2> QED BY <1>1, <2>3, <2>4, <2>5, OwnedKept
<1>12. ~LoadThrows(th)
  BY DEF LoadThrows
<1> QED BY <1>7, <1>8, <1>9, <1>10, <1>11, <1>12 DEF LoadStep

LEMMA ReloadOwned ==
    ASSUME QInv, "spawn" \notin Faults, NEW r \in Reloaders, ReloadStep(r)
    PROVE  QInv'
<1> USE RegistryAssumption
<1> DEFINE t == table[r]
<1>1. IInv /\ IInv' /\ OthersSame(r) /\ r \in Threads
  BY ReloadStepInv, ReloadOthers DEF QInv, Threads
<1>2. /\ pc \in [Threads -> Labels]
      /\ next \in [Threads -> Keys]
      /\ db \in [Tables -> [Keys -> Mapping \cup {Nothing}]]
      /\ live \in [Tables -> Slot \cup {Nothing}]
  BY <1>1 DEF IInv, TypeOK
<1>3. pc[r] \in InsideReload => t \in Tables
  BY <1>1 DEF IInv, TypeOK, Commands
<1>4. ASSUME pc[r] \in BeforeSwap
      PROVE  \A u \in Tables, k \in Keys : Claims(r, u, k) <=> u = t /\ k = next[r]
  BY <1>4 DEF Claims, InsideLoad, BeforeSwap, AfterSwap
<1>5. ASSUME pc[r] \in AfterSwap
      PROVE  \A u \in Tables, k \in Keys :
                 Claims(r, u, k) <=> u = t /\ k = Other(next[r])
  BY <1>5 DEF Claims, InsideLoad, BeforeSwap, AfterSwap
<1>6. next[r] \in Keys /\ Other(next[r]) \in Keys
      /\ \A k \in Keys : k = next[r] \/ k = Other(next[r])
  BY <1>1, <1>2 DEF Other, Keys
<1>7. CASE ReloadLookup(r) \/ ReloadPrepare(r) \/ ReloadPrepareFails(r)
  <2>1. /\ pc[r] \in {"look", "reload"}
        /\ UNCHANGED <<db, live>>
    BY <1>7 DEF ReloadLookup, ReloadPrepare, ReloadPrepareFails, heads
  <2>2. ASSUME Return(r, "err") PROVE pc'[r] # "open"
    BY <1>1, <2>2, ReturnOthers
  <2>3. pc'[r] # "open"
    BY <1>1, <1>2, <1>7, <2>2 DEF ReloadLookup, ReloadPrepare, ReloadPrepareFails
  <2>4. NothingYet(r)'
    BY <2>3 DEF NothingYet
  <2> QED BY <1>1, <2>1, <2>4, IdleOwned
          DEF InsideLoad, InsideReload, BeforeSwap, AfterSwap
<1>8. CASE ReloadOpen(r) \/ ReloadBuild(r)
  <2>1. /\ pc[r] \in BeforeSwap /\ pc'[r] \in BeforeSwap
        /\ UNCHANGED <<table, next, live>>
    BY <1>1, <1>2, <1>8 DEF ReloadOpen, ReloadBuild, BuildSlotAfterOpen, locals,
                            heads, BeforeSwap
  <2>2. ASSUME NEW u \in Tables, NEW k \in Keys
        PROVE  db'[u][k] = db[u][k] \/ Claims(r, u, k)
    <3>1. CASE u = t /\ k = next[r]
      BY <1>4, <2>1, <3>1
    <3>2. CASE u # t \/ k # next[r]
      <4>1. db' = db \/ \E m : db' = [db EXCEPT ![t][next[r]] = m]
        BY <1>8 DEF ReloadOpen, ReopenIndex, ReloadBuild
      <4>2. CASE \E m : db' = [db EXCEPT ![t][next[r]] = m]
        <5> PICK m : db' = [db EXCEPT ![t][next[r]] = m]
          BY <4>2
        <5>1. db'[u] = IF u = t THEN [db[u] EXCEPT ![next[r]] = m] ELSE db[u]
          BY <1>2
        <5>2. db[u] \in [Keys -> Mapping \cup {Nothing}]
          BY <1>2
        <5> QED BY <3>2, <5>1, <5>2
      <4> QED BY <4>1, <4>2
    <3> QED BY <3>1, <3>2
  <2>3. \A u \in Tables, k \in Keys : Claims(r, u, k) => Claims(r, u, k)'
    BY <1>4, <2>1 DEF Claims
  <2>4. pc[r] \in InsideReload /\ pc'[r] # "open"
    BY <2>1 DEF InsideReload, BeforeSwap
  <2> QED BY <1>1, <2>1, <2>2, <2>3, <2>4, HolderOwned
<1>9. CASE ReloadAborts(r)
  <2>1. /\ pc[r] \in BeforeSwap
        /\ CloseIndex(t, next[r])
        /\ UNCHANGED live
        /\ pc'[r] \in {"scan", "idle"}
    BY <1>1, <1>9, ReturnOthers DEF ReloadAborts, heads, BeforeSwap
  <2>2. pc[r] \in InsideReload /\ pc'[r] # "open"
    BY <2>1 DEF InsideReload
  <2>3. \A j \in Keys : Claims(r, t, j) => j = next[r]
    BY <1>3, <1>4, <2>1, <2>2
  <2> QED BY <1>1, <1>3, <1>6, <2>1, <2>2, <2>3, CloserOwned
<1>10. CASE ReloadSwap(r)
  <2>1. /\ pc[r] \in BeforeSwap
        /\ fresh[r] # Nothing /\ fresh[r].key = next[r]
        /\ pc[r] \in InsideReload
    BY <1>1, <1>10 DEF ReloadSwap, BeforeSwap, InsideReload, IInv, FreshSlots,
                       FreshSlot
  <2>2. /\ live' = [live EXCEPT ![t] = fresh[r]]
        /\ pc'[r] = "stop"
        /\ UNCHANGED <<db, table, next>>
    BY <1>1, <1>2, <1>10 DEF ReloadSwap
  <2>3. ASSUME NEW u \in Tables, NEW k \in Keys, db'[u][k] # Nothing
        PROVE  \/ live'[u] # Nothing /\ live'[u].key = k
               \/ Claims(r, u, k)'
               \/ \E x \in Threads \ {r} : Claims(x, u, k)
    <3>1. CASE u = t /\ k = next[r]
      BY <1>2, <2>1, <2>2, <3>1
    <3>2. CASE u = t /\ k = Other(next[r])
      BY <2>2, <3>2 DEF Claims, AfterSwap
    <3>3. CASE u # t
      <4>1. ~Claims(r, u, k)
        BY <3>3 DEF Claims
      <4> QED BY <1>2, <2>2, <2>3, <3>3, <4>1 DEF QInv, Owned
    <3> QED BY <1>6, <3>1, <3>2, <3>3
  <2>4. NothingYet(r)'
    BY <2>2 DEF NothingYet
  <2> QED BY <1>1, <2>2, <2>3, <2>4, OwnedKept
<1>11. CASE ReloadStop(r)
  <2>1. /\ pc[r] \in AfterSwap /\ pc'[r] \in AfterSwap
        /\ UNCHANGED <<db, table, next, live>>
    BY <1>1, <1>2, <1>11 DEF ReloadStop, locals, heads, AfterSwap
  <2>2. \A u \in Tables, k \in Keys : Claims(r, u, k) => Claims(r, u, k)'
    BY <1>5, <2>1 DEF Claims
  <2>3. pc[r] \in InsideReload /\ pc'[r] # "open"
    BY <2>1 DEF InsideReload, AfterSwap
  <2> QED BY <1>1, <2>1, <2>2, <2>3, HolderOwned
<1>12. CASE ReloadFinish(r)
  <2>1. /\ pc[r] \in AfterSwap
        /\ CloseIndex(t, Other(next[r]))
        /\ UNCHANGED live
        /\ pc'[r] \in {"scan", "idle"}
    BY <1>1, <1>12, ReturnOthers DEF ReloadFinish, heads, AfterSwap
  <2>2. pc[r] \in InsideReload /\ pc'[r] # "open"
    BY <2>1 DEF InsideReload
  <2>3. \A j \in Keys : Claims(r, t, j) => j = Other(next[r])
    BY <1>3, <1>5, <2>1, <2>2
  <2> QED BY <1>1, <1>3, <1>6, <2>1, <2>2, <2>3, CloserOwned
<1>13. ~ReloadThrows(r)
  BY DEF ReloadThrows
<1> QED BY <1>7, <1>8, <1>9, <1>10, <1>11, <1>12, <1>13 DEF ReloadStep

(* Steps of nobody that answers for a key.                                 *)
LEMMA RestOwned ==
    ASSUME QInv, IInv',
           \/ \E t \in Tables, b \in Dirs : Repoint(t, b)
           \/ StartServing
           \/ \E c \in Clients, t \in Tables : Acquire(c, t)
           \/ \E c \in Clients : Release(c)
           \/ UNCHANGED vars
    PROVE  QInv'
<1>1. /\ UNCHANGED <<db, live, table, next>>
      /\ \A th \in Threads : \/ pc'[th] = pc[th]
                             \/ pc[th] = "scan" /\ pc'[th] = "serving"
  BY DEF QInv, IInv, TypeOK, Repoint, StartServing, Acquire, Release, vars,
         heads, locals
<1>2. ASSUME NEW th \in Threads, NEW t, NEW k, Claims(th, t, k)
      PROVE  Claims(th, t, k)'
  BY <1>1, <1>2 DEF Claims, InsideLoad, BeforeSwap, AfterSwap
<1>3. ASSUME NEW t \in Tables, NEW k \in Keys PROVE Owned(t, k)'
  BY <1>1, <1>2 DEF QInv, Owned
<1>4. ASSUME NEW th \in Threads PROVE NothingYet(th)'
  BY <1>1 DEF QInv, NothingYet
<1> QED BY <1>3, <1>4 DEF QInv

LEMMA QInvStep ==
    ASSUME "spawn" \notin Faults
    PROVE  QInv /\ [Next]_vars => QInv'
<1> USE RegistryAssumption
<1> SUFFICES ASSUME QInv, [Next]_vars PROVE QInv'
  OBVIOUS
<1>1. IInv /\ IInv'
  BY NextInv DEF QInv
<1>2. CASE Restart
  BY <1>2, RestartOwned
<1>3. CASE \E th \in Threads : LoadStep(th)
  BY <1>2, <1>3, LoadOwned
<1>4. CASE \E r \in Reloaders : ReloadStep(r)
  BY <1>4, ReloadOwned
<1>5. CASE \E t \in Tables : ScanEntry(t)
  <2>1. /\ Main \in Threads /\ OthersSame(Main)
        /\ pc[Main] \notin InsideLoad \cup InsideReload
        /\ pc'[Main] # "open"
        /\ UNCHANGED <<db, live>>
    BY <1>1, <1>5 DEF ScanEntry, IInv, TypeOK, OthersSame, Threads, InsideLoad,
       InsideReload, BeforeSwap, AfterSwap, heads, locals, answers
  <2>2. NothingYet(Main)'
    BY <2>1 DEF NothingYet
  <2> QED BY <1>1, <2>1, <2>2, IdleOwned
<1>6. CASE \E r \in Reloaders, t \in Tables : ReloadCommand(r, t)
  <2> PICK r \in Reloaders, t \in Tables : ReloadCommand(r, t)
    BY <1>6
  <2>1. /\ r \in Threads /\ OthersSame(r)
        /\ pc[r] \notin InsideLoad \cup InsideReload
        /\ pc'[r] # "open"
        /\ UNCHANGED <<db, live>>
    BY <1>1 DEF ReloadCommand, IInv, TypeOK, OthersSame, Threads, InsideLoad,
       InsideReload, BeforeSwap, AfterSwap, heads
  <2>2. NothingYet(r)'
    BY <2>1 DEF NothingYet
  <2> QED BY <1>1, <2>1, <2>2, IdleOwned
<1>7. CASE \/ \E t \in Tables, b \in Dirs : Repoint(t, b)
           \/ StartServing
           \/ \E c \in Clients, t \in Tables : Acquire(c, t)
           \/ \E c \in Clients : Release(c)
           \/ UNCHANGED vars
  BY <1>1, <1>7, RestOwned
<1> QED BY <1>2, <1>3, <1>4, <1>5, <1>6, <1>7 DEF Next, Crash

(* Reloads do not pile up arenas: while no thread loads or reloads a table *)
(* the only key registered for it is the one its slot uses, on every path  *)
(* through LoadTable and ReloadTable, as long as the consumer's thread can *)
(* be created.                                                             *)
THEOREM OneMappingWhenQuiet ==
    ASSUME "spawn" \notin Faults
    PROVE  Spec => []QuietTableHasOneMapping
<1>1. QInv => QuietTableHasOneMapping
  <2> SUFFICES ASSUME QInv, NEW t \in Tables, NEW k \in Keys,
                      db[t][k] # Nothing, ~Busy(t)
               PROVE  live[t] # Nothing /\ live[t].key = k
    BY DEF QuietTableHasOneMapping
  <2>1. \A th \in Threads : ~Claims(th, t, k)
    BY DEF Busy, Claims, InsideReload
  <2> QED BY <2>1 DEF QInv, Owned
<1>2. Init => QInv
  BY QInvInit
<1>3. QInv /\ [Next]_vars => QInv'
  BY QInvStep
<1> QED BY <1>1, <1>2, <1>3, PTL DEF Spec
-----------------------------------------------------------------------------
(* The drain.                                                              *)

(* From the swap to the answer no request gets a handle on the slot that   *)
(* was replaced: those that hold one are fewer and fewer.                  *)
DrainOnlyShrinks ==
    [][\A r \in Reloaders, c \in Clients :
           (pc[r] \in AfterSwap /\ pc'[r] \in AfterSwap /\ hold'[c] = old[r]) =>
               hold[c] = old[r] /\ old'[r] = old[r]
      ]_vars

LEMMA OldSlotIsKept ==
    ASSUME IInv, [Next]_vars, NEW r \in Reloaders,
           pc[r] \in AfterSwap, pc'[r] \in AfterSwap
    PROVE  old'[r] = old[r]
<1>t. /\ pc \in [Threads -> Labels] /\ old \in [Threads -> Slot \cup {Nothing}]
      /\ r \in Threads /\ r # Main
  BY RegistryAssumption DEF IInv, TypeOK, Threads
<1>1. CASE \E th \in Threads : LoadStep(th)
  <2> PICK th \in Threads : LoadStep(th)
    BY <1>1
  <2>1. CASE th = r
    BY <1>t, <2>1 DEF LoadStep, LoadBegin, LoadOpen, LoadOpenFails,
        LoadCanonical, LoadBuild, LoadAborts, LoadThrows, LoadInsert, AfterSwap
  <2>2. CASE th # r
    <3>1. CASE Restart
      BY <3>1, <1>t DEF Restart, AfterSwap
    <3>2. CASE ~Restart
      <4>1. OthersSame(th)
        BY <3>2, LoadOthers
      <4> QED BY <1>t, <2>2, <4>1 DEF OthersSame
    <3> QED BY <3>1, <3>2
  <2> QED BY <2>1, <2>2
<1>2. CASE \E q \in Reloaders : ReloadStep(q)
  <2> PICK q \in Reloaders : ReloadStep(q)
    BY <1>2
  <2>1. CASE q = r
    BY <1>t, <2>1 DEF ReloadStep, ReloadLookup, ReloadPrepare,
        ReloadPrepareFails, ReloadOpen, ReloadAborts, ReloadBuild,
        ReloadThrows, ReloadSwap, ReloadStop, ReloadFinish, Return, locals,
        AfterSwap
  <2>2. CASE q # r
    <3>1. OthersSame(q)
      BY ReloadOthers
    <3> QED BY <1>t, <2>2, <3>1 DEF OthersSame
  <2> QED BY <2>1, <2>2
<1>3. CASE \/ Crash
           \/ \E t \in Tables, b \in Dirs : Repoint(t, b)
           \/ \E t \in Tables : ScanEntry(t)
           \/ StartServing
           \/ \E q \in Reloaders, t \in Tables : ReloadCommand(q, t)
           \/ \E c \in Clients, t \in Tables : Acquire(c, t)
           \/ \E c \in Clients : Release(c)
           \/ UNCHANGED vars
  BY <1>t, <1>3 DEF Crash, Restart, Repoint, ScanEntry, StartServing,
      ReloadCommand, Acquire, Release, vars, locals, AfterSwap
<1> QED BY <1>1, <1>2, <1>3 DEF Next

LEMMA DrainStep ==
    ASSUME IInv, [Next]_vars, NEW r \in Reloaders, NEW c \in Clients,
           pc[r] \in AfterSwap, pc'[r] \in AfterSwap, hold'[c] = old[r]
    PROVE  hold[c] = old[r]
<1>t. /\ old[r] # Nothing /\ old[r].table = table[r]
      /\ live[table[r]].key = next[r] /\ old[r].key # next[r]
      /\ hold \in [Clients -> Slot \cup {Nothing}]
  BY DEF IInv, TypeOK, OldSlots, OldSlot
<1>1. CASE UNCHANGED hold
  BY <1>1
<1>2. CASE \E d \in Clients, t \in Tables : Acquire(d, t)
  <2> PICK d \in Clients, t \in Tables : Acquire(d, t)
    BY <1>2
  <2>1. /\ hold' = [hold EXCEPT ![d] = live[t]]
        /\ live[t] # Nothing /\ live[t].table = t
    BY DEF Acquire, IInv, LiveSlots
  <2>2. live[t] # old[r]
    BY <1>t, <2>1
  <2> QED BY <1>t, <2>1, <2>2
<1>3. CASE \E d \in Clients : Release(d)
  BY <1>t, <1>3 DEF Release
<1>4. CASE Restart
  BY <1>t, <1>4 DEF Restart
<1>5. UNCHANGED hold \/ Restart
      \/ (\E d \in Clients, t \in Tables : Acquire(d, t))
      \/ (\E d \in Clients : Release(d))
  <2>1. CASE \E th \in Threads : LoadStep(th)
    BY <2>1 DEF LoadStep, LoadBegin, LoadOpen, LoadOpenFails, LoadCanonical,
                LoadBuild, LoadAborts, LoadThrows, LoadInsert
  <2>2. CASE \E q \in Reloaders : ReloadStep(q)
    BY <2>2 DEF ReloadStep, ReloadLookup, ReloadPrepare, ReloadPrepareFails,
                ReloadOpen, ReloadAborts, ReloadBuild, ReloadThrows,
                ReloadSwap, ReloadStop, ReloadFinish
  <2>3. CASE \/ \E t \in Tables, b \in Dirs : Repoint(t, b)
             \/ \E t \in Tables : ScanEntry(t)
             \/ StartServing
             \/ \E q \in Reloaders, t \in Tables : ReloadCommand(q, t)
             \/ UNCHANGED vars
    BY <2>3 DEF Repoint, ScanEntry, StartServing, ReloadCommand, vars
  <2> QED BY <2>1, <2>2, <2>3 DEF Next, Crash
<1> QED BY <1>1, <1>2, <1>3, <1>4, <1>5

(* ReloadTable's wait for use_count() has an end when requests have one:   *)
(* it waits only for handles that were there at the swap, since heads_ has *)
(* the new slot and nobody can acquire the old one any more.               *)
THEOREM DrainHasNoNewcomers == Spec => DrainOnlyShrinks
<1>1. ASSUME IInv, [Next]_vars, NEW r \in Reloaders, NEW c \in Clients,
             pc[r] \in AfterSwap, pc'[r] \in AfterSwap, hold'[c] = old[r]
      PROVE  hold[c] = old[r] /\ old'[r] = old[r]
  BY <1>1, DrainStep, OldSlotIsKept
<1>2. IInv /\ [Next]_vars =>
        [\A r \in Reloaders, c \in Clients :
           (pc[r] \in AfterSwap /\ pc'[r] \in AfterSwap /\ hold'[c] = old[r]) =>
               hold[c] = old[r] /\ old'[r] = old[r]]_vars
  BY <1>1
<1> QED BY <1>2, Invariance, PTL DEF Spec, DrainOnlyShrinks
=============================================================================
