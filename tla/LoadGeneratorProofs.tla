------------------------ MODULE LoadGeneratorProofs ------------------------
(***************************************************************************)
(* Proofs about LoadGenerator.tla, for any set of workers, any cap and any *)
(* limit of samples.                                                       *)
(***************************************************************************)
EXTENDS LoadGenerator, FiniteSetTheorems, TLAPS

(* The workers that will still count a call without another look at the    *)
(* sum: those in a call, and those whose two loads will stay below Cap.    *)
Late == {w \in Workers : \/ pc[w] \in {"call", "answered"}
                         \/ pc[w] = "sum" /\ ~DoneAtCap(w)}

(* Once the sum has reached Cap, there is room for every late worker.  The *)
(* call that reached it was one worker's, which is no longer late.         *)
RoomForLate ==
    mode = "requests" =>
        \/ ok + rpcErr < Cap
        \/ ok + rpcErr + Cardinality(Late) <= Cap + Cardinality(Workers) - 1

IInv == TypeOK /\ RoomForLate

(* What the counts of the late workers rest on.                            *)
LEMMA LateIsBounded ==
    /\ IsFiniteSet(Late)
    /\ Cardinality(Late) \in Nat /\ Cardinality(Workers) \in Nat
    /\ Cardinality(Late) <= Cardinality(Workers)
    /\ Cardinality(Workers) >= 1
<1>1. IsFiniteSet(Workers) /\ Workers # {}
  BY BenchAssumption
<1>2. Late \in SUBSET Workers
  BY DEF Late
<1>3. IsFiniteSet(Late) /\ Cardinality(Late) <= Cardinality(Workers)
  BY <1>1, <1>2, FS_Subset
<1>4. Cardinality(Late) \in Nat /\ Cardinality(Workers) \in Nat
  BY <1>1, <1>3, FS_CardinalityType
<1>5. Cardinality(Workers) # 0
  BY <1>1, FS_EmptySet
<1> QED BY <1>3, <1>4, <1>5

(* A set of late workers that has not grown leaves the room it had.        *)
LEMMA FewerLate ==
    ASSUME RoomForLate, TypeOK,
           mode' = mode, ok' = ok, rpcErr' = rpcErr,
           mode = "requests" /\ ok + rpcErr >= Cap => Late' \subseteq Late
    PROVE  RoomForLate'
<1> SUFFICES ASSUME mode = "requests", ok + rpcErr >= Cap
             PROVE  RoomForLate'
  BY BenchAssumption DEF RoomForLate, TypeOK
<1>1. IsFiniteSet(Late) /\ Cardinality(Late) \in Nat /\ Cardinality(Workers) \in Nat
  BY LateIsBounded
<1>2. IsFiniteSet(Late') /\ Cardinality(Late') <= Cardinality(Late)
  BY <1>1, FS_Subset
<1>3. Cardinality(Late') \in Nat
  BY <1>2, FS_CardinalityType
<1>4. ok + rpcErr + Cardinality(Late) <= Cap + Cardinality(Workers) - 1
  BY BenchAssumption DEF RoomForLate, TypeOK
<1> QED BY <1>1, <1>2, <1>3, <1>4, BenchAssumption DEF RoomForLate, TypeOK

(* A worker that counts its call is no longer late, so that the sum grows  *)
(* by the room that it leaves.                                             *)
LEMMA CountedIsNotLate ==
    ASSUME NEW w \in Workers, w \in Late, RoomForLate, TypeOK,
           mode' = mode,
           \/ ok' = ok + 1 /\ rpcErr' = rpcErr
           \/ ok' = ok /\ rpcErr' = rpcErr + 1,
           Late' \subseteq Late \ {w}
    PROVE  RoomForLate'
<1>0. /\ ok \in Nat /\ rpcErr \in Nat /\ ok' \in Nat /\ rpcErr' \in Nat
      /\ Cap \in Nat
  BY BenchAssumption DEF TypeOK
<1> SUFFICES ASSUME mode' = "requests", ~(ok' + rpcErr' < Cap)
             PROVE  ok' + rpcErr' + Cardinality(Late')
                        <= Cap + Cardinality(Workers) - 1
  BY DEF RoomForLate
<1>1. /\ IsFiniteSet(Late) /\ Cardinality(Late) \in Nat
      /\ Cardinality(Workers) \in Nat
      /\ Cardinality(Late) <= Cardinality(Workers)
  BY LateIsBounded
<1>2. IsFiniteSet(Late \ {w}) /\ Cardinality(Late \ {w}) = Cardinality(Late) - 1
  BY <1>1, FS_RemoveElement
<1>3. IsFiniteSet(Late') /\ Cardinality(Late') <= Cardinality(Late) - 1
  BY <1>2, FS_Subset
<1>4. Cardinality(Late') \in Nat
  BY <1>3, FS_CardinalityType
<1>5. CASE ok + rpcErr < Cap
  <2>1. ok + rpcErr + 1 <= Cap
    BY <1>0, <1>5
  <2> QED BY <1>0, <1>1, <1>3, <1>4, <2>1
<1>6. CASE ok + rpcErr >= Cap
  <2>1. ok + rpcErr + Cardinality(Late) <= Cap + Cardinality(Workers) - 1
    BY <1>0, <1>6 DEF RoomForLate
  <2> QED BY <1>0, <1>1, <1>3, <1>4, <2>1
<1> QED BY <1>0, <1>5, <1>6

(* No worker is late before the threads start.                             *)
LEMMA InitIInv == Init => IInv
<1> SUFFICES ASSUME Init PROVE IInv
  OBVIOUS
<1>1. TypeOK
  <2>1. 0 \in Nat /\ MaxSamples \in Nat
    BY BenchAssumption
  <2>2. \A w \in Workers : samples[w] <= MaxSamples
    BY <2>1 DEF Init
  <2> QED BY <2>1, <2>2 DEF Init, TypeOK
<1>2. ok + rpcErr < Cap
  BY BenchAssumption DEF Init
<1> QED BY <1>1, <1>2 DEF IInv, RoomForLate

(* Every step keeps the types.                                             *)
LEMMA TypeStep == TypeOK /\ [Next]_vars => TypeOK'
<1> USE BenchAssumption
<1> SUFFICES ASSUME TypeOK, [Next]_vars PROVE TypeOK'
  OBVIOUS
<1>1. CASE Main
  <2>1. CASE LoadKeys
    BY <2>1 DEF LoadKeys, MainGoes, counters, TypeOK
  <2>2. CASE InitChannel
    BY <2>2 DEF InitChannel, MainGoes, counters, TypeOK
  <2>3. CASE StartWorkers
    BY <2>3 DEF StartWorkers, MainGoes, counters, TypeOK
  <2>4. CASE SleepDuration
    BY <2>4 DEF SleepDuration, MainGoes, counters, TypeOK
  <2>5. CASE Poll
    BY <2>5 DEF Poll, MainGoes, counters, TypeOK
  <2>6. CASE PollEnds
    BY <2>6 DEF PollEnds, MainGoes, counters, TypeOK
  <2>7. CASE Report
    <3>1. truncated' \in BOOLEAN
      BY <2>7 DEF Report
    <3> QED BY <2>7, <3>1 DEF Report, MainGoes, counters, TypeOK
  <2> QED BY <1>1, <2>1, <2>2, <2>3, <2>4, <2>5, <2>6, <2>7 DEF Main
<1>2. CASE Deadline
  BY <1>2 DEF Deadline, counters, workers, TypeOK
<1>3. ASSUME NEW w \in Workers, Worker(w) PROVE TypeOK'
  <2>1. CASE Connect(w)
    BY <2>1 DEF Connect, Goes, counters, TypeOK
  <2>2. CASE ConnectFails(w)
    BY <2>2 DEF ConnectFails, Goes, counters, TypeOK
  <2>3. CASE ReadStop(w)
    BY <2>3 DEF ReadStop, Goes, counters, TypeOK
  <2>4. CASE CheckDeadline(w)
    BY <2>4 DEF CheckDeadline, Goes, counters, TypeOK
  <2>5. CASE ReadOk(w)
    BY <2>5 DEF ReadOk, Goes, counters, TypeOK
  <2>6. CASE ReadErr(w)
    BY <2>6 DEF ReadErr, Goes, counters, TypeOK
  <2>7. CASE CallFails(w)
    BY <2>7 DEF CallFails, Goes, counters, TypeOK
  <2>8. CASE Answer(w)
    BY <2>8 DEF Answer, Goes, counters, TypeOK
  <2>9. CASE CountOk(w)
    <3>1. /\ samples' = [samples EXCEPT ![w] = IF Keeps(w) THEN @ + 1 ELSE @]
          /\ samples \in [Workers -> Nat]
      BY <2>9 DEF CountOk, TypeOK
    <3>2. samples' \in [Workers -> Nat]
      BY <3>1
    <3>3. ASSUME MaxSamples > 0, NEW v \in Workers
          PROVE  samples'[v] <= MaxSamples
      BY <3>1, <3>3 DEF Keeps, TypeOK
    <3>4. dropped' \in BOOLEAN
      BY <2>9 DEF CountOk
    <3>5. /\ UNCHANGED <<mode, main, expired, stop, mainSeen, truncated>>
          /\ UNCHANGED <<rpcErr, found, notFound, seen>>
          /\ ok' = ok + 1
          /\ pc' = [pc EXCEPT ![w] = "top"]
      BY <2>9 DEF CountOk, Goes
    <3> QED BY <3>2, <3>3, <3>4, <3>5 DEF TypeOK
  <2> QED BY <1>3, <2>1, <2>2, <2>3, <2>4, <2>5, <2>6, <2>7, <2>8, <2>9
          DEF Worker
<1>4. CASE Over \/ UNCHANGED vars
  BY <1>4 DEF Over, vars, counters, workers, TypeOK
<1> QED BY <1>1, <1>2, <1>3, <1>4 DEF Next

(* Every step leaves room for the late workers.                            *)
LEMMA RoomStep == IInv /\ [Next]_vars => RoomForLate'
<1> SUFFICES ASSUME TypeOK, RoomForLate, [Next]_vars PROVE RoomForLate'
  BY DEF IInv
<1>1. CASE Main
  <2>1. UNCHANGED <<mode, ok, rpcErr, seen>>
    BY <1>1 DEF Main, LoadKeys, InitChannel, StartWorkers, SleepDuration,
                Poll, PollEnds, Report, MainGoes, counters
  <2>2. pc' = pc \/ pc' = [w \in Workers |-> "init"]
    BY <1>1 DEF Main, LoadKeys, InitChannel, StartWorkers, SleepDuration,
                Poll, PollEnds, Report, MainGoes
  <2>3. Late' \subseteq Late
    BY <2>1, <2>2 DEF Late, DoneAtCap
  <2> QED BY <2>1, <2>3, FewerLate
<1>2. CASE Deadline
  <2>1. UNCHANGED <<mode, ok, rpcErr, seen, pc>>
    BY <1>2 DEF Deadline, counters, workers
  <2> QED BY <2>1, FewerLate DEF Late, DoneAtCap
<1>3. ASSUME NEW w \in Workers, Worker(w) PROVE RoomForLate'
  <2>t. pc \in [Workers -> {"none", "init", "top", "check", "sum", "call",
                            "answered", "left"}]
        /\ seen \in [Workers -> Nat] /\ ok \in Nat /\ rpcErr \in Nat
    BY DEF TypeOK
  <2>1. CASE Connect(w) \/ ConnectFails(w) \/ ReadStop(w)
    <3>1. /\ UNCHANGED <<mode, ok, rpcErr, seen>>
          /\ \E to \in {"top", "left", "check"} : pc' = [pc EXCEPT ![w] = to]
      BY <2>1 DEF Connect, ConnectFails, ReadStop, Goes, counters
    <3>2. Late' \subseteq Late
      BY <3>1, <2>t DEF Late, DoneAtCap
    <3> QED BY <3>1, <3>2, FewerLate
  <2>2. CASE CheckDeadline(w)
    BY <2>2 DEF CheckDeadline, Goes, RoomForLate
  <2>3. CASE ReadOk(w)
    <3>1. /\ UNCHANGED <<mode, ok, rpcErr>>
          /\ pc' = [pc EXCEPT ![w] = "sum"]
          /\ seen' = [seen EXCEPT ![w] = ok]
      BY <2>3 DEF ReadOk, Goes, counters
    <3>2. ASSUME ok + rpcErr >= Cap PROVE Late' \subseteq Late
      BY <3>1, <3>2, <2>t, BenchAssumption DEF Late, DoneAtCap
    <3> QED BY <3>1, <3>2, FewerLate
  <2>4. CASE ReadErr(w)
    <3>1. /\ UNCHANGED <<mode, ok, rpcErr, seen>>
          /\ pc[w] = "sum"
          /\ pc' = [pc EXCEPT ![w] = IF DoneAtCap(w) THEN "left" ELSE "call"]
      BY <2>4 DEF ReadErr, Goes, counters
    <3>2. Late' \subseteq Late
      BY <3>1, <2>t DEF Late, DoneAtCap
    <3> QED BY <3>1, <3>2, FewerLate
  <2>5. CASE CallFails(w)
    <3>1. /\ UNCHANGED <<mode, ok, seen>> /\ rpcErr' = rpcErr + 1
          /\ pc[w] = "call" /\ pc' = [pc EXCEPT ![w] = "top"]
      BY <2>5 DEF CallFails, Goes
    <3>2. Late' \subseteq Late \ {w} /\ w \in Late
      BY <3>1, <2>t, BenchAssumption DEF Late, DoneAtCap
    <3> QED BY <3>1, <3>2, CountedIsNotLate
  <2>6. CASE Answer(w)
    <3>1. /\ UNCHANGED <<mode, ok, rpcErr, seen>>
          /\ pc[w] = "call" /\ pc' = [pc EXCEPT ![w] = "answered"]
      BY <2>6 DEF Answer, Goes
    <3>2. Late' \subseteq Late
      BY <3>1, <2>t DEF Late, DoneAtCap
    <3> QED BY <3>1, <3>2, FewerLate
  <2>7. CASE CountOk(w)
    <3>1. /\ UNCHANGED <<mode, rpcErr, seen>> /\ ok' = ok + 1
          /\ pc[w] = "answered" /\ pc' = [pc EXCEPT ![w] = "top"]
      BY <2>7 DEF CountOk, Goes
    <3>2. Late' \subseteq Late \ {w} /\ w \in Late
      BY <3>1, <2>t DEF Late, DoneAtCap
    <3> QED BY <3>1, <3>2, CountedIsNotLate
  <2> QED BY <1>3, <2>1, <2>2, <2>3, <2>4, <2>5, <2>6, <2>7 DEF Worker
<1>4. CASE Over \/ UNCHANGED vars
  <2>1. UNCHANGED <<mode, ok, rpcErr, seen, pc>>
    BY <1>4 DEF Over, vars, counters, workers
  <2> QED BY <2>1, FewerLate DEF Late, DoneAtCap
<1> QED BY <1>1, <1>2, <1>3, <1>4 DEF Next

(* The types, in every run of any length: --max_latency_samples is never   *)
(* exceeded.                                                               *)
THEOREM TypeCorrect == Spec => []TypeOK
<1>1. Init => TypeOK
  BY InitIInv DEF IInv
<1> QED BY <1>1, TypeStep, PTL DEF Spec

(* bench_main.cc looks at the sum of ok and rpc_err without a lock and     *)
(* still makes at most one call per worker more than asked, less one.      *)
THEOREM OvershootBound == Spec => []OvershootIsBounded
<1>1. Init => IInv
  BY InitIInv
<1>2. IInv /\ [Next]_vars => IInv'
  BY TypeStep, RoomStep DEF IInv
<1>3. IInv => OvershootIsBounded
  <2> SUFFICES ASSUME TypeOK, RoomForLate, mode = "requests"
               PROVE  ok + rpcErr <= Cap + Cardinality(Workers) - 1
    BY DEF IInv, OvershootIsBounded
  <2>1. /\ Cardinality(Late) \in Nat /\ Cardinality(Workers) \in Nat
        /\ Cardinality(Workers) >= 1
    BY LateIsBounded
  <2> QED BY <2>1, BenchAssumption DEF RoomForLate, TypeOK
<1> QED BY <1>1, <1>2, <1>3, PTL DEF Spec
-----------------------------------------------------------------------------
(* What the report counts.                                                 *)

Answering == {w \in Workers : pc[w] = "answered"}

(* A response is counted as found or not found a step before it is ok, and *)
(* its latency is merged unless it was dropped.                            *)
Counted ==
    /\ found + notFound = ok + Cardinality(Answering)
    /\ IsFiniteSet(Merged) /\ Cardinality(Merged) <= ok
    /\ dropped <=> ok > Cardinality(Merged)

(* In the mode that counts, the main thread leaves the poll at a sum that  *)
(* is no larger than the counters are when it reports.                     *)
Polled ==
    /\ main = "poll" => mainSeen <= ok /\ mode = "requests"
    /\ mode = "requests" /\ main \in {"join", "reported"} => ok + rpcErr >= Cap

(* Nobody counts before the threads start or after the report.             *)
Final ==
    /\ main \in {"load", "channel", "warmup"} => \A w \in Workers : pc[w] = "none"
    /\ main = "reported" => Joined /\ truncated = dropped

Reporting == Counted /\ Polled /\ Final

(* The calls that have been answered but not counted, one thread at a      *)
(* time.                                                                   *)
LEMMA AnsweringIsFinite ==
    /\ IsFiniteSet(Answering) /\ Cardinality(Answering) \in Nat
    /\ (\A w \in Workers : pc[w] # "answered") => Cardinality(Answering) = 0
<1>1. Answering \in SUBSET Workers
  BY DEF Answering
<1>2. IsFiniteSet(Answering)
  BY <1>1, BenchAssumption, FS_Subset
<1>3. (\A w \in Workers : pc[w] # "answered") => Answering = {}
  BY DEF Answering
<1> QED BY <1>2, <1>3, FS_CardinalityType, FS_EmptySet

LEMMA InitReporting == Init => Reporting
<1> SUFFICES ASSUME Init PROVE Reporting
  OBVIOUS
<1>1. Cardinality(Answering) = 0
  BY AnsweringIsFinite DEF Init
<1>2. Merged = {}
  <2>1. \A w \in Workers : samples[w] = 0
    BY DEF Init
  <2>2. 1 .. 0 = {}
    OBVIOUS
  <2> QED BY <2>1, <2>2 DEF Merged
<1>3. IsFiniteSet(Merged) /\ Cardinality(Merged) = 0
  BY <1>2, FS_EmptySet
<1>4. ~(0 > 0) /\ 0 <= 0 /\ 0 + 0 = 0 + 0
  OBVIOUS
<1>5. Counted
  BY <1>1, <1>3, <1>4 DEF Init, Counted
<1> QED BY <1>5 DEF Init, Reporting, Polled, Final

(* A latency that is kept is one more.                                     *)
LEMMA OneMoreMerged ==
    ASSUME TypeOK, NEW w \in Workers, IsFiniteSet(Merged),
           samples' = [samples EXCEPT ![w] = @ + 1]
    PROVE  /\ IsFiniteSet(Merged')
           /\ Cardinality(Merged') = Cardinality(Merged) + 1
<1>t. /\ samples \in [Workers -> Nat] /\ samples[w] \in Nat
      /\ samples'[w] = samples[w] + 1
      /\ \A v \in Workers \ {w} : samples'[v] = samples[v]
  BY DEF TypeOK
<1> DEFINE e == <<w, samples[w] + 1>>
<1>1. \A v, n : <<v, n>> \in Merged <=> v \in Workers /\ n \in 1 .. samples[v]
  BY DEF Merged
<1>2. \A v, n : <<v, n>> \in Merged' <=> v \in Workers /\ n \in 1 .. samples'[v]
  BY DEF Merged
<1>3. /\ \A x \in Merged : x = <<x[1], x[2]>>
      /\ \A x \in Merged' : x = <<x[1], x[2]>>
  BY DEF Merged
<1>4. 1 .. samples[w] + 1 = (1 .. samples[w]) \cup {samples[w] + 1}
  BY <1>t
<1>5. \A v, n : <<v, n>> \in Merged' <=> <<v, n>> \in Merged \cup {e}
  <2> TAKE v, n
  <2>1. <<v, n>> = e <=> v = w /\ n = samples[w] + 1
    OBVIOUS
  <2>2. CASE v = w
    BY <1>t, <1>1, <1>2, <1>4, <2>1, <2>2
  <2>3. CASE v # w
    BY <1>t, <1>1, <1>2, <2>1, <2>3
  <2> QED BY <2>2, <2>3
<1>6. Merged' = Merged \cup {e}
  <2>1. \A x \in Merged' : x \in Merged \cup {e}
    BY <1>3, <1>5
  <2>2. \A x \in Merged : x \in Merged'
    BY <1>3, <1>5
  <2>3. e \in Merged'
    BY <1>5
  <2> HIDE DEF e
  <2> QED BY <2>1, <2>2, <2>3
<1>7. e \notin Merged
  BY <1>t, <1>1
<1> HIDE DEF e
<1> QED BY <1>6, <1>7, FS_AddElement

(* A worker that has left does nothing more.                               *)
LEMMA ReportingStep == TypeOK /\ Reporting /\ [Next]_vars => Reporting'
<1> SUFFICES ASSUME TypeOK, Reporting, [Next]_vars PROVE Reporting'
  OBVIOUS
<1> USE BenchAssumption
<1>t. /\ pc \in [Workers -> {"none", "init", "top", "check", "sum", "call",
                              "answered", "left"}]
      /\ ok \in Nat /\ rpcErr \in Nat /\ found \in Nat /\ notFound \in Nat
      /\ mainSeen \in Nat /\ Cap \in Nat
      /\ dropped \in BOOLEAN /\ samples \in [Workers -> Nat]
  BY DEF TypeOK
<1>a. IsFiniteSet(Answering) /\ Cardinality(Answering) \in Nat
  BY AnsweringIsFinite
<1>c. ASSUME UNCHANGED <<ok, found, notFound, samples, dropped>>,
             Answering' = Answering
      PROVE  Counted'
  <2>1. Merged' = Merged
    BY <1>c DEF Merged
  <2> QED BY <1>c, <2>1 DEF Counted, Reporting
<1>1. ASSUME Main PROVE Reporting'
  <2>0. /\ UNCHANGED <<mode, ok, rpcErr, found, notFound, seen, samples, dropped>>
        /\ \/ pc' = pc
           \/ main = "warmup" /\ pc' = [w \in Workers |-> "init"]
    <3>1. CASE PollEnds
      BY <3>1 DEF PollEnds, MainGoes, counters
    <3>2. CASE StartWorkers
      BY <3>2 DEF StartWorkers, MainGoes, counters
    <3>3. CASE LoadKeys \/ InitChannel \/ SleepDuration
      BY <3>3 DEF LoadKeys, InitChannel, SleepDuration, MainGoes, counters
    <3>4. CASE Poll \/ Report
      BY <3>4 DEF Poll, Report, MainGoes, counters
    <3> QED BY <1>1, <3>1, <3>2, <3>3, <3>4 DEF Main
  <2>1. Answering' = Answering
    <3>1. main = "warmup" => \A w \in Workers : pc[w] = "none"
      BY DEF Reporting, Final
    <3> QED BY <2>0, <3>1 DEF Answering
  <2>2. Counted'
    BY <1>c, <2>0, <2>1
  <2>3. CASE LoadKeys \/ InitChannel \/ StartWorkers
    BY <2>0, <2>2, <2>3 DEF LoadKeys, InitChannel, StartWorkers, MainGoes,
                            Reporting, Polled, Final
  <2>4. CASE SleepDuration
    BY <2>0, <2>2, <2>4 DEF SleepDuration, MainGoes, Reporting, Polled, Final
  <2>5. CASE Poll
    BY <2>0, <2>2, <2>5, <1>t DEF Poll, MainGoes, Reporting, Polled, Final
  <2>6. CASE PollEnds
    <3>1. main = "poll" /\ main' \in {"join", "wait"}
          /\ (main' = "join" => mainSeen + rpcErr >= Cap)
      BY <2>6 DEF PollEnds, MainGoes, SumAtCap
    <3>2. mainSeen <= ok
      BY <3>1 DEF Reporting, Polled
    <3>3. main' = "join" => ok + rpcErr >= Cap
      BY <1>t, <3>1, <3>2
    <3> QED BY <2>0, <2>2, <3>1, <3>3 DEF Reporting, Polled, Final
  <2>7. CASE Report
    <3>1. /\ main = "join" /\ main' = "reported" /\ pc' = pc /\ Joined
          /\ truncated' = (ok > Cardinality(Merged))
      BY <2>7 DEF Report, MainGoes
    <3>2. dropped <=> ok > Cardinality(Merged)
      BY DEF Reporting, Counted
    <3>3. truncated' = dropped'
      <4>1. dropped' = dropped /\ dropped \in BOOLEAN
        BY <1>t, <2>0
      <4>2. (ok > Cardinality(Merged)) \in BOOLEAN
        OBVIOUS
      <4>3. dropped = (ok > Cardinality(Merged))
        BY <3>2, <4>1, <4>2
      <4> QED BY <3>1, <4>1, <4>3, Zenon
    <3>4. Joined'
      BY <3>1 DEF Joined
    <3> QED BY <2>0, <2>2, <3>1, <3>3, <3>4 DEF Reporting, Polled, Final
  <2> QED BY <1>1, <2>3, <2>4, <2>5, <2>6, <2>7 DEF Main
<1>2. ASSUME UNCHANGED <<mode, main, ok, rpcErr, found, notFound, samples,
                         dropped, pc, mainSeen, truncated>>
      PROVE  Reporting'
  <2>1. Answering' = Answering
    BY <1>2 DEF Answering
  <2>2. Counted'
    BY <1>2, <1>c, <2>1
  <2> QED BY <1>2, <2>2 DEF Reporting, Polled, Final, Joined
<1>3. ASSUME NEW w \in Workers, Worker(w) PROVE Reporting'
  <2>0. /\ UNCHANGED <<mode, main, mainSeen, truncated>>
        /\ pc[w] \notin {"none", "left"}
        /\ \A v \in Workers \ {w} : pc'[v] = pc[v]
    BY <1>3, <1>t DEF Worker, Connect, ConnectFails, ReadStop, CheckDeadline,
       ReadOk, ReadErr, CallFails, Answer, CountOk, Goes
  <2>1. main \notin {"load", "channel", "warmup", "reported"}
    BY <2>0 DEF Reporting, Final, Joined
  <2>2. Final'
    BY <2>0, <2>1 DEF Final
  <2>3. ASSUME ok' >= ok, ok' \in Nat, rpcErr' >= rpcErr, rpcErr' \in Nat
        PROVE  Polled'
    <3>1. Polled
      BY DEF Reporting
    <3>2. mainSeen <= ok => mainSeen <= ok'
      BY <1>t, <2>3
    <3>3. ok + rpcErr >= Cap => ok' + rpcErr' >= Cap
      <4>1. \A a, b, c, d, e \in Nat :
               c >= a /\ d >= b /\ a + b >= e => c + d >= e
        OBVIOUS
      <4> QED BY <1>t, <2>3, <4>1
    <3> QED BY <2>0, <3>1, <3>2, <3>3, Zenon DEF Polled
  <2>4. CASE \/ Connect(w) \/ ConnectFails(w) \/ ReadStop(w)
             \/ CheckDeadline(w) \/ ReadOk(w) \/ ReadErr(w)
    <3>1. /\ UNCHANGED <<ok, rpcErr, found, notFound, samples, dropped>>
          /\ pc[w] # "answered" /\ pc'[w] # "answered"
      BY <1>t, <2>4 DEF Connect, ConnectFails, ReadStop, CheckDeadline, ReadOk,
                        ReadErr, Goes, counters
    <3>2. Answering' = Answering
      BY <2>0, <3>1 DEF Answering
    <3>3. ok' >= ok /\ rpcErr' >= rpcErr /\ ok' \in Nat /\ rpcErr' \in Nat
      BY <1>t, <3>1
    <3> QED BY <1>c, <2>2, <2>3, <3>1, <3>2, <3>3 DEF Reporting
  <2>5. CASE CallFails(w)
    <3>1. /\ UNCHANGED <<ok, found, notFound, samples, dropped>>
          /\ rpcErr' = rpcErr + 1
          /\ pc[w] # "answered" /\ pc'[w] # "answered"
      BY <1>t, <2>5 DEF CallFails, Goes
    <3>2. Answering' = Answering
      BY <2>0, <3>1 DEF Answering
    <3>3. ok' >= ok /\ rpcErr' >= rpcErr /\ ok' \in Nat /\ rpcErr' \in Nat
      BY <1>t, <3>1
    <3> QED BY <1>c, <2>2, <2>3, <3>1, <3>2, <3>3 DEF Reporting
  <2>6. CASE Answer(w)
    <3>1. /\ UNCHANGED <<ok, rpcErr, samples, dropped>>
          /\ found' + notFound' = found + notFound + 1
          /\ pc[w] = "call" /\ pc'[w] = "answered"
      BY <1>t, <2>6 DEF Answer, Goes
    <3>2. Answering' = Answering \cup {w} /\ w \notin Answering
      BY <2>0, <3>1 DEF Answering
    <3>3. Cardinality(Answering') = Cardinality(Answering) + 1
      BY <1>a, <3>2, FS_AddElement
    <3>4. Merged' = Merged
      BY <3>1 DEF Merged
    <3>5. Counted'
      <4>1. found' + notFound' = ok' + Cardinality(Answering')
        BY <1>t, <1>a, <3>1, <3>3 DEF Reporting, Counted
      <4> QED BY <3>1, <3>4, <4>1 DEF Reporting, Counted
    <3>6. ok' >= ok /\ rpcErr' >= rpcErr /\ ok' \in Nat /\ rpcErr' \in Nat
      BY <1>t, <3>1
    <3> QED BY <2>2, <2>3, <3>5, <3>6 DEF Reporting
  <2>7. CASE CountOk(w)
    <3>1. /\ UNCHANGED <<rpcErr, found, notFound>> /\ ok' = ok + 1
          /\ samples' = [samples EXCEPT ![w] = IF Keeps(w) THEN @ + 1 ELSE @]
          /\ dropped' = (dropped \/ ~Keeps(w))
          /\ pc[w] = "answered" /\ pc'[w] = "top"
      BY <1>t, <2>7 DEF CountOk, Goes
    <3>2. Answering' = Answering \ {w} /\ w \in Answering
      BY <2>0, <3>1 DEF Answering
    <3>3. Cardinality(Answering') = Cardinality(Answering) - 1
      BY <1>a, <3>2, FS_RemoveElement
    <3>4. found' + notFound' = ok' + Cardinality(Answering')
      BY <1>t, <1>a, <3>1, <3>3 DEF Reporting, Counted
    <3>5. /\ IsFiniteSet(Merged) /\ Cardinality(Merged) \in Nat
          /\ Cardinality(Merged) <= ok /\ (dropped <=> ok > Cardinality(Merged))
      BY FS_CardinalityType DEF Reporting, Counted
    <3>6. /\ IsFiniteSet(Merged') /\ Cardinality(Merged') <= ok'
          /\ dropped' <=> ok' > Cardinality(Merged')
      <4>1. CASE Keeps(w)
        <5>1. /\ IsFiniteSet(Merged')
              /\ Cardinality(Merged') = Cardinality(Merged) + 1
          BY <3>1, <3>5, <4>1, OneMoreMerged
        <5>2. ok' > Cardinality(Merged') <=> ok > Cardinality(Merged)
          BY <1>t, <3>1, <3>5, <5>1
        <5>3. dropped' <=> dropped
          BY <3>1, <4>1
        <5>4. Cardinality(Merged') <= ok'
          BY <1>t, <3>1, <3>5, <5>1
        <5> QED BY <3>5, <5>1, <5>2, <5>3, <5>4
      <4>2. CASE ~Keeps(w)
        <5>1. samples' = samples
          BY <1>t, <3>1, <4>2
        <5>2. Merged' = Merged
          BY <5>1 DEF Merged
        <5>3. dropped'
          BY <3>1, <4>2
        <5>4. ok' > Cardinality(Merged') /\ Cardinality(Merged') <= ok'
          BY <1>t, <3>1, <3>5, <5>2
        <5> QED BY <3>5, <5>2, <5>3, <5>4
      <4> QED BY <4>1, <4>2
    <3>7. Counted'
      BY <3>4, <3>6 DEF Counted
    <3>8. ok' >= ok /\ rpcErr' >= rpcErr /\ ok' \in Nat /\ rpcErr' \in Nat
      BY <1>t, <3>1
    <3> QED BY <2>2, <2>3, <3>7, <3>8 DEF Reporting
  <2> QED BY <1>3, <2>4, <2>5, <2>6, <2>7 DEF Worker
<1>4. CASE Deadline
  BY <1>2, <1>4 DEF Deadline, counters, workers
<1>5. CASE Over \/ UNCHANGED vars
  BY <1>2, <1>5 DEF Over, vars, counters, workers
<1> QED BY <1>1, <1>3, <1>4, <1>5 DEF Next

(* The report of a run, however long: every response it counts is found or *)
(* not, the asked number of calls was made, and latency_truncated tells    *)
(* whether a latency is missing, although nothing is locked.               *)
THEOREM ReportExact == Spec => []ReportIsExact
<1>1. TypeOK /\ Reporting => ReportIsExact
  <2> SUFFICES ASSUME TypeOK, Reporting, main = "reported"
               PROVE  found + notFound = ok
    BY DEF Reporting, Polled, Final, ReportIsExact
  <2>1. Cardinality(Answering) = 0
    BY AnsweringIsFinite DEF Reporting, Final, Joined
  <2> QED BY <2>1 DEF Reporting, Counted, TypeOK
<1> QED BY <1>1, InitReporting, ReportingStep, TypeCorrect, PTL DEF Spec
-----------------------------------------------------------------------------
(* Why main leaves its poll.                                               *)

(* In the mode that counts nobody stops or leaves below the cap: a sum     *)
(* that was read earlier is no larger than the counters are.               *)
LeaveAtCap ==
    mode = "requests" =>
        /\ \A w \in Workers : pc[w] = "sum" => seen[w] <= ok
        /\ stop \/ (\E w \in Workers : pc[w] = "left") => ok + rpcErr >= Cap

LEMMA LeaveInit == Init => LeaveAtCap
BY DEF Init, LeaveAtCap

LEMMA LeaveStep ==
    ASSUME "init" \notin Faults, TypeOK, TypeOK', Polled, LeaveAtCap, [Next]_vars
    PROVE  LeaveAtCap'
<1> SUFFICES ASSUME mode = "requests" PROVE LeaveAtCap'
  <2>1. mode' = mode
    BY DEF Next, Main, LoadKeys, InitChannel, StartWorkers, SleepDuration,
       Poll, PollEnds, Report, MainGoes, Deadline, Worker, Connect,
       ConnectFails, ReadStop, CheckDeadline, ReadOk, ReadErr, CallFails,
       Answer, CountOk, Goes, Over, vars
  <2> QED BY <2>1 DEF LeaveAtCap
<1>t. /\ pc \in [Workers -> {"none", "init", "top", "check", "sum", "call",
                             "answered", "left"}]
      /\ ok \in Nat /\ rpcErr \in Nat /\ Cap \in Nat /\ mainSeen \in Nat
      /\ seen \in [Workers -> Nat]
  BY BenchAssumption DEF TypeOK
<1>l. /\ \A w \in Workers : pc[w] = "sum" => seen[w] <= ok
      /\ stop => ok + rpcErr >= Cap
      /\ \A w \in Workers : pc[w] = "left" => ok + rpcErr >= Cap
  BY DEF LeaveAtCap
<1>1. ASSUME NEW w \in Workers, Worker(w)
      PROVE  LeaveAtCap'
  <2>0. \A v \in Workers \ {w} : pc'[v] = pc[v]
    BY <1>1, <1>t DEF Worker, Connect, ConnectFails, ReadStop, CheckDeadline,
       ReadOk, ReadErr, CallFails, Answer, CountOk, Goes
  <2>1. CASE Connect(w) \/ ReadStop(w) \/ ReadErr(w)
    <3>1. /\ UNCHANGED <<stop, ok, rpcErr, seen>> /\ pc'[w] # "sum"
          /\ pc'[w] = "left" => stop \/ (pc[w] = "sum" /\ DoneAtCap(w))
      BY <1>t, <2>1 DEF Connect, ReadStop, ReadErr, Goes, counters
    <3>2. pc'[w] = "left" => ok + rpcErr >= Cap
      BY <1>t, <1>l, <3>1 DEF DoneAtCap
    <3> QED BY <1>l, <2>0, <3>1, <3>2 DEF LeaveAtCap
  <2>2. CASE ReadOk(w)
    <3>1. /\ UNCHANGED <<stop, ok, rpcErr>> /\ pc'[w] = "sum"
          /\ seen' = [seen EXCEPT ![w] = ok]
      BY <1>t, <2>2 DEF ReadOk, Goes, counters
    <3>2. \A v \in Workers : seen'[v] = IF v = w THEN ok ELSE seen[v]
      BY <1>t, <3>1
    <3> QED BY <1>t, <1>l, <2>0, <3>1, <3>2 DEF LeaveAtCap
  <2>3. CASE CallFails(w) \/ Answer(w) \/ CountOk(w)
    <3>1. /\ UNCHANGED <<stop, seen>> /\ pc'[w] \notin {"sum", "left"}
          /\ \/ ok' = ok /\ rpcErr' = rpcErr
             \/ ok' = ok + 1 /\ rpcErr' = rpcErr
             \/ ok' = ok /\ rpcErr' = rpcErr + 1
      BY <1>t, <2>3 DEF CallFails, Answer, CountOk, Goes
    <3>2. \A v \in Workers : pc'[v] = "sum" => seen'[v] <= ok'
      BY <1>t, <1>l, <2>0, <3>1
    <3>3. ok + rpcErr >= Cap => ok' + rpcErr' >= Cap
      BY <1>t, <3>1
    <3> QED BY <1>l, <2>0, <3>1, <3>2, <3>3 DEF LeaveAtCap
  <2> QED BY <1>1, <2>1, <2>2, <2>3 DEF Worker, ConnectFails, CheckDeadline
<1>2. CASE Main
  <2>1. CASE PollEnds
    <3>1. /\ UNCHANGED <<ok, rpcErr, pc, seen>>
          /\ main = "poll"
          /\ stop' = stop \/ mainSeen + rpcErr >= Cap
      BY <2>1 DEF PollEnds, MainGoes, SumAtCap, counters
    <3>2. mainSeen <= ok
      BY <3>1 DEF Polled
    <3>3. mainSeen + rpcErr >= Cap => ok + rpcErr >= Cap
      BY <1>t, <3>2
    <3> QED BY <1>l, <3>1, <3>3 DEF LeaveAtCap
  <2>2. CASE StartWorkers
    <3>1. /\ UNCHANGED <<ok, rpcErr, stop>>
          /\ \A w \in Workers : pc'[w] = "init"
      BY <2>2 DEF StartWorkers, MainGoes, counters
    <3> QED BY <1>l, <3>1 DEF LeaveAtCap
  <2>3. CASE LoadKeys \/ InitChannel \/ Poll \/ Report
    <3>1. UNCHANGED <<ok, rpcErr, stop, pc, seen>>
      BY <2>3 DEF LoadKeys, InitChannel, Poll, Report, MainGoes, counters
    <3> QED BY <1>l, <3>1 DEF LeaveAtCap
  <2> QED BY <1>2, <2>1, <2>2, <2>3 DEF Main, SleepDuration
<1>3. CASE Over \/ UNCHANGED vars
  <2>1. UNCHANGED <<ok, rpcErr, stop, pc, seen>>
    BY <1>3 DEF Over, vars, counters, workers
  <2> QED BY <1>l, <2>1 DEF LeaveAtCap
<1> QED BY <1>1, <1>2, <1>3 DEF Next, Deadline

(* When every channel initialises, a worker leaves WorkerLoop, and the     *)
(* workers are stopped, only when --requests calls have been counted,      *)
(* although each of them and main add up two counters that others change.  *)
THEOREM NobodyLeavesEarly ==
    ASSUME "init" \notin Faults
    PROVE  Spec => []LeaveAtCap
<1>1. TypeOK /\ TypeOK' /\ Reporting /\ LeaveAtCap /\ [Next]_vars => LeaveAtCap'
  BY LeaveStep DEF Reporting
<1> QED BY <1>1, LeaveInit, InitReporting, ReportingStep, TypeCorrect,
           PTL DEF Spec

(* So main polls in vain only because of a channel that did not.           *)
THEOREM OnlyChannelsStrand ==
    ASSUME "init" \notin Faults
    PROVE  Spec => []~Stranded
<1>1. TypeOK /\ LeaveAtCap => ~Stranded
  BY BenchAssumption DEF TypeOK, LeaveAtCap, Stranded
<1> QED BY <1>1, TypeCorrect, NobodyLeavesEarly, PTL
=============================================================================
