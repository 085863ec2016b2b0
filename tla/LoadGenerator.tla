---------------------------- MODULE LoadGenerator ----------------------------
(***************************************************************************)
(* One run of yikv_server_bench (bench_main.cc): the main thread loads the *)
(* keys, warms up, starts the workers and waits until they are done; the   *)
(* workers call Get and count the answers in shared atomics.  The server   *)
(* is the answers that may come.                                           *)
(*                                                                         *)
(* Every load and every increment of an atomic is a step.  Times, keys and *)
(* the report's percentiles are left out.                                  *)
(***************************************************************************)
EXTENDS Integers, FiniteSets

CONSTANTS Workers,      \* the worker threads
          Cap,          \* --requests, in the mode that counts
          MaxSamples,   \* --max_latency_samples, 0 for no limit
          MaxCalls,     \* the deadline has passed when so many calls ended
          Faults        \* {"init"} when a worker's channel may not initialise

VARIABLES mode,         \* "requests" or "duration"
          main,         \* where the main thread is
          expired,      \* bench_deadline has passed
          stop,         \* the flag
          ok, rpcErr, found, notFound,  \* BenchStats
          pc,           \* where each worker is
          seen,         \* the value of ok that the thread has loaded
          samples,      \* how many latencies a worker has kept
          dropped,      \* some latency was not kept
          mainSeen,     \* the main thread's load of ok
          truncated     \* latency_truncated of the report

counters == <<ok, rpcErr, found, notFound>>
workers == <<pc, seen, samples, dropped>>
vars == <<mode, main, expired, stop, counters, workers, mainSeen, truncated>>

ASSUME BenchAssumption ==
    /\ IsFiniteSet(Workers) /\ Workers # {}
    /\ Cap \in Nat \ {0}
    /\ MaxSamples \in Nat
    /\ MaxCalls \in Nat

(* ParseFlags: a run has a duration or a number of requests, not both.     *)
Init ==
    /\ mode \in {"requests", "duration"}
    /\ main = "load"
    /\ expired = FALSE
    /\ stop = FALSE
    /\ ok = 0 /\ rpcErr = 0 /\ found = 0 /\ notFound = 0
    /\ pc = [w \in Workers |-> "none"]
    /\ seen = [w \in Workers |-> 0]
    /\ samples = [w \in Workers |-> 0]
    /\ dropped = FALSE
    /\ mainSeen = 0
    /\ truncated = FALSE
-----------------------------------------------------------------------------
(* The main thread.                                                        *)

MainGoes(from, to) ==
    /\ main = from
    /\ main' = to
    /\ UNCHANGED <<mode, counters, seen, samples, dropped>>

(* No file, no column, an error on the way or no key at all: exit 1.       *)
LoadKeys ==
    /\ MainGoes("load", "channel") \/ MainGoes("load", "exited")
    /\ UNCHANGED <<expired, stop, pc, mainSeen, truncated>>

InitChannel ==
    /\ MainGoes("channel", "warmup") \/ MainGoes("channel", "exited")
    /\ UNCHANGED <<expired, stop, pc, mainSeen, truncated>>

(* The answers of the warm-up count for nothing; then the threads start.   *)
StartWorkers ==
    /\ MainGoes("warmup", "wait")
    /\ pc' = [w \in Workers |-> "init"]
    /\ UNCHANGED <<expired, stop, mainSeen, truncated>>

(* The sleep began after the deadline was fixed and is no shorter.         *)
SleepDuration ==
    /\ mode = "duration" /\ expired
    /\ MainGoes("wait", "join")
    /\ stop' = TRUE
    /\ UNCHANGED <<expired, pc, mainSeen, truncated>>

(* Every 50 ms ok is loaded, then rpcErr.                                  *)
Poll ==
    /\ mode = "requests"
    /\ MainGoes("wait", "poll")
    /\ mainSeen' = ok
    /\ UNCHANGED <<expired, stop, pc, truncated>>

(* Mutant: the sum has to exceed the cap.                                  *)
SumBeyondCap == mainSeen + rpcErr > Cap

SumAtCap == mainSeen + rpcErr >= Cap

PollEnds ==
    /\ IF SumAtCap THEN MainGoes("poll", "join") /\ stop' = TRUE
       ELSE MainGoes("poll", "wait") /\ UNCHANGED stop
    /\ UNCHANGED <<expired, pc, mainSeen, truncated>>

(* Mutant: no join.                                                        *)
NoJoin == TRUE

Joined == \A w \in Workers : pc[w] = "left"

(* The latencies that the workers have kept, one after the other.          *)
Merged == UNION {{w} \X (1 .. samples[w]) : w \in Workers}

(* The report: sums of the counters, and how many latencies are behind     *)
(* the percentiles.                                                        *)
Report ==
    /\ MainGoes("join", "reported")
    /\ Joined
    /\ truncated' = (ok > Cardinality(Merged))
    /\ UNCHANGED <<expired, stop, pc, mainSeen>>

Main ==
    \/ LoadKeys \/ InitChannel \/ StartWorkers
    \/ SleepDuration \/ Poll \/ PollEnds \/ Report

(* Time passes.                                                            *)
Deadline ==
    /\ mode = "duration" /\ main = "wait" /\ ~expired
    /\ expired' = TRUE
    /\ UNCHANGED <<mode, main, stop, counters, workers, mainSeen, truncated>>
-----------------------------------------------------------------------------
(* WorkerLoop in thread w.                                                 *)

Goes(w, from, to) ==
    /\ pc[w] = from
    /\ pc' = [pc EXCEPT ![w] = to]
    /\ UNCHANGED <<mode, main, expired, mainSeen, truncated>>

Connect(w) ==
    /\ Goes(w, "init", "top")
    /\ UNCHANGED <<stop, counters, seen, samples, dropped>>

(* The worker stops all the others and leaves.                             *)
ConnectFails(w) ==
    /\ "init" \in Faults
    /\ Goes(w, "init", "left")
    /\ stop' = TRUE
    /\ UNCHANGED <<counters, seen, samples, dropped>>

ReadStop(w) ==
    /\ Goes(w, "top", IF stop THEN "left" ELSE "check")
    /\ UNCHANGED <<stop, counters, seen, samples, dropped>>

(* In the duration mode the deadline is looked at, and MaxCalls bounds the *)
(* calls before it.                                                        *)
CheckDeadline(w) ==
    /\ mode = "duration"
    /\ expired \/ ok + rpcErr < MaxCalls
    /\ Goes(w, "check", IF expired THEN "left" ELSE "call")
    /\ UNCHANGED <<stop, counters, seen, samples, dropped>>

(* Otherwise the sum of two loads.                                         *)
ReadOk(w) ==
    /\ mode = "requests"
    /\ Goes(w, "check", "sum")
    /\ seen' = [seen EXCEPT ![w] = ok]
    /\ UNCHANGED <<stop, counters, samples, dropped>>

(* Mutant: failed calls do not count.                                      *)
OkAtCap(w) == seen[w] >= Cap

DoneAtCap(w) == seen[w] + rpcErr >= Cap

ReadErr(w) ==
    /\ Goes(w, "sum", IF DoneAtCap(w) THEN "left" ELSE "call")
    /\ UNCHANGED <<stop, counters, seen, samples, dropped>>

(* No answer within brpc's timeout, or one that is no response.            *)
CallFails(w) ==
    /\ Goes(w, "call", "top")
    /\ rpcErr' = rpcErr + 1
    /\ UNCHANGED <<stop, ok, found, notFound, seen, samples, dropped>>

(* A response: found or not found is counted first ...                     *)
Answer(w) ==
    /\ Goes(w, "call", "answered")
    /\ \/ found' = found + 1 /\ UNCHANGED notFound
       \/ notFound' = notFound + 1 /\ UNCHANGED found
    /\ UNCHANGED <<stop, ok, rpcErr, seen, samples, dropped>>

(* Mutant: one latency more than the limit is kept.                        *)
OneMore(w) == MaxSamples = 0 \/ samples[w] <= MaxSamples

Keeps(w) == MaxSamples = 0 \/ samples[w] < MaxSamples

(* ... then its latency is kept or not, and ok is counted.                 *)
CountOk(w) ==
    /\ Goes(w, "answered", "top")
    /\ samples' = [samples EXCEPT ![w] = IF Keeps(w) THEN @ + 1 ELSE @]
    /\ dropped' = (dropped \/ ~Keeps(w))
    /\ ok' = ok + 1
    /\ UNCHANGED <<stop, rpcErr, found, notFound, seen>>

Worker(w) ==
    \/ Connect(w) \/ ConnectFails(w) \/ ReadStop(w) \/ CheckDeadline(w)
    \/ ReadOk(w) \/ ReadErr(w) \/ CallFails(w) \/ Answer(w) \/ CountOk(w)

(* The run is over.                                                        *)
Ended == main \in {"reported", "exited"}

Over == Ended /\ UNCHANGED vars

Next == Main \/ Deadline \/ (\E w \in Workers : Worker(w)) \/ Over

Spec == Init /\ [][Next]_vars

(* Threads run, a call ends at brpc's timeout at the latest, time passes.  *)
Fairness ==
    /\ WF_vars(Main) /\ WF_vars(Deadline)
    /\ \A w \in Workers : WF_vars(Worker(w))

FairSpec == Spec /\ Fairness
-----------------------------------------------------------------------------
(* Properties.                                                             *)

(* No worker keeps more latencies than --max_latency_samples.              *)
TypeOK ==
    /\ mode \in {"requests", "duration"}
    /\ main \in {"load", "channel", "warmup", "wait", "poll", "join",
                 "reported", "exited"}
    /\ expired \in BOOLEAN /\ stop \in BOOLEAN
    /\ ok \in Nat /\ rpcErr \in Nat /\ found \in Nat /\ notFound \in Nat
    /\ pc \in [Workers -> {"none", "init", "top", "check", "sum", "call",
                           "answered", "left"}]
    /\ seen \in [Workers -> Nat]
    /\ samples \in [Workers -> Nat]
    /\ MaxSamples > 0 => \A w \in Workers : samples[w] <= MaxSamples
    /\ dropped \in BOOLEAN /\ truncated \in BOOLEAN
    /\ mainSeen \in Nat

(* The workers check the cap without a lock, in two loads, and still make  *)
(* at most one call each beyond it, the last of the cap among them.        *)
OvershootIsBounded ==
    mode = "requests" => ok + rpcErr <= Cap + Cardinality(Workers) - 1

(* The report is about calls that have all ended: every response is found  *)
(* or not found and ok, at least the asked number of calls was made, and   *)
(* latency_truncated tells whether a latency is missing.                   *)
ReportIsExact ==
    main = "reported" =>
        /\ found + notFound = ok
        /\ mode = "requests" => ok + rpcErr >= Cap
        /\ truncated = dropped

(* A worker whose channel did not initialise has stopped the others, and   *)
(* the main thread polls a sum that nobody increases.                      *)
Stranded ==
    /\ mode = "requests" /\ stop
    /\ main \in {"wait", "poll"}
    /\ ok + rpcErr < Cap
    /\ \A w \in Workers : pc[w] = "left"

(* A run ends; only --requests with a channel that does not initialise may *)
(* leave the main thread polling for ever, and then no call is under way.  *)
RunEnds == <>Ended \/ ("init" \in Faults /\ <>[]Stranded)
=============================================================================
