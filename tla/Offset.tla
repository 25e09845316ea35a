-------------------------------- MODULE Offset --------------------------------
(***************************************************************************)
(* packages/bare-probe/clock/offset.ts and skew.ts: how far a peer's wall  *)
(* clock is from ours, estimated from a window of probe exchanges, and how *)
(* sure the timeline is of it.  TrueOffset is what the estimator tries to  *)
(* find, and it does not change.  Halves of milliseconds appear where      *)
(* averages do: offsets are counted in quarters, round trips in halves.    *)
(***************************************************************************)
EXTENDS Integers, Sequences, SequencesExt, FiniteSetsExt

CONSTANTS TrueOffset,           \* peerClock - localClock
          Delays,               \* one-way delays of a probe
          windowN, reestimateIntervalMs, rttStddevThresholdMs,
          MaxSamples, MaxTime   \* bounds: probes, and local time

ASSUME OffsetAssumption ==
  /\ TrueOffset \in Int /\ Delays \subseteq Nat
  /\ windowN \in Nat \ {0}
  /\ reestimateIntervalMs \in Nat /\ rttStddevThresholdMs \in Nat

VARIABLES samples,      \* the window
          cached,       \* the estimate, or NoEstimate
          now,          \* local time
          taken         \* history: samples taken

offsetVars == <<samples, cached, now, taken>>

NoEstimate == [method |-> "none"]

OffsetInit == samples = <<>> /\ cached = NoEstimate /\ now = 0 /\ taken = 0

-----------------------------------------------------------------------------
offsetFromTimestamps(t0, t1, t2, t3) ==
  [offset |-> 2 * ((t1 - t0) + (t2 - t3)), rtt |-> 2 * ((t3 - t0) - (t2 - t1))]

(* What sorting puts at place k. *)
AtMost(xs, x) == {i \in DOMAIN xs : xs[i] <= x}
Ranked(xs, k) == Min({x \in Range(xs) : Cardinality(AtMost(xs, x)) >= k})

median(xs) ==
  LET m == Len(xs) \div 2
  IN IF Len(xs) % 2 = 1 THEN Ranked(xs, m + 1) ELSE (Ranked(xs, m) + Ranked(xs, m + 1)) \div 2

Sum(xs) == FoldLeft(LAMBDA a, b : a + b, 0, xs)

(* stddev(xs) <= limit, squared and free of fractions. *)
StddevAtMost(xs, limit) ==
  LET n == Len(xs)
      squares == [i \in DOMAIN xs |-> xs[i] * xs[i]]
  IN n < 2 \/ n * Sum(squares) - Sum(xs) * Sum(xs) <= n * n * limit * limit

Offsets == [i \in DOMAIN samples |-> samples[i].offset]
Rtts == [i \in DOMAIN samples |-> samples[i].rtt]

(* The first of the samples with the smallest round trip. *)
Best == samples[Min({i \in DOMAIN samples : \A j \in DOMAIN samples : Rtts[i] <= Rtts[j]})]

Estimated(method, offset, rttMs) ==
  [method |-> method, offset |-> offset, rttMs |-> rttMs, computedAt |-> now, window |-> samples]

(* Fault: the estimate is said to rest on the smallest round trip. *)
FreshOnBest ==
  IF StddevAtMost(Rtts, 2 * rttStddevThresholdMs)
    THEN Estimated("median", median(Offsets), Best.rtt)
    ELSE Estimated("lowest-rtt", Best.offset, Best.rtt)

(* reestimate(): what it computes; `window` is history. *)
Fresh == IF StddevAtMost(Rtts, 2 * rttStddevThresholdMs)
           THEN Estimated("median", median(Offsets), median(Rtts))
           ELSE Estimated("lowest-rtt", Best.offset, Best.rtt)

addSample(s) == samples' = IF Len(samples) = windowN THEN Append(Tail(samples), s) ELSE Append(samples, s)

(* A probe with its two delays, answered at once by the peer. *)
Probe == \E out, back \in Delays :
  /\ taken < MaxSamples
  /\ taken' = taken + 1
  /\ addSample(offsetFromTimestamps(now - out - back, now - back + TrueOffset,
                                    now - back + TrueOffset, now))
  /\ UNCHANGED <<cached, now>>

(* reestimate() throws when there is nothing to estimate from. *)
Reestimate == /\ samples # <<>>
              /\ cached' = Fresh
              /\ UNCHANGED <<samples, now, taken>>

estimate == /\ cached # NoEstimate => now - cached.computedAt >= reestimateIntervalMs
            /\ Reestimate

Pass == now < MaxTime /\ now' = now + 1 /\ UNCHANGED <<samples, cached, taken>>

OffsetNext == Probe \/ Reestimate \/ estimate \/ Pass

OffsetSpec == OffsetInit /\ [][OffsetNext]_offsetVars

-----------------------------------------------------------------------------
(* normalize(): a raw remote time, in ms, on our timeline, in quarters. *)
normalize(ts) == 4 * ts - cached.offset

(* skewConfidence(): half the width of the interval, in quarters. *)
Spread == IF Len(samples) > 1 THEN (Max(Range(Offsets)) - Min(Range(Offsets))) \div 2 ELSE 0
ciHalfWidth == (IF samples = <<>> THEN cached.rttMs ELSE Min(Range(Rtts))) + Spread

Away(a, b) == IF a >= b THEN a - b ELSE b - a

(* An event of the peer is placed within half of the round trip that the   *)
(* estimate rests on, by either method and however long the estimate has   *)
(* outlived its samples.  The interval around an estimate of the present   *)
(* window holds the truth if the estimate is a sample's; a median may      *)
(* miss it by the spread.                                                  *)
TruthIsNear ==
  cached # NoEstimate =>
    /\ Away(normalize(now + TrueOffset), 4 * now) <= cached.rttMs
    /\ cached.window = samples =>
         Away(normalize(now + TrueOffset), 4 * now)
           <= ciHalfWidth + (IF cached.method = "median" THEN Spread ELSE 0)
===============================================================================
