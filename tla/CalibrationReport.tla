------------------------- MODULE CalibrationReport -------------------------
(***************************************************************************)
(* What the calibration report says: which resolutions it flags as graded  *)
(* with hindsight, and the arithmetic of its Brier score.                  *)
(*                                                                         *)
(* Threads and transactions are CalibrationTracker's; here a call is one   *)
(* step.  Times are readings of the server's clock, which may be set back. *)
(* An analyst writes the horizon and the time of a resolution as he likes; *)
(* the server writes the time of the lock.                                 *)
(*                                                                         *)
(* The flags exclude nothing from the score, and the score does not look   *)
(* at times: so the model either follows forecasts through time, or        *)
(* collects the pairs of probability and outcome of a report that runs.    *)
(* The arithmetic is exact: a probability is a number of parts of          *)
(* 10 * Width, and means are taken of multiples of Unit.  The rounding of  *)
(* the answer is left out.                                                 *)
(***************************************************************************)
EXTENDS Integers, Sequences, FiniteSets

CONSTANTS
    Latency,         \* _MIN_RESOLUTION_LATENCY_S
    Certifying,      \* _MIN_CERTIFYING_HORIZON_S
    Skew,            \* _MAX_RESOLVED_AT_SKEW_S
    Width,           \* the width of a bucket; probability 1.0 is 10 * Width
    Probability,     \* the probabilities considered
    Unit,            \* a number that every number of pairs up to MaxPairs divides
    MaxPairs,        \* bound: forecasts that are scored
    MaxForecasts,    \* bound: forecasts
    MaxResolutions,  \* bound: resolutions of one forecast
    MaxTime          \* bound: the clock

ASSUME ReportAssumption ==
    /\ Latency \in Nat /\ Certifying \in Nat /\ Skew \in Nat
    /\ Width \in Nat \ {0} /\ Probability \subseteq 0 .. 10 * Width
    /\ Unit \in Nat \ {0} /\ MaxPairs \in Nat
    /\ \A n \in 1 .. MaxPairs : \E q \in 1 .. Unit : Unit = n * q
    /\ MaxForecasts \in Nat /\ MaxResolutions \in Nat
    /\ MaxTime \in Nat

VARIABLES
    now,       \* the server's clock
    forecasts, \* the analyst's forecasts, with the rows about each; log_forecast
               \* accepts none that is not analyst_confirmed
    pairs      \* a report in progress: probability and outcome of what it scored

vars == <<now, forecasts, pairs>>

\* A horizon is a time, or a text or duration that is none.
NoDate == -1

\* `made` is history: the clock when the call was made.
Resolution == [resolved_at : Nat, is_correction : BOOLEAN, made : Nat]
Forecast == [horizon : Int, locked_at : Nat, resolutions : Seq(Resolution),
             voided : BOOLEAN]

TypeOK ==
    /\ now \in Nat /\ forecasts \in Seq(Forecast)
    /\ pairs \in Seq(Probability \X {0, 1})

Init == now = 0 /\ forecasts = << >> /\ pairs = << >>

-----------------------------------------------------------------------------
(* The calls.                                                               *)

Log ==
    /\ pairs = << >> /\ Len(forecasts) < MaxForecasts
    /\ \E h \in {NoDate} \cup 0 .. MaxTime + Skew :
        forecasts' = Append(forecasts, [horizon |-> h, locked_at |-> now,
                                        resolutions |-> << >>, voided |-> FALSE])
    /\ UNCHANGED <<now, pairs>>

Resolved(f) == forecasts[f].resolutions # << >>

\* Mutant of MayAssert: only backdating is refused.
MayAssertLater(f, at) == at >= forecasts[f].locked_at
\* The times resolve_forecast accepts as resolved_at: since the lock, and not ahead of
\* the server's clock by more than the tolerance.
MayAssert(f, at) == at >= forecasts[f].locked_at /\ at <= now + Skew

\* Mutant of Resolve: what the analyst asserts is not checked.
ResolveUnchecked(f) ==
    /\ ~forecasts[f].voided /\ Len(forecasts[f].resolutions) < MaxResolutions
    /\ \E at \in -1 .. MaxTime + Skew :
        forecasts' = [forecasts EXCEPT ![f].resolutions =
            Append(@, [resolved_at |-> at, made |-> now, is_correction |-> Resolved(f)])]
    /\ UNCHANGED <<now, pairs>>
\* Mutant of Resolve: a correction is stored like a first resolution.
ResolveUnmarked(f) ==
    /\ ~forecasts[f].voided /\ Len(forecasts[f].resolutions) < MaxResolutions
    /\ \E at \in 0 .. MaxTime + Skew :
        /\ MayAssert(f, at)
        /\ forecasts' = [forecasts EXCEPT ![f].resolutions =
               Append(@, [resolved_at |-> at, made |-> now, is_correction |-> FALSE])]
    /\ UNCHANGED <<now, pairs>>
\* A first resolution, or a correction if there is one already.
Resolve(f) ==
    /\ ~forecasts[f].voided /\ Len(forecasts[f].resolutions) < MaxResolutions
    /\ \E at \in 0 .. MaxTime + Skew :
        /\ MayAssert(f, at)
        /\ forecasts' = [forecasts EXCEPT ![f].resolutions =
               Append(@, [resolved_at |-> at, made |-> now, is_correction |-> Resolved(f)])]
    /\ UNCHANGED <<now, pairs>>

VoidForecast(f) ==
    /\ ~Resolved(f) /\ ~forecasts[f].voided
    /\ forecasts' = [forecasts EXCEPT ![f].voided = TRUE]
    /\ UNCHANGED <<now, pairs>>

Tick == now < MaxTime /\ now' = now + 1 /\ UNCHANGED <<forecasts, pairs>>

SetBack ==
    /\ \E t \in 0 .. now - 1 : now' = t
    /\ UNCHANGED <<forecasts, pairs>>

\* The report's loop finds one more resolved forecast.
Collect ==
    /\ forecasts = << >> /\ Len(pairs) < MaxPairs
    /\ \E p \in Probability, o \in {0, 1} : pairs' = Append(pairs, <<p, o>>)
    /\ UNCHANGED <<now, forecasts>>

Next ==
    \/ Log \/ Tick \/ SetBack \/ Collect
    \/ \E f \in DOMAIN forecasts : Resolve(f) \/ VoidForecast(f)

Spec == Init /\ [][Next]_vars

-----------------------------------------------------------------------------
(* get_calibration_report: what is scored, and what is flagged.             *)

Scored == {f \in DOMAIN forecasts : ~forecasts[f].voided /\ Resolved(f)}

\* _latest_resolution.
Latest(f) == forecasts[f].resolutions[Len(forecasts[f].resolutions)]

\* n_corrected.
Corrected == {f \in Scored : \E i \in DOMAIN forecasts[f].resolutions :
                                 forecasts[f].resolutions[i].is_correction}

Parseable(f) == forecasts[f].horizon # NoDate

\* resolved_before_horizon.
BeforeHorizon == {f \in Scored : Parseable(f) /\ Latest(f).resolved_at < forecasts[f].horizon}

\* Mutant of Certified: any horizon that was kept exempts, however near to the lock.
CertifiedByAny(f) == Parseable(f) /\ f \notin BeforeHorizon
\* The horizon was kept and was a real commitment: it exempts from the next flag.
Certified(f) ==
    /\ Parseable(f) /\ f \notin BeforeHorizon
    /\ forecasts[f].horizon - forecasts[f].locked_at >= Certifying

\* resolved_within_min_latency.
Flagged == {f \in Scored :
               /\ ~Certified(f)
               /\ Latest(f).resolved_at - forecasts[f].locked_at < Latency}

-----------------------------------------------------------------------------
(* Its arithmetic.                                                          *)

\* The pairs' probabilities, and their outcomes, as multiples of Unit.
P == [k \in DOMAIN pairs |-> pairs[k][1] * Unit]
O == [k \in DOMAIN pairs |-> pairs[k][2] * 10 * Width * Unit]
One == 10 * Width * Unit

\* x[1] + ... + x[m], as sum() and a loop's += add them: from the first on.
SumTo(x, m) ==
    LET sum[k \in 0 .. m] == IF k = 0 THEN 0 ELSE sum[k - 1] + x[k]
    IN  sum[m]
Sq(a) == a * a

\* Mutant of InBucket: the last bucket is half open as well.
InBucketHalfOpen(i, p) == i * Width <= p /\ p < (i + 1) * Width
InBucket(i, p) ==
    \/ i * Width <= p /\ p < (i + 1) * Width
    \/ i = 9 /\ p = 10 * Width

Bucket(i) == {k \in DOMAIN pairs : InBucket(i, pairs[k][1])}
Filled == {i \in 0 .. 9 : Bucket(i) # {}}

\* The part of a sum that is a bucket's.
Of(i, x) == [k \in DOMAIN pairs |-> IF k \in Bucket(i) THEN x[k] ELSE 0]

\* Means: of all outcomes, and of a bucket's outcomes and probabilities.
Obar == SumTo(O, Len(pairs)) \div Len(pairs)
ObservedFreq(i) == SumTo(Of(i, O), Len(pairs)) \div Cardinality(Bucket(i))
MeanProbability(i) == SumTo(Of(i, P), Len(pairs)) \div Cardinality(Bucket(i))

\* n times the Brier score and its two components; the loop is over the filled buckets.
Brier == SumTo([k \in DOMAIN pairs |-> Sq(P[k] - O[k])], Len(pairs))
Reliability ==
    SumTo([b \in 1 .. 10 |->
             IF b - 1 \in Filled
             THEN Cardinality(Bucket(b - 1)) * Sq(MeanProbability(b - 1) - ObservedFreq(b - 1))
             ELSE 0], 10)
ResolutionComponent ==
    SumTo([b \in 1 .. 10 |->
             IF b - 1 \in Filled
             THEN Cardinality(Bucket(b - 1)) * Sq(ObservedFreq(b - 1) - Obar)
             ELSE 0], 10)

-----------------------------------------------------------------------------
(* Properties.                                                              *)

Least(a, b) == IF a <= b THEN a ELSE b

\* A resolution that the report does not flag was entered after a wait: the server's
\* clock had passed the lock by a day or by a certifying horizon, less the tolerance,
\* whatever times the analyst asserted (store.py:46-67 and 541-576).
UnflaggedOnlyAfterWaiting ==
    \A f \in Scored \ Flagged :
        Latest(f).made + Skew >= forecasts[f].locked_at + Least(Latency, Certifying)

\* A forecast that was first resolved before that wait stays visible for ever: it is
\* flagged, or it is counted as corrected (store.py:525-530 and 568-574).
EarlyGradeStaysVisible ==
    \A f \in Scored :
        forecasts[f].resolutions[1].made + Skew
                < forecasts[f].locked_at + Least(Latency, Certifying)
            => f \in Flagged \cup Corrected

\* What makes the two inductive: each resolution was asserted within the bounds, and
\* whatever follows the first one is a correction.  The length of a report is the bound
\* that makes its means exact.
Asserted ==
    \A f \in DOMAIN forecasts : \A i \in DOMAIN forecasts[f].resolutions :
        LET r == forecasts[f].resolutions[i]
        IN  /\ forecasts[f].locked_at <= r.resolved_at /\ r.resolved_at <= r.made + Skew
            /\ i > 1 => r.is_correction
ReportInv == TypeOK /\ Asserted /\ Len(pairs) <= MaxPairs

\* The report adds up, whatever it scores: each pair is in one bucket, probability 1.0
\* too, and where the forecasts of a bucket agree the score is
\* reliability - resolution + uncertainty (store.py:600-620).
ReportAddsUp ==
    pairs # << >> =>
        /\ \A k \in DOMAIN pairs : Cardinality({i \in 0 .. 9 : k \in Bucket(i)}) = 1
        /\ (\A i \in Filled : \A k, m \in Bucket(i) : pairs[k][1] = pairs[m][1])
            => Brier = Reliability - ResolutionComponent + Len(pairs) * Obar * (One - Obar)
=============================================================================
