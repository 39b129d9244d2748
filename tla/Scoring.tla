------------------------------ MODULE Scoring ------------------------------
(***************************************************************************)
(* shared/scoring.py.  Scores are whole tenths of a point (the code has    *)
(* floats), the composite is in thousandths; p99 and the variance are in   *)
(* microseconds, the match rate in percent, the error rate per thousand.   *)
(***************************************************************************)
EXTENDS Integers, FiniteSetsExt

\* Half the baseline of 50 ms, or less, is worth all the points.
SpeedScore(p99) == IF p99 <= 0 THEN 1000 ELSE Min({1000, 25000000 \div Max({p99, 1})})

\* The target is 1000 requests per second.
ThroughputScore(rps) == Min({1000, Max({0, rps})})

CorrectnessScore(matchRate) == Min({1000, Max({0, 10 * matchRate})})

StabilityScore(errorRate, variance) ==
  Max({0, 1000 - Min({1000, 10 * errorRate}) - Min({500, variance \div 100})})

\* Variant for mutation runs: the speed term is subtracted.
CompositeScore_Inverted(m) ==
  35 * (1000 - SpeedScore(m.p99)) + 25 * ThroughputScore(m.rps)
    + 25 * CorrectnessScore(m.matchRate) + 15 * StabilityScore(m.errorRate, m.variance)

CompositeScore(m) ==
  35 * SpeedScore(m.p99) + 25 * ThroughputScore(m.rps)
    + 25 * CorrectnessScore(m.matchRate) + 15 * StabilityScore(m.errorRate, m.variance)
=============================================================================
