----------------------------- MODULE MCScoring -----------------------------
(***************************************************************************)
(* Every measurement of a grid around the thresholds of the scores, and    *)
(* every change of one of its five numbers.                                *)
(***************************************************************************)
EXTENDS Scoring

VARIABLE m

Grid == [p99 |-> {0, 1, 25000, 25001, 50000, 200000, 25000001},
         rps |-> {0, 500, 999, 1000, 2000},
         matchRate |-> {0, 50, 100},
         errorRate |-> {0, 50, 99, 100, 1000},
         variance |-> {0, 20000, 50000, 90000, 200000}]

ScoringInit == m \in [p99 : Grid.p99, rps : Grid.rps, matchRate : Grid.matchRate,
                      errorRate : Grid.errorRate, variance : Grid.variance]

Measure(what) == \E x \in Grid[what] : m' = [m EXCEPT ![what] = x]

ScoringNext == \E what \in DOMAIN Grid : Measure(what)

\* a is at least as good as b in everything that is measured.
AtLeastAsGood(a, b) ==
  /\ a.p99 <= b.p99 /\ a.variance <= b.variance /\ a.errorRate <= b.errorRate
  /\ a.rps >= b.rps /\ a.matchRate >= b.matchRate

---------------------------------------------------------------------------
\* Who measures no worse in anything is never scored lower: no clamp, and no
\* special case for a p99 of 0, turns an improvement into a loss.
BetterNeverScoresLess ==
  [][/\ AtLeastAsGood(m', m) => CompositeScore(m') >= CompositeScore(m)
     /\ AtLeastAsGood(m, m') => CompositeScore(m) >= CompositeScore(m')]_m
=============================================================================
