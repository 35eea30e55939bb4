----------------------------- MODULE Statistics -----------------------------
(***************************************************************************)
(* The statistics of phase 7 (analysis/phase7_analysis.py) over samples of *)
(* whole numbers, each next to what it is meant to compute.  Quantities    *)
(* the code divides or takes a root of are kept as the whole numbers they  *)
(* are made of.                                                            *)
(***************************************************************************)
EXTENDS Integers, Sequences, FiniteSets

Lesser(a, b) == IF a < b THEN a ELSE b
Greater(a, b) == IF a > b THEN a ELSE b

-----------------------------------------------------------------------------
\* Mutant: ranks count from 0.
DoubleRank_FromZero(combined, v) ==
    Cardinality({ i \in DOMAIN combined : combined[i] < v })
      + Cardinality({ i \in DOMAIN combined : combined[i] <= v })

\* Twice the rank mann_whitney_p gives a value: i + 1 + j where the tied values
\* are combined[i:j], so that ties share the mean of their places.
DoubleRank(combined, v) ==
    Cardinality({ i \in DOMAIN combined : combined[i] < v }) + 1
      + Cardinality({ i \in DOMAIN combined : combined[i] <= v })

\* Twice rank_a, the sum of the ranks of the values of a.
DoubleRankSum(a, b) ==
    LET sum[k \in 0..Len(a)] == IF k = 0 THEN 0 ELSE sum[k - 1] + DoubleRank(a \o b, a[k])
    IN  sum[Len(a)]

\* Twice u1.
DoubleU(a, b) == DoubleRankSum(a, b) - Len(a) * (Len(a) + 1)

\* Twice the distance of u1 from its mean mu, the numerator of z.
MannWhitneyZ(a, b) ==
    LET d == DoubleU(a, b) - Len(a) * Len(b)
    IN  IF d < 0 THEN -d ELSE d

\* cliffs_delta times the number of pairs: gt - lt.
CliffsDelta(a, b) ==
    Cardinality({ p \in (DOMAIN a) \X (DOMAIN b) : b[p[2]] > a[p[1]] })
      - Cardinality({ p \in (DOMAIN a) \X (DOMAIN b) : b[p[2]] < a[p[1]] })

\* The effect size reported with a p-value speaks of the same evidence: the test
\* sees none exactly where delta is 0, and as much as delta says otherwise.  One
\* goes by ranks, the other by pairs.
TestAndEffectAgree(a, b) ==
    LET delta == CliffsDelta(a, b)
    IN  MannWhitneyZ(a, b) = IF delta < 0 THEN -delta ELSE delta

-----------------------------------------------------------------------------
\* holm_adjust.  p gives the tested rows of a family their p-values, in parts of
\* One; a row that is NOT_TESTABLE has none.  Place is the sorted order, which
\* keeps rows with one value in the order of the family.
Place(p, i) ==
    Cardinality({ j \in DOMAIN p : p[j] < p[i] \/ (p[j] = p[i] /\ j <= i) })

AtPlace(p, k) == CHOOSE i \in DOMAIN p : Place(p, i) = k

\* Mutant: an adjusted value may be smaller than the one before it.
HolmAdjust_NotMonotone(p, One) ==
    LET m == Cardinality(DOMAIN p)
    IN  [ i \in DOMAIN p |-> Lesser(One, (m - Place(p, i) + 1) * p[i]) ]

HolmAdjust(p, One) ==
    LET m == Cardinality(DOMAIN p)
        prev[k \in 0..m] ==
            IF k = 0 THEN 0
            ELSE Lesser(One, Greater(prev[k - 1], (m - k + 1) * p[AtPlace(p, k)]))
    IN  [ i \in DOMAIN p |-> prev[Place(p, i)] ]

\* What Holm's procedure rejects at level alpha: it goes up the sorted values
\* and stops at the first that is too large for the tests that are left.
StepDown(p, alpha) ==
    LET m == Cardinality(DOMAIN p)
    IN  { i \in DOMAIN p :
            \A j \in DOMAIN p : Place(p, j) <= Place(p, i) => (m - Place(p, j) + 1) * p[j] <= alpha }

\* A reader who compares the adjusted values with a level rejects what Holm's
\* procedure rejects at that level, whatever the order of the family's rows.
AdjustedRejectsLikeStepDown(p, One) ==
    \A alpha \in 0..(One - 1) :
        { i \in DOMAIN p : HolmAdjust(p, One)[i] <= alpha } = StepDown(p, alpha)

=============================================================================
