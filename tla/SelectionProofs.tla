----------------------------- MODULE SelectionProofs -----------------------------
(***************************************************************************)
(* From the judgement to the seat, for every judgement, every place and    *)
(* every previous UNL: what docs/DeterministicFinalScore.md and            *)
(* docs/DeterministicDiversity.md promise of the formulas under            *)
(* "Properties", and that select_unl seats by merit and churn control.     *)
(***************************************************************************)
EXTENDS ScoreFormula, UnlSelection, FiniteSetTheorems, TLAPS

\* At least as good in every judged dimension.
NoWorse(better, worse) ==
  /\ worse.consensus <= better.consensus
  /\ worse.reliability <= better.reliability
  /\ worse.software <= better.software
  /\ worse.identity <= better.identity

\* A count of sharing validators, the validator itself included.
Counts == Nat \ {0}

-----------------------------------------------------------------------------
(* The final score.                                                        *)

LEMMA WeightedSumRange ==
  ASSUME NEW j \in Judgements, NEW d \in Points
  PROVE  WeightedSum(j, d) \in Points
<1> DEFINE c == j.consensus  r == j.reliability  s == j.software  i == j.identity
<1>1. c \in 0..100 /\ r \in 0..100 /\ s \in 0..100 /\ i \in 0..100 /\ d \in 0..100
  BY DEF Judgements, Points
<1>2. WeightedSum(j, d) = (50 * c + 20 * r + 10 * s + 10 * d + 10 * i) \div 100
  BY DEF WeightedSum
<1> HIDE DEF c, r, s, i
<1>3. (50 * c + 20 * r + 10 * s + 10 * d + 10 * i) \div 100 \in 0..100
  BY <1>1
<1> QED
  BY <1>2, <1>3 DEF Points

\* The final score is a score again: parser, formula and selector agree on 0..100.
THEOREM FinalScoreRange ==
  ASSUME NEW j \in Judgements, NEW d \in Points
  PROVE  FinalScore(j, d) \in Points
<1>1. WeightedSum(j, d) \in Points
  BY WeightedSumRange
<1>2. j.consensus \in Points
  BY DEF Judgements
<1> QED
  BY <1>1, <1>2 DEF FinalScore, ConsensusGateMargin, Points

\* A validator whose sub-scores are all at least another's never gets a lower
\* final score: both terms of the minimum are monotone in every sub-score.
THEOREM FinalScoreDominance ==
  ASSUME NEW j \in Judgements, NEW k \in Judgements, NEW d \in Points, NEW e \in Points,
         NoWorse(k, j), d <= e
  PROVE  FinalScore(j, d) <= FinalScore(k, e)
<1>1. WeightedSum(j, d) <= WeightedSum(k, e)
  <2> DEFINE low == 50 * j.consensus + 20 * j.reliability + 10 * j.software
                      + 10 * d + 10 * j.identity
             high == 50 * k.consensus + 20 * k.reliability + 10 * k.software
                      + 10 * e + 10 * k.identity
  <2>1. low \in Int /\ high \in Int /\ low <= high
    <3>1. /\ j.consensus \in Int /\ j.reliability \in Int /\ j.software \in Int
          /\ j.identity \in Int /\ d \in Int
      BY DEF Judgements, Points
    <3>2. /\ k.consensus \in Int /\ k.reliability \in Int /\ k.software \in Int
          /\ k.identity \in Int /\ e \in Int
      BY DEF Judgements, Points
    <3> QED
      BY <3>1, <3>2 DEF NoWorse
  <2>2. WeightedSum(j, d) = low \div 100 /\ WeightedSum(k, e) = high \div 100
    BY DEF WeightedSum
  <2> HIDE DEF low, high
  <2> QED
    BY <2>1, <2>2
<1>2. WeightedSum(j, d) \in Int /\ WeightedSum(k, e) \in Int
  <2>1. WeightedSum(j, d) \in 0..100
    BY WeightedSumRange, Zenon DEF Points
  <2>2. WeightedSum(k, e) \in 0..100
    BY WeightedSumRange, Zenon DEF Points
  <2> QED
    BY <2>1, <2>2
<1>3. j.consensus \in Int /\ k.consensus \in Int /\ j.consensus <= k.consensus
  BY DEF Judgements, Points, NoWorse
<1> QED
  BY <1>1, <1>2, <1>3 DEF FinalScore, ConsensusGateMargin

\* The consensus gate: whatever the other dimensions, a validator more than the
\* margin below the cutoff in consensus stays below it.
THEOREM FinalScoreGate ==
  ASSUME NEW j \in Judgements, NEW d \in Points, NEW cutoff \in Int,
         cutoff <= FinalScore(j, d)
  PROVE  cutoff - ConsensusGateMargin <= j.consensus
<1>1. WeightedSum(j, d) \in Int
  BY WeightedSumRange DEF Points
<1>2. j.consensus \in Int
  BY DEF Judgements, Points
<1> QED
  BY <1>1, <1>2 DEF FinalScore, ConsensusGateMargin

-----------------------------------------------------------------------------
(* Diversity.                                                              *)

LEMMA AxisRange ==
  ASSUME NEW n \in Counts \union {Unknown}, NEW others \in Nat
  PROVE  AxisNumerator(n, others) \in 0..(AxisPoints * others)
<1>1. CASE n = Unknown
  BY <1>1 DEF AxisNumerator, AxisPoints, UnknownAxisPoints
<1>2. CASE n # Unknown
  BY <1>2 DEF AxisNumerator, AxisPoints, AxisPenalty, Counts
<1> QED
  BY <1>1, <1>2

\* Sharing with more validators never earns more points on an axis.
LEMMA AxisAntitone ==
  ASSUME NEW m \in Counts, NEW n \in Counts, m <= n, NEW others \in Nat
  PROVE  AxisNumerator(n, others) <= AxisNumerator(m, others)
<1>1. m # Unknown /\ n # Unknown
  BY UnknownAssumption DEF Counts
<1> QED
  BY <1>1 DEF AxisNumerator, AxisPoints, AxisPenalty, Counts

\* The computed sub-score is in 0..100 like the judged ones it replaces, so the
\* score formula's range holds for it.
THEOREM DiversityRange ==
  ASSUME NEW c \in Counts \union {Unknown}, NEW p \in Counts \union {Unknown},
         NEW resolved \in Nat
  PROVE  Diversity(c, p, resolved) \in Points
<1> DEFINE others == resolved - 1
<1>1. CASE others < 1
  BY <1>1 DEF Diversity, AxisAlone, AxisPoints, UnknownAxisPoints, Points
<1>2. CASE others >= 1
  <2> DEFINE numerator == AxisNumerator(c, others) + AxisNumerator(p, others)
  <2>1. others \in Nat
    BY <1>2
  <2>2. /\ AxisNumerator(c, others) \in 0..(AxisPoints * others)
        /\ AxisNumerator(p, others) \in 0..(AxisPoints * others)
    BY <2>1, AxisRange
  <2>3. numerator \in 0..(100 * others)
    BY <2>1, <2>2 DEF AxisPoints
  <2> HIDE DEF numerator, others
  <2>4. (2 * numerator + others) \div (2 * others) \in Points
    BY <1>2, <2>1, <2>3 DEF Points
  <2> QED
    BY <1>2, <2>4 DEF Diversity, numerator, others
<1> QED
  BY <1>1, <1>2

\* Identical evidence but for more crowding never earns more.
THEOREM DiversityAntitone ==
  ASSUME NEW c \in Counts, NEW d \in Counts, c <= d,
         NEW p \in Counts, NEW q \in Counts, p <= q,
         NEW resolved \in Nat
  PROVE  Diversity(d, q, resolved) <= Diversity(c, p, resolved)
<1> DEFINE others == resolved - 1
<1>0. c # Unknown /\ d # Unknown /\ p # Unknown /\ q # Unknown
  BY UnknownAssumption DEF Counts
<1>1. CASE others < 1
  BY <1>0, <1>1 DEF Diversity, AxisAlone, AxisPoints, UnknownAxisPoints
<1>2. CASE others >= 1
  <2> DEFINE fewer == AxisNumerator(c, others) + AxisNumerator(p, others)
             more == AxisNumerator(d, others) + AxisNumerator(q, others)
  <2>1. others \in Nat
    BY <1>2
  <2>2. /\ AxisNumerator(c, others) \in Int /\ AxisNumerator(p, others) \in Int
        /\ AxisNumerator(d, others) \in Int /\ AxisNumerator(q, others) \in Int
    BY <2>1, AxisRange
  <2>3. fewer \in Int /\ more \in Int /\ more <= fewer
    BY <2>1, <2>2, AxisAntitone
  <2> HIDE DEF fewer, more, others
  <2>4. (2 * more + others) \div (2 * others) <= (2 * fewer + others) \div (2 * others)
    BY <1>2, <2>1, <2>3
  <2> QED
    BY <1>2, <2>4 DEF Diversity, fewer, more, others
<1> QED
  BY <1>1, <1>2

\* An axis that still has points after q validators share it.
HasPointsLeft(n, others) == AxisPenalty * (n - 1) < AxisPoints * others

\* The document's ordering rule: no more crowded on either axis and strictly
\* less on one scores strictly higher, as long as the more crowded axis has not
\* bottomed out and fewer than 121 endpoints are resolved.
THEOREM DiversityStrict ==
  ASSUME NEW c \in Counts, NEW d \in Counts, c < d,
         NEW p \in Counts, NEW q \in Counts, p <= q,
         NEW resolved \in Nat, resolved >= 2, resolved <= AxisPenalty + 1,
         HasPointsLeft(d, resolved - 1)
  PROVE  /\ Diversity(d, q, resolved) < Diversity(c, p, resolved)
         /\ Diversity(q, d, resolved) < Diversity(p, c, resolved)
<1> DEFINE others == resolved - 1
           fewer == AxisNumerator(c, others) + AxisNumerator(p, others)
           more == AxisNumerator(d, others) + AxisNumerator(q, others)
<1>1. others \in Nat /\ others >= 1 /\ others <= AxisPenalty
  BY DEF AxisPenalty
<1>2. /\ AxisNumerator(c, others) \in Int /\ AxisNumerator(p, others) \in Int
      /\ AxisNumerator(d, others) \in Int /\ AxisNumerator(q, others) \in Int
  BY <1>1, AxisRange
<1>3. AxisNumerator(d, others) + others <= AxisNumerator(c, others)
  <2>1. c # Unknown /\ d # Unknown
    BY UnknownAssumption DEF Counts
  <2> QED
    BY <1>1, <2>1 DEF AxisNumerator, AxisPoints, AxisPenalty, Counts, HasPointsLeft
<1>4. AxisNumerator(q, others) <= AxisNumerator(p, others)
  BY <1>1, AxisAntitone
<1>5. fewer \in Int /\ more \in Int /\ more + others <= fewer
  BY <1>1, <1>2, <1>3, <1>4
<1>6. /\ Diversity(d, q, resolved) = (2 * more + others) \div (2 * others)
      /\ Diversity(q, d, resolved) = (2 * more + others) \div (2 * others)
      /\ Diversity(c, p, resolved) = (2 * fewer + others) \div (2 * others)
      /\ Diversity(p, c, resolved) = (2 * fewer + others) \div (2 * others)
  BY <1>1, <1>2 DEF Diversity
<1> HIDE DEF fewer, more, others
<1>7. (2 * more + others) \div (2 * others) < (2 * fewer + others) \div (2 * others)
  BY <1>1, <1>5
<1> QED
  BY <1>6, <1>7

-----------------------------------------------------------------------------
(* Finite sets, and the rank on them.                                      *)

\* Induction over the subsets of a finite set, as the principle of the smallest
\* counterexample.
LEMMA SmallestSubset ==
  ASSUME NEW S, IsFiniteSet(S), NEW T, T \subseteq SUBSET S, T # {}
  PROVE  \E U \in T : \A V \in T : V \subseteq U => V = U
<1> DEFINE R == StrictSubsetOrdering(S)
<1>1. IsWellFoundedOn(R, FiniteSubsetsOf(S))
  BY FS_StrictSubsetOrderingWellFounded
<1>2. T \subseteq FiniteSubsetsOf(S)
  BY FS_FiniteSubsetsOfFinite
<1> HIDE DEF R
<1>3. PICK U \in T : \A V \in T : ~(<<V, U>> \in R)
  BY <1>1, <1>2, WFMin
<1>4. ASSUME NEW V \in T, V \subseteq U PROVE V = U
  BY <1>3, <1>4 DEF R, StrictSubsetOrdering
<1> QED
  BY <1>4

\* What can be ranked: finitely many keys with integer scores.
Scored(score, S) == S \subseteq Nat /\ IsFiniteSet(S) /\ \A v \in S : score[v] \in Int

\* Every set of ranked validators has a last one,
LEMMA LastExists ==
  ASSUME NEW score, NEW S, Scored(score, S), S # {}
  PROVE  \E x \in S : \A v \in S \ {x} : Better(score, v, x)
<1> DEFINE HasLast(U) == \E x \in U : \A v \in U \ {x} : Better(score, v, x)
           T == {U \in SUBSET S : U # {} /\ ~HasLast(U)}
<1> SUFFICES ASSUME T # {} PROVE FALSE
  BY DEF HasLast
<1>1. PICK U \in T : \A V \in T : V \subseteq U => V = U
  <2>1. T \subseteq SUBSET S /\ IsFiniteSet(S)
    BY DEF T, Scored
  <2> HIDE DEF T
  <2> QED
    BY <2>1, SmallestSubset
<1>2. PICK x \in U : TRUE
  BY <1>1
<1>3. CASE U = {x}
  BY <1>1, <1>3
<1>4. CASE U # {x}
  <2>1. U \ {x} \notin T
    BY <1>1, <1>2
  <2>2. PICK y \in U \ {x} : \A v \in (U \ {x}) \ {y} : Better(score, v, y)
    BY <1>1, <1>2, <1>4, <2>1
  <2>3. \A v \in U : v \in Nat /\ score[v] \in Int
    BY <1>1 DEF Scored
  <2>4. CASE Better(score, x, y)
    BY <1>1, <2>2, <2>4
  <2>5. CASE ~Better(score, x, y)
    <3>1. Better(score, y, x)
      BY <1>2, <2>2, <2>3, <2>5 DEF Better
    <3>2. \A v \in U \ {x} : Better(score, v, x)
      BY <1>2, <2>2, <2>3, <3>1 DEF Better
    <3> QED
      BY <1>1, <1>2, <3>2
  <2> QED
    BY <2>4, <2>5
<1> QED
  BY <1>3, <1>4

\* and a weakest one: of the lowest score, the smallest key.
LEMMA WeakestExists ==
  ASSUME NEW score, NEW S, Scored(score, S), S # {}
  PROVE  LET w == Weakest(score, S) IN
         /\ w \in S
         /\ \A v \in S : score[w] <= score[v]
         /\ \A v \in S : score[w] = score[v] => w <= v
<1> DEFINE Is(U, w) == \A v \in U : score[w] < score[v] \/ (score[w] = score[v] /\ w <= v)
           T == {U \in SUBSET S : U # {} /\ ~\E w \in U : Is(U, w)}
<1>1. ASSUME T # {} PROVE FALSE
  <2>1. PICK U \in T : \A V \in T : V \subseteq U => V = U
    <3>1. T \subseteq SUBSET S /\ IsFiniteSet(S)
      BY DEF T, Scored
    <3> HIDE DEF T
    <3> QED
      BY <1>1, <3>1, SmallestSubset
  <2>2. PICK x \in U : TRUE
    BY <2>1
  <2>3. \A v \in U : v \in Nat /\ score[v] \in Int
    BY <2>1 DEF Scored
  <2>4. CASE U = {x}
    BY <2>1, <2>3, <2>4
  <2>5. CASE U # {x}
    <3>1. PICK y \in U \ {x} : Is(U \ {x}, y)
      <4>1. U \ {x} \notin T
        BY <2>1, <2>2
      <4>2. U \ {x} # {} /\ U \ {x} \in SUBSET S
        BY <2>1, <2>2, <2>5
      <4> QED
        BY <4>1, <4>2
    <3>2. Is(U, y) \/ Is(U, x)
      BY <2>2, <2>3, <3>1
    <3> QED
      BY <2>1, <2>2, <3>1, <3>2
  <2> QED
    BY <2>4, <2>5
<1>2. \E w \in S : Is(S, w)
  BY <1>1
<1>3. Weakest(score, S) \in S /\ Is(S, Weakest(score, S))
  BY <1>2 DEF Weakest
<1>4. \A v \in S : score[v] \in Int
  BY DEF Scored
<1> HIDE DEF T
<1> QED
  BY <1>3, <1>4

LEMMA AheadFinite ==
  ASSUME NEW score, NEW S, Scored(score, S), NEW v
  PROVE  /\ IsFiniteSet(Ahead(score, S, v))
         /\ Cardinality(Ahead(score, S, v)) \in Nat
<1>1. Ahead(score, S, v) \in SUBSET S /\ IsFiniteSet(S)
  BY DEF Ahead, Scored
<1> QED
  BY <1>1, FS_Subset, FS_CardinalityType

LEMMA TopFinite ==
  ASSUME NEW score, NEW S, Scored(score, S), NEW n
  PROVE  /\ Top(score, S, n) \subseteq S
         /\ IsFiniteSet(Top(score, S, n))
         /\ Cardinality(Top(score, S, n)) \in Nat
<1>1. Top(score, S, n) \in SUBSET S /\ IsFiniteSet(S)
  BY DEF Top, Scored
<1> QED
  BY <1>1, FS_Subset, FS_CardinalityType

\* A list cut at n has n entries, or all of them.
LEMMA TopSize ==
  ASSUME NEW score, NEW S, Scored(score, S), NEW n \in Nat
  PROVE  Cardinality(Top(score, S, n)) = IF n < Cardinality(S) THEN n ELSE Cardinality(S)
<1> DEFINE Cut(U) == Cardinality(Top(score, U, n)) = IF n < Cardinality(U) THEN n
                                                    ELSE Cardinality(U)
           T == {U \in SUBSET S : ~Cut(U)}
<1> SUFFICES ASSUME T # {} PROVE FALSE
  OBVIOUS
<1>1. PICK U \in T : \A V \in T : V \subseteq U => V = U
  <2>1. T \subseteq SUBSET S /\ IsFiniteSet(S)
    BY DEF T, Scored
  <2> HIDE DEF T
  <2> QED
    BY <2>1, SmallestSubset
<1>2. Scored(score, U)
  BY <1>1, FS_Subset DEF Scored
<1>3. CASE U = {}
  <2>1. Top(score, U, n) = {} /\ Cardinality({}) = 0
    BY <1>3, FS_EmptySet DEF Top
  <2> QED
    BY <1>1, <1>3, <2>1
<1>4. CASE U # {}
  <2>1. PICK x \in U : \A v \in U \ {x} : Better(score, v, x)
    BY <1>2, <1>4, LastExists
  <2> DEFINE R == U \ {x}
  <2>2. /\ Scored(score, R)
        /\ Cardinality(U) \in Nat /\ Cardinality(R) = Cardinality(U) - 1
    BY <1>2, <2>1, FS_RemoveElement, FS_CardinalityType DEF Scored
  <2>3. Cut(R)
    <3>1. R \in SUBSET S /\ R \subseteq U /\ R # U
      BY <1>1, <2>1
    <3> QED
      BY <1>1, <3>1
  <2>4. \A v \in U : v \in Nat /\ score[v] \in Int
    BY <1>2 DEF Scored
  <2>5. ~Better(score, x, x) /\ \A v \in R : ~Better(score, x, v)
    BY <2>1, <2>4 DEF Better
  <2>6. /\ Ahead(score, U, x) = R
        /\ \A v \in R : Ahead(score, U, v) = Ahead(score, R, v)
    BY <2>1, <2>5 DEF Ahead
  <2>7. /\ Top(score, R, n) \subseteq R
        /\ IsFiniteSet(Top(score, R, n)) /\ Cardinality(Top(score, R, n)) \in Nat
    BY <2>2, TopFinite
  <2>8. CASE n <= Cardinality(R)
    <3>1. Top(score, U, n) = Top(score, R, n)
      BY <2>1, <2>2, <2>6, <2>8 DEF Top
    <3> HIDE DEF R
    <3>2. Cut(U)
      BY <2>2, <2>3, <2>8, <3>1
    <3> QED
      BY <1>1, <3>2
  <2>9. CASE n > Cardinality(R)
    <3>1. Top(score, U, n) = Top(score, R, n) \union {x}
      BY <2>1, <2>2, <2>6, <2>9 DEF Top
    <3>2. x \notin Top(score, R, n)
      BY <2>7
    <3>3. Cardinality(Top(score, U, n)) = Cardinality(Top(score, R, n)) + 1
      BY <2>7, <3>1, <3>2, FS_AddElement
    <3> HIDE DEF R
    <3>4. Cut(U)
      BY <2>2, <2>3, <2>9, <3>3
    <3> QED
      BY <1>1, <3>4
  <2> QED
    BY <2>2, <2>8, <2>9
<1> QED
  BY <1>3, <1>4

LEMMA TopEnds ==
  ASSUME NEW score, NEW S, Scored(score, S)
  PROVE  Top(score, S, 0) = {} /\ Top(score, S, Cardinality(S)) = S
<1>1. Top(score, S, 0) = {}
  BY AheadFinite DEF Top
<1>2. Cardinality(S) \in Nat /\ IsFiniteSet(S)
  BY FS_CardinalityType DEF Scored
<1>3. Cardinality(Top(score, S, Cardinality(S))) = Cardinality(S)
  BY <1>2, TopSize
<1> QED
  BY <1>1, <1>2, <1>3, TopFinite, FS_Subset

\* The n-th entry follows the first n - 1 and completes the first n.
LEMMA RankedNext ==
  ASSUME NEW score, NEW S, Scored(score, S), NEW n \in 1..Cardinality(S)
  PROVE  LET v == Ranked(score, S, n) IN
         /\ v \in S /\ v \notin Top(score, S, n - 1)
         /\ Top(score, S, n) = Top(score, S, n - 1) \union {v}
         /\ \A w \in Top(score, S, n - 1) : score[v] <= score[w]
<1> DEFINE before == Top(score, S, n - 1)  upto == Top(score, S, n)
           v == Ranked(score, S, n)
<1>1. Cardinality(S) \in Nat /\ n \in Nat /\ n - 1 \in Nat /\ n <= Cardinality(S)
  BY FS_CardinalityType DEF Scored
<1>2. Cardinality(before) = n - 1 /\ Cardinality(upto) = n
  BY <1>1, TopSize
<1>3. IsFiniteSet(before) /\ IsFiniteSet(upto) /\ upto \subseteq S
  BY TopFinite
<1>4. before \subseteq upto
  BY <1>1, AheadFinite DEF Top
<1>5. PICK u \in upto : u \notin before
  BY <1>1, <1>2, <1>4
<1>6. u \in S /\ Cardinality(Ahead(score, S, u)) = n - 1
  BY <1>1, <1>5, AheadFinite DEF Top
<1>7. v \in S /\ Cardinality(Ahead(score, S, v)) = n - 1
  BY <1>6 DEF Ranked
<1>8. v \in upto /\ v \notin before
  BY <1>1, <1>7 DEF Top
<1> HIDE DEF v, before, upto
<1>9. upto = before \union {v}
  <2>1. IsFiniteSet(before \union {v}) /\ Cardinality(before \union {v}) = n
    BY <1>1, <1>2, <1>3, <1>8, FS_AddElement
  <2>2. before \union {v} \in SUBSET upto
    BY <1>4, <1>8
  <2> QED
    BY <1>2, <1>3, <2>1, <2>2, FS_Subset
<1>10. ASSUME NEW w \in before PROVE score[v] <= score[w]
  <2>0. w \in S /\ Cardinality(Ahead(score, S, w)) < n - 1
    BY <1>10 DEF before, Top
  <2>1. \A x \in S : x \in Nat /\ score[x] \in Int
    BY DEF Scored
  <2>2. CASE Better(score, v, w)
    <3>1. Ahead(score, S, v) \subseteq Ahead(score, S, w)
      BY <1>7, <2>0, <2>1, <2>2 DEF Ahead, Better
    <3>2. Cardinality(Ahead(score, S, v)) <= Cardinality(Ahead(score, S, w))
      BY <3>1, AheadFinite, FS_Subset
    <3> QED
      BY <1>1, <1>7, <2>0, <3>2, AheadFinite
  <2> QED
    BY <1>7, <2>0, <2>1, <2>2 DEF Better
<1> QED
  BY <1>7, <1>8, <1>9, <1>10 DEF v, before, upto

-----------------------------------------------------------------------------
(* The loop over the challengers.                                          *)

\* A set of numbers up to N has a least one.
LEMMA LeastNumber ==
  ASSUME NEW N \in Nat, NEW T, T \subseteq 0..N, T # {}
  PROVE  \E m \in T : \A k \in T : m <= k
<1> DEFINE level == [n \in T |-> 0]
<1>1. T \subseteq Nat /\ IsFiniteSet(T)
  <2>1. IsFiniteSet(0..N) /\ T \in SUBSET (0..N)
    BY FS_Interval
  <2>2. IsFiniteSet(T)
    BY <2>1, FS_Subset
  <2> QED
    BY <2>2
<1>2. \A k \in T : level[k] = 0
  OBVIOUS
<1>3. Scored(level, T)
  BY <1>1, <1>2 DEF Scored
<1> HIDE DEF level
<1>4. Weakest(level, T) \in T /\ \A k \in T : Weakest(level, T) <= k
  BY <1>2, <1>3, WeakestExists
<1> QED
  BY <1>4

\* The recursive definition has a solution: one for the first n challengers
\* extends to the next.
LEMMA SeatingSteps ==
  ASSUME NEW score, NEW start, NEW C, IsFiniteSet(C)
  PROVE  /\ Seating(score, start, C)[0] = start
         /\ \A n \in 1..Cardinality(C) :
              Seating(score, start, C)[n]
                = Challenge(score, Seating(score, start, C)[n - 1], Ranked(score, C, n))
<1> DEFINE N == Cardinality(C)
           step(g, n) == Challenge(score, g[n - 1], Ranked(score, C, n))
           Solves(g, m) == g = [n \in 0..m |-> IF n = 0 THEN start ELSE step(g, n)]
           T == {m \in 0..N : ~\E g : Solves(g, m)}
<1>1. N \in Nat
  BY FS_CardinalityType
<1>2. ASSUME T # {} PROVE FALSE
  <2>1. PICK m \in T : \A k \in T : m <= k
    <3> HIDE DEF N, T
    <3>1. T \subseteq 0..N
      BY DEF T
    <3> QED
      BY <1>1, <1>2, <3>1, LeastNumber
  <2>2. CASE m = 0
    <3> DEFINE g == [n \in 0..0 |-> start]
    <3>1. g = [n \in 0..0 |-> IF n = 0 THEN start ELSE step(g, n)]
      OBVIOUS
    <3>2. Solves(g, m)
      BY <2>2, <3>1
    <3> QED
      BY <2>1, <3>2
  <2>3. CASE m # 0
    <3>1. m \in Nat /\ m - 1 \in 0..N /\ m - 1 \notin T
      BY <1>1, <2>1, <2>3
    <3>2. PICK g : Solves(g, m - 1)
      BY <3>1
    <3> DEFINE h == [n \in 0..m |-> IF n = m THEN step(g, m) ELSE g[n]]
    <3> HIDE DEF N, T
    <3>3. \A n \in 0..(m - 1) : g[n] = IF n = 0 THEN start ELSE step(g, n)
      BY <3>2, Zenon
    <3>4. h = [n \in 0..m |-> IF n = 0 THEN start ELSE step(h, n)]
      <4>1. ASSUME NEW n \in 0..m
            PROVE  h[n] = IF n = 0 THEN start ELSE step(h, n)
        <5>1. n # 0 => step(h, n) = step(g, n)
          <6>1. n # 0 => h[n - 1] = g[n - 1]
            BY <3>1
          <6> QED
            BY <6>1
        <5> QED
          BY <2>3, <3>1, <3>3, <5>1
      <4> QED
        BY <4>1
    <3>5. Solves(h, m)
      BY <3>4
    <3> QED
      BY <2>1, <3>5 DEF T
  <2> QED
    BY <2>2, <2>3
<1>3. \E g : Solves(g, N)
  BY <1>1, <1>2
<1>4. Seating(score, start, C) = CHOOSE g : Solves(g, N)
  BY DEF Seating
<1>5. Solves(Seating(score, start, C), N)
  BY <1>3, <1>4
<1> QED
  BY <1>1, <1>5

Lists(S) == [unl : SUBSET S, alternates : SUBSET S]

\* The lists hold everyone placed so far, within the cap, and no seat is open
\* while there is an alternate.
Placed(incumbents, placed, lists) ==
  /\ lists.unl \cap lists.alternates = {}
  /\ lists.unl \union lists.alternates = incumbents \union placed
  /\ Cardinality(lists.unl) <= MaxSize
  /\ lists.alternates # {} => Cardinality(lists.unl) = MaxSize

\* A lower score holds a seat against a higher one only as an incumbent, against
\* a challenger short of the gap.
ByMerit(score, incumbents, lists) ==
  \A seated \in lists.unl, out \in lists.alternates :
    score[out] > score[seated] =>
      /\ seated \in incumbents /\ out \notin incumbents
      /\ score[out] < score[seated] + MinGap

\* An incumbent without a seat lost it to a challenger leading by the gap, or to
\* the cap.
EarnedFrom(score, incumbents, lists, out) ==
  \/ \E newcomer \in lists.unl \ incumbents : score[newcomer] >= score[out] + MinGap
  \/ Cardinality({v \in incumbents \ {out} : score[v] >= score[out]}) >= MaxSize

Earned(score, incumbents, lists) ==
  \A out \in lists.alternates \cap incumbents : EarnedFrom(score, incumbents, lists, out)

\* What holds after every round of the loop.
LoopInv(score, incumbents, placed, lists) ==
  /\ Placed(incumbents, placed, lists)
  /\ ByMerit(score, incumbents, lists)
  /\ Earned(score, incumbents, lists)

\* The incumbents, cut at the cap, start the loop.
LEMMA StartInv ==
  ASSUME NEW score, NEW S, Scored(score, S), NEW incumbents \in SUBSET S
  PROVE  LET seated == Top(score, incumbents, MaxSize)
             lists == [unl |-> seated, alternates |-> incumbents \ seated]
         IN  lists \in Lists(S) /\ LoopInv(score, incumbents, {}, lists)
<1> DEFINE seated == Top(score, incumbents, MaxSize)
           lists == [unl |-> seated, alternates |-> incumbents \ seated]
<1>1. Scored(score, incumbents)
  BY FS_Subset DEF Scored
<1>2. seated \subseteq incumbents /\ IsFiniteSet(seated)
  BY <1>1, TopFinite
<1>3. /\ MaxSize \in Nat /\ Cardinality(incumbents) \in Nat
      /\ Cardinality(seated) = IF MaxSize < Cardinality(incumbents) THEN MaxSize
                               ELSE Cardinality(incumbents)
  BY <1>1, TopSize, FS_CardinalityType, SelectionAssumption DEF Scored, SelectionAssumption
<1>4. lists \in Lists(S)
  BY <1>2 DEF Lists
<1>5. Placed(incumbents, {}, lists)
  <2>1. Cardinality(seated) = Cardinality(incumbents) => seated = incumbents
    BY <1>1, <1>2, FS_Subset DEF Scored
  <2> HIDE DEF seated
  <2> QED
    BY <1>2, <1>3, <2>1 DEF Placed
<1>6. ASSUME NEW out \in incumbents \ seated
      PROVE  /\ \A v \in Ahead(score, incumbents, out) : score[v] >= score[out] /\ v # out
             /\ Cardinality(Ahead(score, incumbents, out)) >= MaxSize
  <2>1. \A v \in incumbents : v \in Nat /\ score[v] \in Int
    BY <1>1 DEF Scored
  <2>2. Cardinality(Ahead(score, incumbents, out)) \in Nat
    BY <1>1, AheadFinite
  <2> QED
    BY <1>3, <2>1, <2>2 DEF Ahead, Better, Top
<1>7. ByMerit(score, incumbents, lists)
  <2> SUFFICES ASSUME NEW v \in seated, NEW out \in incumbents \ seated
               PROVE  ~(score[out] > score[v])
    BY DEF ByMerit
  <2>1. \A u \in incumbents : u \in Nat /\ score[u] \in Int
    BY <1>1 DEF Scored
  <2>2. ASSUME score[out] > score[v] PROVE FALSE
    <3>1. Ahead(score, incumbents, out) \subseteq Ahead(score, incumbents, v)
      BY <1>2, <2>1, <2>2 DEF Ahead, Better
    <3>2. Cardinality(Ahead(score, incumbents, out)) <= Cardinality(Ahead(score, incumbents, v))
      BY <1>1, <3>1, AheadFinite, FS_Subset
    <3>3. Cardinality(Ahead(score, incumbents, v)) < MaxSize
      BY DEF Top
    <3> QED
      BY <1>1, <1>3, <1>6, <3>2, <3>3, AheadFinite
  <2> QED
    BY <2>2
<1>8. Earned(score, incumbents, lists)
  <2> SUFFICES ASSUME NEW out \in incumbents \ seated
               PROVE  Cardinality({v \in incumbents \ {out} : score[v] >= score[out]}) >= MaxSize
    BY DEF Earned, EarnedFrom
  <2> DEFINE better == {v \in incumbents \ {out} : score[v] >= score[out]}
  <2>1. Ahead(score, incumbents, out) \in SUBSET better
    BY <1>6 DEF Ahead
  <2>2. IsFiniteSet(better) /\ Cardinality(better) \in Nat
    <3>1. better \in SUBSET incumbents
      OBVIOUS
    <3> QED
      BY <1>1, <3>1, FS_Subset, FS_CardinalityType DEF Scored
  <2>3. Cardinality(Ahead(score, incumbents, out)) <= Cardinality(better)
    BY <2>1, <2>2, FS_Subset
  <2> QED
    BY <1>1, <1>3, <1>6, <2>2, <2>3, AheadFinite
<1> QED
  BY <1>4, <1>5, <1>7, <1>8 DEF LoopInv

\* One round of the loop.
LEMMA ChallengeKeeps ==
  ASSUME NEW score, NEW S, Scored(score, S), NEW incumbents \in SUBSET S,
         NEW placed \in SUBSET S, NEW lists \in Lists(S), NEW v \in S,
         v \notin incumbents, v \notin placed, \A w \in placed : score[v] <= score[w],
         LoopInv(score, incumbents, placed, lists)
  PROVE  /\ Challenge(score, lists, v) \in Lists(S)
         /\ LoopInv(score, incumbents, placed \union {v}, Challenge(score, lists, v))
<1> DEFINE unl == lists.unl
           out == lists.alternates
           weakest == Weakest(score, unl)
           next == Challenge(score, lists, v)
<1>1. /\ unl \subseteq S /\ out \subseteq S /\ IsFiniteSet(unl) /\ Scored(score, unl)
      /\ lists = [unl |-> unl, alternates |-> out]
  <2>1. unl \in SUBSET S /\ out \subseteq S /\ lists = [unl |-> unl, alternates |-> out]
    BY DEF Lists
  <2> QED
    BY <2>1, FS_Subset DEF Scored
<1>2. /\ unl \cap out = {} /\ unl \union out = incumbents \union placed
      /\ Cardinality(unl) \in Nat /\ Cardinality(unl) <= MaxSize
      /\ out # {} => Cardinality(unl) = MaxSize
  BY <1>1, FS_CardinalityType DEF LoopInv, Placed
<1>3. \A s \in unl, o \in out :
        score[o] > score[s] =>
          s \in incumbents /\ o \notin incumbents /\ score[o] < score[s] + MinGap
  BY DEF LoopInv, ByMerit
<1>4. \A o \in out \cap incumbents : EarnedFrom(score, incumbents, lists, o)
  BY DEF LoopInv, Earned
<1>5. MaxSize \in Nat /\ MaxSize # 0 /\ MinGap \in Nat
  BY SelectionAssumption DEF SelectionAssumption
<1>6. \A w \in S : score[w] \in Int
  BY DEF Scored
<1>7. v \notin unl /\ v \notin out
  BY <1>2
<1>8. CASE Cardinality(unl) < MaxSize
  <2>1. next = [unl |-> unl \union {v}, alternates |-> out] /\ out = {}
    BY <1>1, <1>2, <1>5, <1>8 DEF Challenge
  <2>2. Cardinality(unl \union {v}) = Cardinality(unl) + 1
    BY <1>1, <1>7, FS_AddElement
  <2>3. next \in Lists(S)
    BY <1>1, <2>1 DEF Lists
  <2>4. Placed(incumbents, placed \union {v}, next)
    BY <1>2, <1>5, <1>8, <2>1, <2>2 DEF Placed
  <2>5. ByMerit(score, incumbents, next) /\ Earned(score, incumbents, next)
    BY <2>1 DEF ByMerit, Earned
  <2> QED
    BY <2>3, <2>4, <2>5 DEF LoopInv
<1>9. CASE Cardinality(unl) >= MaxSize
  <2>0. Cardinality(unl) = MaxSize
    BY <1>2, <1>5, <1>9
  <2>1. unl # {}
    BY <1>5, <2>0, FS_EmptySet
  <2>2. weakest \in unl /\ \A w \in unl : score[weakest] <= score[w]
    BY <1>1, <2>1, WeakestExists
  <2> HIDE DEF weakest
  <2>3. CASE score[v] >= score[weakest] + MinGap
    <3>1. next = [unl |-> (unl \ {weakest}) \union {v}, alternates |-> out \union {weakest}]
      BY <1>5, <2>0, <2>3 DEF Challenge, weakest
    <3>2. Cardinality((unl \ {weakest}) \union {v}) = MaxSize
      <4>1. IsFiniteSet(unl \ {weakest}) /\ Cardinality(unl \ {weakest}) = MaxSize - 1
        BY <1>1, <2>0, <2>2, FS_RemoveElement
      <4>2. v \notin unl \ {weakest}
        BY <1>7
      <4>3. Cardinality((unl \ {weakest}) \union {v}) = Cardinality(unl \ {weakest}) + 1
        BY <4>1, <4>2, FS_AddElement
      <4> QED
        BY <1>5, <4>1, <4>3
    <3>3. next \in Lists(S)
      BY <1>1, <2>2, <3>1 DEF Lists
    <3>4. Placed(incumbents, placed \union {v}, next)
      BY <1>2, <1>5, <1>7, <2>2, <3>1, <3>2 DEF Placed
    <3>5. score[weakest] <= score[v] /\ \A o \in out : score[o] <= score[v]
      BY <1>1, <1>3, <1>5, <1>6, <2>2, <2>3
    <3>6. ByMerit(score, incumbents, next)
      BY <1>1, <1>3, <1>6, <2>2, <3>1, <3>5 DEF ByMerit
    <3>7. ASSUME NEW o \in (out \union {weakest}) \cap incumbents
          PROVE  EarnedFrom(score, incumbents, next, o)
      <4>1. CASE score[v] >= score[o] + MinGap
        BY <3>1, <4>1 DEF EarnedFrom
      <4>2. CASE ~(score[v] >= score[o] + MinGap)
        <5>1. o \in out /\ EarnedFrom(score, incumbents, lists, o)
          BY <1>4, <2>3, <3>7, <4>2
        <5>2. \A w \in unl \ incumbents : score[w] >= score[o] + MinGap => w # weakest
          BY <1>1, <1>5, <1>6, <2>2, <2>3, <4>2, <5>1
        <5> QED
          BY <3>1, <5>1, <5>2 DEF EarnedFrom
      <4> QED
        BY <4>1, <4>2
    <3>8. Earned(score, incumbents, next)
      BY <3>1, <3>7 DEF Earned
    <3> QED
      BY <3>3, <3>4, <3>6, <3>8 DEF LoopInv
  <2>4. CASE ~(score[v] >= score[weakest] + MinGap)
    <3>1. next = [unl |-> unl, alternates |-> out \union {v}]
      <4>1. next = [lists EXCEPT !.alternates = lists.alternates \union {v}]
        BY <1>5, <2>0, <2>4 DEF Challenge, weakest
      <4> QED
        BY <4>1 DEF Lists
    <3>2. next \in Lists(S)
      BY <1>1, <3>1 DEF Lists
    <3>3. Placed(incumbents, placed \union {v}, next)
      BY <1>2, <1>5, <1>7, <2>0, <3>1 DEF Placed
    <3>4. \A s \in unl : /\ score[v] < score[s] + MinGap
                         /\ score[v] > score[s] => s \in incumbents
      BY <1>1, <1>2, <1>5, <1>6, <2>2, <2>4
    <3>5. ByMerit(score, incumbents, next)
      BY <1>3, <3>1, <3>4 DEF ByMerit
    <3>6. Earned(score, incumbents, next)
      BY <1>4, <3>1 DEF Earned, EarnedFrom
    <3> QED
      BY <3>2, <3>3, <3>5, <3>6 DEF LoopInv
  <2> QED
    BY <2>3, <2>4
<1> QED
  BY <1>2, <1>5, <1>8, <1>9

\* The invariant holds after every round of the loop.
LEMMA SeatingInv ==
  ASSUME NEW score, NEW S, Scored(score, S), NEW incumbents \in SUBSET S,
         NEW start \in Lists(S), LoopInv(score, incumbents, {}, start)
  PROVE  LET challengers == S \ incumbents
             lists == Seating(score, start, challengers)[Cardinality(challengers)]
         IN  lists \in Lists(S) /\ LoopInv(score, incumbents, challengers, lists)
<1> DEFINE C == S \ incumbents
           N == Cardinality(C)
           after == Seating(score, start, C)
           Good(n) == /\ after[n] \in Lists(S)
                      /\ LoopInv(score, incumbents, Top(score, C, n), after[n])
           T == {n \in 0..N : ~Good(n)}
<1>1. Scored(score, C) /\ IsFiniteSet(C) /\ N \in Nat
  <2>1. C \in SUBSET S /\ IsFiniteSet(S)
    BY DEF Scored
  <2>2. IsFiniteSet(C)
    BY <2>1, FS_Subset
  <2> QED
    BY <2>1, <2>2, FS_CardinalityType DEF Scored
<1>2. /\ after[0] = start
      /\ \A n \in 1..N : after[n] = Challenge(score, after[n - 1], Ranked(score, C, n))
  BY <1>1, SeatingSteps
<1>3. Top(score, C, 0) = {} /\ Top(score, C, N) = C
  BY <1>1, TopEnds
<1>4. ASSUME NEW n \in 1..N, Good(n - 1) PROVE Good(n)
  <2> DEFINE v == Ranked(score, C, n)
  <2>1. /\ v \in C /\ v \notin Top(score, C, n - 1)
        /\ Top(score, C, n) = Top(score, C, n - 1) \union {v}
        /\ \A w \in Top(score, C, n - 1) : score[v] <= score[w]
    BY <1>1, RankedNext
  <2>2. Top(score, C, n - 1) \in SUBSET S
    BY DEF Top
  <2> HIDE DEF v, after, C
  <2>3. v \in S /\ v \notin incumbents
    BY <2>1 DEF C
  <2>4. /\ Challenge(score, after[n - 1], v) \in Lists(S)
        /\ LoopInv(score, incumbents, Top(score, C, n - 1) \union {v},
                   Challenge(score, after[n - 1], v))
    BY <1>4, <2>1, <2>2, <2>3, ChallengeKeeps
  <2>5. after[n] = Challenge(score, after[n - 1], v)
    BY <1>2 DEF v
  <2> QED
    BY <2>1, <2>4, <2>5
<1>5. Good(N)
  <2> SUFFICES ASSUME T # {} PROVE FALSE
    BY <1>1
  <2>1. PICK n \in T : \A k \in T : n <= k
    <3> HIDE DEF N, T
    <3>1. T \subseteq 0..N
      BY DEF T
    <3> QED
      BY <1>1, <3>1, LeastNumber
  <2> HIDE DEF N, after, C
  <2>2. CASE n = 0
    BY <1>2, <1>3, <2>1, <2>2
  <2>3. CASE n # 0
    <3>1. n \in 1..N /\ n - 1 \in 0..N /\ n - 1 \notin T
      BY <1>1, <2>1, <2>3
    <3> QED
      BY <1>4, <2>1, <3>1
  <2> QED
    BY <2>2, <2>3
<1> QED
  BY <1>3, <1>5

\* select_unl ends with lists that satisfy the invariant for all challengers.
LEMMA SelectInv ==
  ASSUME NEW score, NEW previous, Scored(score, Qualified(score))
  PROVE  LET incumbents == IF previous = {} THEN Qualified(score)
                           ELSE Qualified(score) \cap previous
             lists == SelectUnl(score, previous)
         IN  /\ lists \in Lists(Qualified(score))
             /\ LoopInv(score, incumbents, Qualified(score) \ incumbents, lists)
<1> DEFINE S == Qualified(score)
           incumbents == IF previous = {} THEN S ELSE S \cap previous
           seated == Top(score, incumbents, MaxSize)
           start == [unl |-> seated, alternates |-> incumbents \ seated]
           C == S \ incumbents
<1>1. incumbents \in SUBSET S
  OBVIOUS
<1>2. start \in Lists(S) /\ LoopInv(score, incumbents, {}, start)
  BY <1>1, StartInv
<1>3. SelectUnl(score, previous) = Seating(score, start, C)[Cardinality(C)]
  BY DEF SelectUnl
<1> HIDE DEF incumbents, start
<1>4. /\ Seating(score, start, C)[Cardinality(C)] \in Lists(S)
      /\ LoopInv(score, incumbents, C, Seating(score, start, C)[Cardinality(C)])
  BY <1>1, <1>2, SeatingInv
<1> QED
  BY <1>3, <1>4 DEF incumbents

\* Whatever the scores and the previous UNL, select_unl seats by merit: the
\* lists partition the qualified validators, the cap holds and no seat is left
\* open, and a higher score goes without a seat a lower one has only where churn
\* control protects a member of the previous UNL.
THEOREM SelectionByMerit ==
  ASSUME NEW score, NEW previous, Scored(score, Qualified(score))
  PROVE  LET lists == SelectUnl(score, previous) IN
         /\ lists.unl \cap lists.alternates = {}
         /\ lists.unl \union lists.alternates = Qualified(score)
         /\ Cardinality(lists.unl) <= MaxSize
         /\ lists.alternates # {} => Cardinality(lists.unl) = MaxSize
         /\ \A seated \in lists.unl, out \in lists.alternates :
              score[out] > score[seated] =>
                /\ seated \in previous /\ out \notin previous
                /\ score[out] < score[seated] + MinGap
<1> DEFINE S == Qualified(score)
           incumbents == IF previous = {} THEN S ELSE S \cap previous
           lists == SelectUnl(score, previous)
<1>1. LoopInv(score, incumbents, S \ incumbents, lists)
  BY SelectInv
<1>2. incumbents \union (S \ incumbents) = S
  OBVIOUS
<1> HIDE DEF lists
<1>3. Placed(incumbents, S \ incumbents, lists)
  BY <1>1 DEF LoopInv
<1>4. ASSUME NEW seated \in lists.unl, NEW out \in lists.alternates,
             score[out] > score[seated]
      PROVE  seated \in previous /\ out \notin previous /\ score[out] < score[seated] + MinGap
  <2>1. seated \in incumbents /\ out \notin incumbents /\ score[out] < score[seated] + MinGap
    BY <1>1, <1>4 DEF LoopInv, ByMerit
  <2>2. out \in S
    BY <1>2, <1>3 DEF Placed
  <2> QED
    BY <2>1, <2>2
<1> HIDE DEF incumbents
<1> QED
  BY <1>2, <1>3, <1>4 DEF lists, Placed

\* A member of the previous UNL that still qualifies loses its seat only to a
\* newcomer leading it by the gap, or because MaxSize other members score no
\* less.
THEOREM SelectionChurn ==
  ASSUME NEW score, NEW previous, Scored(score, Qualified(score))
  PROVE  LET lists == SelectUnl(score, previous)
             members == previous \cap Qualified(score)
         IN  \A member \in members \ lists.unl :
               \/ \E newcomer \in lists.unl \ previous :
                    score[newcomer] >= score[member] + MinGap
               \/ Cardinality({v \in members \ {member} : score[v] >= score[member]}) >= MaxSize
<1> DEFINE S == Qualified(score)
           lists == SelectUnl(score, previous)
           members == previous \cap S
<1>1. CASE previous = {}
  BY <1>1
<1>2. CASE previous # {}
  <2>1. LoopInv(score, members, S \ members, lists)
    BY <1>2, SelectInv
  <2> HIDE DEF lists
  <2> SUFFICES ASSUME NEW member \in members \ lists.unl
               PROVE  \/ \E newcomer \in lists.unl \ previous :
                           score[newcomer] >= score[member] + MinGap
                      \/ Cardinality({v \in members \ {member} : score[v] >= score[member]})
                           >= MaxSize
    BY DEF lists
  <2>2. lists.unl \union lists.alternates = S
    BY <2>1 DEF LoopInv, Placed
  <2>3. EarnedFrom(score, members, lists, member)
    BY <2>1, <2>2 DEF LoopInv, Earned
  <2> QED
    BY <2>2, <2>3 DEF EarnedFrom
<1> QED
  BY <1>1, <1>2

\* Scores that do not change move nobody: selecting again, with the list just
\* selected as the previous UNL, gives the same lists, so a seat never changes
\* hands back and forth, not even between equal scores.  A gap of 0 would let it.
THEOREM SelectionStable ==
  ASSUME NEW score, NEW previous, Scored(score, Qualified(score)), MinGap # 0
  PROVE  LET lists == SelectUnl(score, previous)
         IN  SelectUnl(score, lists.unl) = lists
<1> DEFINE S == Qualified(score)
           lists == SelectUnl(score, previous)
           U == lists.unl
           A == lists.alternates
           again == SelectUnl(score, U)
           start == [unl |-> U, alternates |-> {}]
           N == Cardinality(A)
           after == Seating(score, start, A)
<1> SUFFICES again = lists
  OBVIOUS
<1>1. /\ lists \in Lists(S)
      /\ U \cap A = {} /\ U \union A = S /\ Cardinality(U) <= MaxSize
      /\ A # {} => Cardinality(U) = MaxSize
      /\ \A s \in U, o \in A : score[o] > score[s] => score[o] < score[s] + MinGap
  <2> HIDE DEF lists
  <2>1. \E incumbents : LoopInv(score, incumbents, S \ incumbents, lists)
                          /\ incumbents \subseteq S /\ lists \in Lists(S)
    BY SelectInv DEF lists
  <2> QED
    BY <2>1 DEF LoopInv, Placed, ByMerit
<1>2. /\ again \in Lists(S)
      /\ again.unl \cap again.alternates = {} /\ again.unl \union again.alternates = S
  <2> HIDE DEF U
  <2>1. \E incumbents : LoopInv(score, incumbents, S \ incumbents, again)
                          /\ incumbents \subseteq S /\ again \in Lists(S)
    BY SelectInv
  <2> QED
    BY <2>1 DEF LoopInv, Placed
<1> HIDE DEF lists, again, after
<1>3. MaxSize \in Nat /\ MaxSize # 0 /\ MinGap \in Nat
  BY SelectionAssumption DEF SelectionAssumption
<1>4. Scored(score, U) /\ Scored(score, A) /\ IsFiniteSet(A) /\ N \in Nat
  <2>1. U \in SUBSET S /\ A \in SUBSET S
    BY <1>1
  <2>2. IsFiniteSet(U) /\ IsFiniteSet(A)
    BY <2>1, FS_Subset DEF Scored
  <2> QED
    BY <2>1, <2>2, FS_CardinalityType DEF Scored
<1>5. S # {} => U # {}
  BY <1>1, <1>3, FS_EmptySet
<1>6. again.unl = U /\ again.alternates = A => again = lists
  BY <1>1, <1>2 DEF Lists
<1>7. CASE U = {}
  BY <1>1, <1>2, <1>5, <1>6, <1>7
<1>8. CASE U # {}
  <2>1. Top(score, U, MaxSize) = U
    <3>1. Cardinality(Top(score, U, MaxSize)) = Cardinality(U)
      BY <1>1, <1>3, <1>4, TopSize, FS_CardinalityType DEF Scored
    <3>2. Top(score, U, MaxSize) \in SUBSET U
      BY DEF Top
    <3> QED
      BY <1>4, <3>1, <3>2, FS_Subset DEF Scored
  <2>2. again = after[N]
    <3>1. S \cap U = U /\ S \ U = A /\ U \ U = {}
      BY <1>1
    <3>2. again = Seating(score, [unl |-> Top(score, U, MaxSize),
                                  alternates |-> U \ Top(score, U, MaxSize)],
                          S \ U)[Cardinality(S \ U)]
      BY <1>8, <3>1 DEF again, SelectUnl
    <3> QED
      BY <2>1, <3>1, <3>2 DEF after
  <2>3. /\ after[0] = start
        /\ \A n \in 1..N : after[n] = Challenge(score, after[n - 1], Ranked(score, A, n))
    BY <1>4, SeatingSteps DEF after
  <2>4. Weakest(score, U) \in U
    BY <1>4, <1>8, WeakestExists
  <2> DEFINE Kept(n) == after[n].unl = U /\ DOMAIN after[n] = {"unl", "alternates"}
             T == {n \in 0..N : ~Kept(n)}
  <2>5. ASSUME NEW n \in 1..N, Kept(n - 1) PROVE Kept(n)
    <3> DEFINE v == Ranked(score, A, n)
               w == Weakest(score, U)
    <3>1. v \in A
      BY <1>4, RankedNext
    <3> HIDE DEF v, w
    <3>2. ~(score[v] >= score[w] + MinGap)
      <4>1. score[v] \in Int /\ score[w] \in Int /\ w \in U
        BY <1>4, <2>4, <3>1 DEF Scored, w
      <4>2. score[v] > score[w] => score[v] < score[w] + MinGap
        BY <1>1, <3>1, <4>1
      <4> QED
        BY <1>3, <4>1, <4>2
    <3>3. ~(Cardinality(U) < MaxSize)
      BY <1>1, <1>3, <3>1
    <3>4. after[n] = [after[n - 1] EXCEPT !.alternates = @ \union {v}]
      BY <2>3, <2>5, <3>2, <3>3 DEF Challenge, v, w
    <3> QED
      BY <2>5, <3>4
  <2>6. Kept(N)
    <3> SUFFICES ASSUME T # {} PROVE FALSE
      BY <1>4
    <3>1. PICK n \in T : \A k \in T : n <= k
      <4> HIDE DEF N, T
      <4>1. T \subseteq 0..N
        BY DEF T
      <4> QED
        BY <1>4, <4>1, LeastNumber
    <3> HIDE DEF N
    <3>2. CASE n = 0
      BY <2>3, <3>1, <3>2
    <3>3. CASE n # 0
      <4>1. n \in 1..N /\ n - 1 \in 0..N /\ n - 1 \notin T
        BY <1>4, <3>1, <3>3
      <4> QED
        BY <2>5, <3>1, <4>1
    <3> QED
      BY <3>2, <3>3
  <2>7. again.unl = U
    BY <2>2, <2>6
  <2>8. again.alternates = A
    BY <1>1, <1>2, <2>7
  <2> QED
    BY <1>6, <2>7, <2>8
<1> QED
  BY <1>7, <1>8

-----------------------------------------------------------------------------
(* From the places and the judgements to the scores.                       *)

\* A counted validator shares with itself at least.
LEMMA SharingCounts ==
  ASSUME NEW place, IsFiniteSet(DOMAIN place), NEW v \in DOMAIN place,
         NEW axis \in {"country", "provider"}
  PROVE  Sharing(place, v, axis) \in Counts \union {Unknown}
<1> DEFINE same == {w \in DOMAIN place : place[w][axis] = place[v][axis]}
<1>1. IsFiniteSet(same) /\ v \in same
  <2>1. same \in SUBSET (DOMAIN place)
    OBVIOUS
  <2> QED
    BY <2>1, FS_Subset
<1> HIDE DEF same
<1>2. Cardinality(same) \in Nat /\ Cardinality(same) # 0
  BY <1>1, FS_CardinalityType, FS_EmptySet
<1>3. Sharing(place, v, axis) = IF place[v][axis] = Unknown THEN Unknown ELSE Cardinality(same)
  BY DEF Sharing, same
<1> QED
  BY <1>2, <1>3 DEF Counts

\* Every score the pipeline computes is in range and gated by consensus.
LEMMA ScoresFacts ==
  ASSUME NEW place, IsFiniteSet(DOMAIN place), NEW judged \in [DOMAIN place -> Judgements]
  PROVE  LET score == FinalScores(judged, DiversityInputs(place)) IN
         /\ DOMAIN score = DOMAIN place
         /\ \A v \in DOMAIN place :
              /\ score[v] \in Points
              /\ \A cutoff \in Int :
                   cutoff <= score[v] => cutoff - ConsensusGateMargin <= judged[v].consensus
<1> DEFINE inputs == DiversityInputs(place)
           score == FinalScores(judged, inputs)
           points(v) == Diversity(inputs.counts[v].country, inputs.counts[v].provider,
                                  inputs.resolved)
<1>1. inputs.resolved \in Nat
  <2> DEFINE known == {v \in DOMAIN place : place[v].provider # Unknown}
  <2>1. known \in SUBSET (DOMAIN place)
    OBVIOUS
  <2> HIDE DEF known
  <2>2. Cardinality(known) \in Nat
    BY <2>1, FS_Subset, FS_CardinalityType
  <2> QED
    BY <2>2 DEF known, DiversityInputs, Resolved
<1>2. ASSUME NEW v \in DOMAIN place PROVE points(v) \in Points
  <2>1. /\ inputs.counts[v].country = Sharing(place, v, "country")
        /\ inputs.counts[v].provider = Sharing(place, v, "provider")
    BY DEF DiversityInputs
  <2>2. /\ Sharing(place, v, "country") \in Counts \union {Unknown}
        /\ Sharing(place, v, "provider") \in Counts \union {Unknown}
    BY SharingCounts
  <2> HIDE DEF inputs
  <2> QED
    BY <1>1, <2>1, <2>2, DiversityRange
<1>3. /\ DOMAIN score = DOMAIN place
      /\ \A v \in DOMAIN place : score[v] = FinalScore(judged[v], points(v))
  BY DEF FinalScores
<1> HIDE DEF points, score, inputs
<1>4. ASSUME NEW v \in DOMAIN place
      PROVE  /\ score[v] \in Points
             /\ \A cutoff \in Int :
                  cutoff <= score[v] => cutoff - ConsensusGateMargin <= judged[v].consensus
  <2>1. judged[v] \in Judgements
    OBVIOUS
  <2>2. FinalScore(judged[v], points(v)) \in Points
    BY <1>2, <2>1, FinalScoreRange
  <2>3. ASSUME NEW cutoff \in Int, cutoff <= FinalScore(judged[v], points(v))
        PROVE  cutoff - ConsensusGateMargin <= judged[v].consensus
    BY <1>2, <2>1, <2>3, FinalScoreGate
  <2> QED
    BY <1>3, <2>2, <2>3
<1> QED
  BY <1>3, <1>4 DEF score, inputs

\* Nobody more than the margin below the cutoff in consensus gets a seat or even
\* becomes an alternate, whatever the other judgements and the diversity are.
THEOREM ConsensusSeats ==
  ASSUME NEW place, IsFiniteSet(DOMAIN place), DOMAIN place \subseteq Nat,
         NEW judged \in [DOMAIN place -> Judgements], NEW previous
  PROVE  LET score == FinalScores(judged, DiversityInputs(place))
             lists == SelectUnl(score, previous)
         IN  \A v \in lists.unl \union lists.alternates :
               judged[v].consensus >= Cutoff - ConsensusGateMargin
<1> DEFINE score == FinalScores(judged, DiversityInputs(place))
           lists == SelectUnl(score, previous)
<1>1. /\ DOMAIN score = DOMAIN place
      /\ \A v \in DOMAIN place :
           /\ score[v] \in Points
           /\ \A cutoff \in Int :
                cutoff <= score[v] => cutoff - ConsensusGateMargin <= judged[v].consensus
  BY ScoresFacts
<1>2. Cutoff \in Int
  BY SelectionAssumption DEF SelectionAssumption
<1> HIDE DEF score
<1>3. Scored(score, Qualified(score))
  <2>1. Qualified(score) \in SUBSET (DOMAIN place)
    BY <1>1 DEF Qualified
  <2>2. IsFiniteSet(Qualified(score))
    BY <2>1, FS_Subset
  <2> QED
    BY <1>1, <2>1, <2>2 DEF Scored, Points
<1>4. lists.unl \union lists.alternates = Qualified(score)
  BY <1>3, SelectionByMerit
<1>5. ASSUME NEW v \in Qualified(score)
      PROVE  judged[v].consensus >= Cutoff - ConsensusGateMargin
  <2>1. v \in DOMAIN place /\ Cutoff <= score[v]
    BY <1>1, <1>2 DEF Qualified, Points
  <2>2. judged[v].consensus \in Int
    BY <2>1 DEF Judgements, Points
  <2> QED
    BY <1>1, <1>2, <2>1, <2>2 DEF ConsensusGateMargin
<1> QED
  BY <1>4, <1>5 DEF score
=============================================================================
