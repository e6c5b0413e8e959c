------------------------------ MODULE UnlSelection ------------------------------
(***************************************************************************)
(* services/unl_selector.py: who gets a seat, given the final scores and   *)
(* the previous UNL.  A master key is a number that stands for its place   *)
(* in the order of strings.  The two lists the code returns are sorted by  *)
(* rank, so a set says as much as a list does.                             *)
(***************************************************************************)
EXTENDS Integers, FiniteSets

CONSTANTS Cutoff,   \* unl_score_cutoff
          MaxSize,  \* unl_max_size
          MinGap    \* unl_min_score_gap

ASSUME SelectionAssumption ==
  /\ Cutoff \in Int
  /\ MaxSize \in Nat \ {0}
  /\ MinGap \in Nat

\* The rank every list is sorted by: (-score, master_key).
Better(score, v, w) ==
  \/ score[v] > score[w]
  \/ score[v] = score[w] /\ v < w

Qualified(score) == {v \in DOMAIN score : score[v] >= Cutoff}

\* Of S sorted by rank: what comes before v, the first n, and the n-th.
Ahead(score, S, v) == {w \in S : Better(score, w, v)}
Top(score, S, n) == {v \in S : Cardinality(Ahead(score, S, v)) < n}
Ranked(score, S, n) == CHOOSE v \in S : Cardinality(Ahead(score, S, v)) = n - 1

\* min(unl, key = (score, master_key)): among equal scores the smallest key,
\* which is the one ranked best of them.
Weakest(score, unl) ==
  CHOOSE w \in unl :
    \A v \in unl : score[w] < score[v] \/ (score[w] = score[v] /\ w <= v)

\* Faulty: the gap has to be exceeded, not reached.
ChallengeAboveGap(score, lists, v) ==
  LET weakest == Weakest(score, lists.unl)
  IN  IF Cardinality(lists.unl) < MaxSize THEN [lists EXCEPT !.unl = @ \union {v}]
      ELSE IF score[v] > score[weakest] + MinGap
      THEN [unl |-> (lists.unl \ {weakest}) \union {v},
            alternates |-> lists.alternates \union {weakest}]
      ELSE [lists EXCEPT !.alternates = @ \union {v}]

\* One round of the loop over the challengers: an open seat, or the seat of the
\* weakest member if the challenger leads by the gap.
Challenge(score, lists, v) ==
  LET weakest == Weakest(score, lists.unl)
  IN  IF Cardinality(lists.unl) < MaxSize THEN [lists EXCEPT !.unl = @ \union {v}]
      ELSE IF score[v] >= score[weakest] + MinGap
      THEN [unl |-> (lists.unl \ {weakest}) \union {v},
            alternates |-> lists.alternates \union {weakest}]
      ELSE [lists EXCEPT !.alternates = @ \union {v}]

\* The lists after each round of the loop, the best challenger first.
Seating(score, start, challengers) ==
  LET after[n \in 0..Cardinality(challengers)] ==
        IF n = 0 THEN start
        ELSE Challenge(score, after[n - 1], Ranked(score, challengers, n))
  IN  after

SelectUnl(score, previous) ==
  LET qualified == Qualified(score)
      incumbents == IF previous = {} THEN qualified ELSE qualified \cap previous
      seated == Top(score, incumbents, MaxSize)
      challengers == qualified \ incumbents
      lists == [unl |-> seated, alternates |-> incumbents \ seated]
  IN  Seating(score, lists, challengers)[Cardinality(challengers)]
=============================================================================
