--------------------------- MODULE MCCommitReveal ---------------------------
(* An instance of CommitReveal for TLC: two answers that differ at every   *)
(* level, and a third the foundation may publish, which differs from the   *)
(* first in the selected UNL only.                                         *)
EXTENDS CommitReveal

MCLevels == {"RAW", "PARSED", "SELECTED_UNL"}
MCAcceptanceLevels == {"RAW", "PARSED"}
MCAnswers == {"a", "b", "c"}
MCHash ==
  [x \in MCAnswers |->
     [l \in MCLevels |-> IF x = "c" /\ l # "SELECTED_UNL" THEN "a" ELSE x]]

MCMemo(kind, signed, ours, answer, dated) ==
  [kind |-> kind, signed |-> signed, ours |-> ours, answer |-> answer,
   dated |-> dated]

MCMemos ==
  UNION {{MCMemo(k, TRUE, TRUE, "a", TRUE), MCMemo(k, TRUE, TRUE, "b", TRUE),
          MCMemo(k, FALSE, TRUE, "a", TRUE), MCMemo(k, TRUE, FALSE, "a", TRUE)}
         : k \in {"commit", "reveal"}}
=============================================================================
