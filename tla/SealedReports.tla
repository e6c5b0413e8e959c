---------------------------- MODULE SealedReports ----------------------------
(***************************************************************************)
(* What the service promises about convergence reports: a round is sealed  *)
(* once and for all, every memo that anchors a round names the report it   *)
(* was sealed with, and the database points at a memo that exists.         *)
(***************************************************************************)
EXTENDS Naturals

CONSTANTS Rounds, Contents

VARIABLES sealed,  \* sealed rounds
          report,  \* what each of them was sealed with
          memos,   \* <<round, content>> pairs anchored on the ledger
          marked   \* rounds whose anchor the database knows

vars == <<sealed, report, memos, marked>>

Init ==
  /\ sealed = {}
  /\ report \in [Rounds -> Contents]
  /\ memos = {}
  /\ marked = {}

Seal(r) ==
  /\ r \notin sealed
  /\ sealed' = sealed \cup {r}
  /\ \E c \in Contents : report' = [report EXCEPT ![r] = c]
  /\ UNCHANGED <<memos, marked>>

Anchor(r) ==
  /\ r \in sealed
  /\ memos' = memos \cup {<<r, report[r]>>}
  /\ UNCHANGED <<sealed, report, marked>>

Mark(r) ==
  /\ r \in sealed /\ <<r, report[r]>> \in memos
  /\ marked' = marked \cup {r}
  /\ UNCHANGED <<sealed, report, memos>>

Next == \E r \in Rounds : Seal(r) \/ Anchor(r) \/ Mark(r)

Spec == Init /\ [][Next]_vars

=============================================================================
