---------------------------- MODULE CommitReveal ----------------------------
(***************************************************************************)
(* How the foundation judges one validator in one announced round:         *)
(* convergence_verification.classify_validator with the checks of          *)
(* commit_reveal.py.  Anyone may put commit and reveal memos on the ledger *)
(* in the validator's name, signed or not, at any time; the watcher stores *)
(* them in ledger order, with gaps where the node had pruned; a            *)
(* verification pass judges again whatever is stored by then.              *)
(*                                                                         *)
(* A memo's answer stands for its output hashes and salt.  A commitment    *)
(* hash is the answer it was computed from: the hash is injective.  A      *)
(* malformed payload fails every check, like an unsigned memo.             *)
(***************************************************************************)
EXTENDS Naturals, Sequences, FiniteSets

CONSTANTS Answers,        \* output hashes and salt of a submission
          Levels,         \* RAW, PARSED, SELECTED_UNL
          AcceptanceLevels,
          Hash,           \* Hash[a][l] is the hash of answer a at level l
          Memos,          \* what may be submitted in the validator's name
          Frozen, Emission, CommitWindow, RevealGap, RevealWindow,
          MaxMemos, MaxTime, \* bounds of the model
          None

CommitRevealAssumption ==
  /\ AcceptanceLevels \subseteq Levels
  /\ Memos \subseteq [kind : {"commit", "reveal"}, signed : BOOLEAN,
                      ours : BOOLEAN, answer : Answers, dated : BOOLEAN]
  /\ {Frozen, Emission, RevealGap, MaxMemos, MaxTime} \subseteq Nat
  /\ {CommitWindow, RevealWindow} \subseteq Nat \ {0}
  /\ None \notin Answers /\ None \notin Nat
ASSUME CommitRevealAssumption

\* Positions of the validator's memos follow (ledger_index, transaction_index).
VARIABLES clock,       \* close time of the latest validated ledger
          ledger,      \* the validator's memos on the ledger, in ledger order
          scanned,     \* how far the watcher has read
          stored,      \* positions in validator_commits and validator_reveals
          foundation,  \* verification_hashes.json of the round, None before it
          verdict,     \* the row of validator_round_outcomes
          judged       \* history: the scan the verdict rests on

vars == <<clock, ledger, scanned, stored, foundation, verdict, judged>>

-----------------------------------------------------------------------------
(* The windows of the announcement.                                        *)

CommitOpens  == IF Emission > Frozen THEN Emission ELSE Frozen
CommitCloses == CommitOpens + CommitWindow
RevealOpens  == CommitCloses + RevealGap
RevealCloses == RevealOpens + RevealWindow

\* Faulty: both ends of a window belong to it.
WithinClosed(t, opens, closes) == t # None /\ opens <= t /\ t <= closes

Within(t, opens, closes) == t # None /\ opens <= t /\ t < closes

-----------------------------------------------------------------------------
(* Classification of the stored memos.                                     *)

Outcomes == {"VALID", "DIVERGENT", "MISSING_REVEAL", "LATE",
             "ANNOUNCEMENT_MISMATCH", "COMMITMENT_MISMATCH",
             "SIGNATURE_INVALID"}

\* Faulty: the rows are taken newest first.
LastInLedger(S) ==
  IF S = {} THEN None ELSE CHOOSE n \in S : \A m \in S : m <= n

FirstInLedger(S) ==
  IF S = {} THEN None ELSE CHOOSE n \in S : \A m \in S : n <= m

Rows(kind) == {n \in stored : ledger[n].kind = kind}
SignedRows(kind) == {n \in Rows(kind) : ledger[n].signed}

InWindowCommits ==
  {n \in SignedRows("commit") : Within(ledger[n].time, CommitOpens, CommitCloses)}
ValidCommits == {n \in InWindowCommits : ledger[n].ours}
AcceptedCommit == FirstInLedger(ValidCommits)

InWindowReveals ==
  {n \in SignedRows("reveal") : Within(ledger[n].time, RevealOpens, RevealCloses)}
ValidReveals == {n \in InWindowReveals : ledger[n].ours}

\* reveal_matches_commit: same binding key, and the answer hashes to the
\* commitment.
RevealMatchesCommit(r, c) ==
  ledger[r].ours = ledger[c].ours /\ ledger[r].answer = ledger[c].answer

\* Faulty: the first valid reveal decides, whether it opens the commitment or
\* not.
FirstRevealOrNone(c) ==
  LET r == FirstInLedger(ValidReveals)
  IN IF r = None \/ ~RevealMatchesCommit(r, c) THEN None ELSE r

AcceptedReveal(c) ==
  FirstInLedger({r \in ValidReveals : RevealMatchesCommit(r, c)})

Conflicting(S) == Cardinality({ledger[n].answer : n \in S}) > 1

\* Levels whose hash equals the published one; none can be compared before the
\* foundation's hashes are public.
LevelsMatched(r) ==
  IF foundation = None THEN {}
  ELSE {l \in Levels : Hash[ledger[r].answer][l] = Hash[foundation][l]}

Divergent(r) == foundation # None /\ ~(AcceptanceLevels \subseteq LevelsMatched(r))

OutcomeWithoutCommit ==
  CASE SignedRows("commit") = {} -> "SIGNATURE_INVALID"
    [] SignedRows("commit") # {} /\ InWindowCommits # {} -> "ANNOUNCEMENT_MISMATCH"
    [] OTHER -> "LATE"

\* Faulty: a reveal after the window outranks a changed answer.
OutcomeLateFirst(c) ==
  IF \E r \in SignedRows("reveal") : RevealMatchesCommit(r, c) THEN "LATE"
  ELSE IF InWindowReveals # {} /\ ValidReveals = {} THEN "ANNOUNCEMENT_MISMATCH"
  ELSE IF \E r \in ValidReveals : ~RevealMatchesCommit(r, c) THEN "COMMITMENT_MISMATCH"
  ELSE "MISSING_REVEAL"

\* The strongest anomaly of a commit that nothing opened in time.
OutcomeWithoutReveal(c) ==
  IF InWindowReveals # {} /\ ValidReveals = {} THEN "ANNOUNCEMENT_MISMATCH"
  ELSE IF \E r \in ValidReveals : ~RevealMatchesCommit(r, c) THEN "COMMITMENT_MISMATCH"
  ELSE IF \E r \in Rows("reveal") : ~ledger[r].signed THEN "SIGNATURE_INVALID"
  ELSE IF \E r \in SignedRows("reveal") : RevealMatchesCommit(r, c) THEN "LATE"
  ELSE "MISSING_REVEAL"

Verdict(outcome, c, r, levels) ==
  [outcome |-> outcome, commit |-> c, reveal |-> r, levels |-> levels,
   conflictingCommit |-> Conflicting(ValidCommits),
   conflictingReveal |-> c # None /\ Conflicting(ValidReveals)]

ClassifyValidator ==
  LET c == AcceptedCommit
      r == AcceptedReveal(c)
  IN IF c = None THEN Verdict(OutcomeWithoutCommit, None, None, {})
     ELSE IF r = None THEN Verdict(OutcomeWithoutReveal(c), c, None, {})
     ELSE Verdict(IF Divergent(r) THEN "DIVERGENT" ELSE "VALID", c, r, LevelsMatched(r))

-----------------------------------------------------------------------------
(* Ledger, watcher and verification.                                       *)

Init ==
  /\ clock = 0
  /\ ledger = <<>>
  /\ scanned = 0
  /\ stored = {}
  /\ foundation = None
  /\ verdict = None
  /\ judged = 0

\* A ledger closes: consensus time moves on.
CloseLedger ==
  /\ clock < MaxTime
  /\ clock' = clock + 1
  /\ UNCHANGED <<ledger, scanned, stored, foundation, verdict, judged>>

\* A memo in the validator's name is validated.  An entry without a usable date
\* keeps no close time.
Submit(memo) ==
  /\ Len(ledger) < MaxMemos
  /\ ledger' = Append(ledger,
       [kind |-> memo.kind, signed |-> memo.signed, ours |-> memo.ours,
        answer |-> memo.answer, time |-> IF memo.dated THEN clock ELSE None])
  /\ UNCHANGED <<clock, scanned, stored, foundation, verdict, judged>>

\* Faulty: the memo is stored and the scan does not move on.
StoreInPlace(n) ==
  /\ n \in scanned + 1 .. Len(ledger)
  /\ stored' = stored \cup {n}
  /\ UNCHANGED <<clock, ledger, scanned, foundation, verdict, judged>>

\* The watcher stores the next memo it is given, past any the node has pruned.
Store(n) ==
  /\ n \in scanned + 1 .. Len(ledger)
  /\ scanned' = n
  /\ stored' = stored \cup {n}
  /\ UNCHANGED <<clock, ledger, foundation, verdict, judged>>

\* The foundation's round is published and its hashes become public.
PublishHashes(a) ==
  /\ foundation = None
  /\ foundation' = a
  /\ UNCHANGED <<clock, ledger, scanned, stored, verdict, judged>>

\* verify_round: a validator is judged once it has a stored commit.
VerifyRound ==
  /\ Rows("commit") # {}
  /\ verdict' = ClassifyValidator
  /\ judged' = scanned
  /\ UNCHANGED <<clock, ledger, scanned, stored, foundation>>

Next ==
  \/ CloseLedger
  \/ \E memo \in Memos : Submit(memo)
  \/ \E n \in 1 .. MaxMemos : Store(n)
  \/ \E a \in Answers : PublishHashes(a)
  \/ VerifyRound

Spec == Init /\ [][Next]_vars

-----------------------------------------------------------------------------
(* Properties.                                                             *)

Times == Nat \cup {None}
Memo == [kind : {"commit", "reveal"}, signed : BOOLEAN, ours : BOOLEAN,
         answer : Answers, time : Times]
VerdictType ==
  [outcome : Outcomes, commit : Nat \cup {None}, reveal : Nat \cup {None},
   levels : SUBSET Levels, conflictingCommit : BOOLEAN, conflictingReveal : BOOLEAN]

TypeOK ==
  /\ clock \in Nat
  /\ ledger \in Seq(Memo)
  /\ scanned \in Nat /\ scanned <= Len(ledger)
  /\ stored \subseteq 1 .. scanned
  /\ foundation \in Answers \cup {None}
  /\ verdict \in VerdictType \cup {None}
  /\ judged \in 0 .. scanned

Judged == verdict # None
Accepted == verdict.outcome \in {"VALID", "DIVERGENT"}

\* An accepted answer was fixed before anybody could see another one: its
\* commit is older on the ledger than every memo of the reveal window, the
\* stored reveal opens exactly that commit, and no earlier stored commit of the
\* window carried another answer.
AnswerFixedBeforeReveals ==
  (Judged /\ Accepted) =>
    LET c == verdict.commit
        r == verdict.reveal
    IN /\ c \in stored /\ r \in stored /\ c < r
       /\ ledger[c].answer = ledger[r].answer
       /\ \A n \in 1 .. Len(ledger) :
            (ledger[n].time # None /\ ledger[n].time >= RevealOpens) => c < n
       /\ \A n \in ValidCommits : n <= c => ledger[n].answer = ledger[c].answer

\* A validator that commits first thing in the window and opens that commit in
\* the reveal window is accepted, whatever else is put on the ledger in its
\* name before or after.
HonestIsAccepted ==
  \A c \in ValidCommits, r \in ValidReveals :
    ((\A d \in ValidCommits : c <= d) /\ RevealMatchesCommit(r, c))
      => ClassifyValidator.outcome \in {"VALID", "DIVERGENT"}

\* Later memos never displace what was accepted: passes over a growing table
\* keep the accepted commit and reveal, and an acceptance is never withdrawn; a
\* divergence, once proven by the published hashes, stays.
AcceptedIsFinal ==
  [][Judged =>
      /\ verdict.commit # None => verdict'.commit = verdict.commit
      /\ verdict.reveal # None => verdict'.reveal = verdict.reveal
      /\ Accepted => verdict'.outcome \in {"VALID", "DIVERGENT"}
      /\ verdict.outcome = "DIVERGENT" => verdict' = [verdict EXCEPT
            !.conflictingCommit = verdict'.conflictingCommit,
            !.conflictingReveal = verdict'.conflictingReveal]]_vars

\* Once the reveal window has closed and a verification has seen everything that
\* was sent before that, a judgement can no longer improve, and proof of a
\* changed answer or of a reveal for another announcement is never lost: memos
\* sent later only tell a late reveal or a badly signed one from none.
ClosedWindowIsFinal ==
  [][(/\ Judged /\ clock >= RevealCloses
      /\ \A n \in judged + 1 .. Len(ledger) :
            ledger[n].time # None => ledger[n].time >= RevealCloses) =>
      \/ verdict'.outcome = verdict.outcome
      \/ verdict.outcome = "VALID" /\ verdict'.outcome = "DIVERGENT"
      \/ /\ verdict.outcome \in {"MISSING_REVEAL", "LATE", "SIGNATURE_INVALID"}
         /\ verdict'.outcome \in {"LATE", "SIGNATURE_INVALID"}]_vars

=============================================================================
