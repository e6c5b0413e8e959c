------------------------- MODULE CommitRevealProofs -------------------------
(***************************************************************************)
(* Proofs about CommitReveal for every set of answers, every window and    *)
(* any number of memos.                                                    *)
(***************************************************************************)
EXTENDS CommitReveal, SequenceTheorems, TLAPS

\* What is put on the ledger later never closed earlier.
TimesOrdered ==
  \A n \in 1 .. Len(ledger) : ledger[n].time # None =>
    /\ ledger[n].time <= clock
    /\ \A m \in 1 .. n : ledger[m].time # None => ledger[m].time <= ledger[n].time

\* The reveals that open commit c.
Opening(c) == {r \in ValidReveals : RevealMatchesCommit(r, c)}

\* What a verdict accepted is still what the stored rows select.
Kept ==
  Judged =>
    /\ verdict.commit # None => ValidCommits # {} /\ verdict.commit = AcceptedCommit
    /\ verdict.reveal # None =>
         /\ verdict.commit # None
         /\ Opening(verdict.commit) # {}
         /\ verdict.reveal = AcceptedReveal(verdict.commit)
    /\ Accepted <=> verdict.reveal # None
    /\ verdict.outcome = "DIVERGENT" =>
         Divergent(verdict.reveal) /\ verdict.levels = LevelsMatched(verdict.reveal)

\* Every set of stored rows has an oldest one (rows arrive in ledger order).
HasFirst(S) == S # {} => \E n \in S : \A m \in S : n <= m
RowsOrdered == \A S \in SUBSET stored : HasFirst(S)

IInv == TypeOK /\ RowsOrdered /\ TimesOrdered /\ Kept

-----------------------------------------------------------------------------
(* Windows and ledger order.                                               *)

\* compute_round_windows: whatever the configured durations, the commit window
\* opens before it closes and is over when the reveal window opens.
THEOREM WindowsOrdered ==
  /\ {CommitOpens, CommitCloses, RevealOpens, RevealCloses} \subseteq Nat
  /\ CommitOpens < CommitCloses /\ CommitCloses <= RevealOpens
  /\ RevealOpens < RevealCloses
BY CommitRevealAssumption DEF CommitRevealAssumption, CommitOpens, CommitCloses,
   RevealOpens, RevealCloses

\* The first row of a set of ledger positions precedes the others.
LEMMA FirstExists ==
  ASSUME NEW S \in SUBSET Nat, S # {}, HasFirst(S)
  PROVE  /\ FirstInLedger(S) \in S
         /\ \A m \in S : FirstInLedger(S) <= m
         /\ FirstInLedger(S) # None
<1> DEFINE c == CHOOSE n \in S : \A m \in S : n <= m
<1>1. FirstInLedger(S) = c
  BY DEF FirstInLedger
<1>2. c \in S /\ \A m \in S : c <= m
  BY DEF HasFirst
<1> QED BY <1>1, <1>2, CommitRevealAssumption DEF CommitRevealAssumption

\* Only the empty set has no first row.
LEMMA FirstNone ==
  ASSUME NEW S \in SUBSET Nat, HasFirst(S)
  PROVE  (FirstInLedger(S) = None) <=> (S = {})
BY FirstExists DEF FirstInLedger

\* A later row does not become the first.
LEMMA FirstStays ==
  ASSUME NEW S \in SUBSET Nat, S # {}, HasFirst(S), NEW T \in SUBSET Nat,
         S \subseteq T, \A n \in T \ S : \A m \in S : m < n
  PROVE  FirstInLedger(T) = FirstInLedger(S)
<1>1. /\ FirstInLedger(S) \in S
      /\ \A m \in S : FirstInLedger(S) <= m
  BY FirstExists
<1>2. T # {}
  BY <1>1
<1>3. HasFirst(T)
  BY <1>1 DEF HasFirst
<1>4. /\ FirstInLedger(T) \in T
      /\ \A m \in T : FirstInLedger(T) <= m
  BY <1>2, <1>3, FirstExists
<1> DEFINE a == FirstInLedger(S)
           b == FirstInLedger(T)
<1>5. a \in S /\ a \in T /\ b \in T /\ b <= a /\ a \in Nat /\ b \in Nat
  BY <1>1, <1>4
<1>6. b \in S => a <= b
  BY <1>1
<1>7. b \notin S => a < b
  BY <1>5
<1> HIDE DEF a, b
<1>8. a = b
  BY <1>5, <1>6, <1>7
<1> QED BY <1>8 DEF a, b

\* Classified rows are stored positions.
LEMMA RowSets ==
  ASSUME TypeOK, RowsOrdered
  PROVE  /\ ValidCommits \in SUBSET Nat /\ ValidReveals \in SUBSET Nat
         /\ ValidCommits \subseteq stored /\ ValidReveals \subseteq stored
         /\ \A c : Opening(c) \in SUBSET Nat /\ Opening(c) \subseteq stored
         /\ \A c : AcceptedReveal(c) = FirstInLedger(Opening(c))
         /\ HasFirst(ValidCommits) /\ \A c : HasFirst(Opening(c))
<1>1. stored \in SUBSET Nat
  BY DEF TypeOK
<1>2. ValidCommits \subseteq stored /\ ValidReveals \subseteq stored
  BY DEF ValidCommits, ValidReveals, InWindowCommits, InWindowReveals, SignedRows, Rows
<1>3. \A c : Opening(c) \subseteq stored
  BY <1>2 DEF Opening
<1>4. \A c : AcceptedReveal(c) = FirstInLedger(Opening(c))
  BY DEF AcceptedReveal, Opening
<1> QED BY <1>1, <1>2, <1>3, <1>4 DEF RowsOrdered

-----------------------------------------------------------------------------
(* Types.                                                                  *)

LEMMA ClassifyType ==
  ASSUME TypeOK, RowsOrdered
  PROVE  ClassifyValidator \in VerdictType
<1>1. /\ AcceptedCommit \in Nat \cup {None}
      /\ \A c : AcceptedReveal(c) \in Nat \cup {None}
  BY RowSets, FirstExists, FirstNone DEF AcceptedCommit
<1>2. \A r : LevelsMatched(r) \in SUBSET Levels
  BY DEF LevelsMatched
<1>3. \A c : OutcomeWithoutReveal(c) \in Outcomes
  BY DEF OutcomeWithoutReveal, Outcomes
<1>4. OutcomeWithoutCommit \in Outcomes
  BY DEF OutcomeWithoutCommit, Outcomes
<1>5. \A S : Conflicting(S) \in BOOLEAN
  BY DEF Conflicting
<1>6. \A c : (c # None /\ Conflicting(ValidReveals)) \in BOOLEAN
  BY <1>5
<1>7. \A o \in Outcomes, c \in Nat \cup {None}, r \in Nat \cup {None}, l \in SUBSET Levels :
        Verdict(o, c, r, l) \in VerdictType
  BY <1>5, <1>6 DEF Verdict, VerdictType
<1>8. "VALID" \in Outcomes /\ "DIVERGENT" \in Outcomes
  BY DEF Outcomes
<1> DEFINE c == AcceptedCommit
           r == AcceptedReveal(c)
<1>9. ClassifyValidator =
        IF c = None THEN Verdict(OutcomeWithoutCommit, None, None, {})
        ELSE IF r = None THEN Verdict(OutcomeWithoutReveal(c), c, None, {})
        ELSE Verdict(IF Divergent(r) THEN "DIVERGENT" ELSE "VALID", c, r, LevelsMatched(r))
  BY DEF ClassifyValidator
<1> HIDE DEF c, r
<1>10. c \in Nat \cup {None} /\ r \in Nat \cup {None}
  BY <1>1 DEF c, r
<1>11. CASE c = None
  BY <1>4, <1>7, <1>9, <1>11, <1>10
<1>12. CASE c # None /\ r = None
  BY <1>3, <1>7, <1>9, <1>10, <1>12
<1>13. CASE c # None /\ r # None
  BY <1>2, <1>7, <1>8, <1>9, <1>10, <1>13
<1> QED BY <1>11, <1>12, <1>13

LEMMA TypeInductive == TypeOK /\ RowsOrdered /\ [Next]_vars => TypeOK'
<1> SUFFICES ASSUME TypeOK, RowsOrdered, [Next]_vars PROVE TypeOK'
  OBVIOUS
<1> USE CommitRevealAssumption DEF CommitRevealAssumption, TypeOK
<1>1. CASE CloseLedger
  BY <1>1 DEF CloseLedger
<1>2. ASSUME NEW memo \in Memos, Submit(memo) PROVE TypeOK'
  <2>1. memo \in [kind : {"commit", "reveal"}, signed : BOOLEAN,
                  ours : BOOLEAN, answer : Answers, dated : BOOLEAN]
    OBVIOUS
  <2> DEFINE e == [kind |-> memo.kind, signed |-> memo.signed, ours |-> memo.ours,
                   answer |-> memo.answer, time |-> IF memo.dated THEN clock ELSE None]
  <2>2. e \in Memo
    BY <2>1 DEF Memo, Times
  <2>3. ledger' = Append(ledger, e)
    BY <1>2 DEF Submit
  <2> HIDE DEF e
  <2>4. ledger' \in Seq(Memo) /\ Len(ledger') = Len(ledger) + 1
    BY <2>2, <2>3
  <2>5. Len(ledger) \in Nat
    OBVIOUS
  <2> QED BY <2>4, <2>5, <1>2 DEF Submit
<1>3. ASSUME NEW n \in 1 .. MaxMemos, Store(n) PROVE TypeOK'
  BY <1>3 DEF Store
<1>4. ASSUME NEW a \in Answers, PublishHashes(a) PROVE TypeOK'
  BY <1>4 DEF PublishHashes
<1>5. CASE VerifyRound
  BY <1>5, ClassifyType DEF VerifyRound
<1>6. CASE UNCHANGED vars
  BY <1>6 DEF vars
<1> QED BY <1>1, <1>2, <1>3, <1>4, <1>5, <1>6 DEF Next

LEMMA RowsOrderedInductive == TypeOK /\ RowsOrdered /\ [Next]_vars => RowsOrdered'
<1> SUFFICES ASSUME TypeOK, RowsOrdered, [Next]_vars PROVE RowsOrdered'
  OBVIOUS
<1>1. CASE UNCHANGED stored
  BY <1>1 DEF RowsOrdered
<1>2. ASSUME NEW n \in 1 .. MaxMemos, Store(n) PROVE RowsOrdered'
  <2> SUFFICES ASSUME NEW S \in SUBSET stored', S # {}
               PROVE  \E k \in S : \A m \in S : k <= m
    BY DEF RowsOrdered, HasFirst
  <2>1. n \in Nat /\ stored' = stored \cup {n} /\ \A m \in stored : m \in Nat /\ m < n
    BY <1>2 DEF Store, TypeOK
  <2>2. CASE S \ {n} = {}
    BY <2>1, <2>2
  <2>3. CASE S \ {n} # {}
    <3>1. PICK k \in S \ {n} : \A m \in S \ {n} : k <= m
      BY <2>1, <2>3 DEF RowsOrdered, HasFirst
    <3> QED BY <2>1, <3>1
  <2> QED BY <2>2, <2>3
<1> QED BY <1>1, <1>2 DEF Next, vars, CloseLedger, Submit, PublishHashes, VerifyRound

\* Clock, ledger, scan and verdict keep their types, and only scanned positions
\* are stored.
THEOREM TypeCorrect == Spec => []TypeOK
<1>1. Init => TypeOK /\ RowsOrdered
  BY CommitRevealAssumption DEF Init, TypeOK, RowsOrdered, HasFirst, CommitRevealAssumption
<1> QED BY <1>1, TypeInductive, RowsOrderedInductive, PTL DEF Spec

-----------------------------------------------------------------------------
(* Order of the ledger.                                                    *)

LEMMA TimesInductive == TypeOK /\ TimesOrdered /\ [Next]_vars => TimesOrdered'
<1> SUFFICES ASSUME TypeOK, TimesOrdered, [Next]_vars PROVE TimesOrdered'
  OBVIOUS
<1>0. ASSUME NEW n \in 1 .. Len(ledger) PROVE ledger[n].time \in Nat \cup {None}
  <2>1. ledger[n] \in Memo
    BY DEF TypeOK
  <2> QED BY <2>1 DEF Memo, Times
<1>1. CASE CloseLedger
  BY <1>0, <1>1 DEF CloseLedger, TimesOrdered, TypeOK
<1>2. ASSUME NEW memo \in Memos, Submit(memo) PROVE TimesOrdered'
  <2> DEFINE e == [kind |-> memo.kind, signed |-> memo.signed, ours |-> memo.ours,
                   answer |-> memo.answer, time |-> IF memo.dated THEN clock ELSE None]
  <2>1. e.time = clock \/ e.time = None
    OBVIOUS
  <2>2. ledger' = Append(ledger, e) /\ clock' = clock
    BY <1>2 DEF Submit
  <2> HIDE DEF e
  <2>3. /\ Len(ledger) \in Nat /\ Len(ledger') = Len(ledger) + 1
        /\ ledger'[Len(ledger) + 1] = e
        /\ \A n \in 1 .. Len(ledger) : ledger'[n] = ledger[n]
    BY <2>2 DEF TypeOK
  <2>4. ASSUME NEW n \in 1 .. Len(ledger') PROVE n \in 1 .. Len(ledger) \/ n = Len(ledger) + 1
    BY <2>3
  <2>5. clock \in Nat
    BY DEF TypeOK
  <2>6. ASSUME NEW n \in 1 .. Len(ledger'), ledger'[n].time # None
        PROVE  ledger'[n].time <= clock
    BY <1>0, <2>1, <2>3, <2>4, <2>5, <2>6 DEF TimesOrdered
  <2>7. ASSUME NEW n \in 1 .. Len(ledger'), ledger'[n].time # None,
               NEW m \in 1 .. n, ledger'[m].time # None
        PROVE  ledger'[m].time <= ledger'[n].time
    <3>1. CASE n \in 1 .. Len(ledger)
      BY <2>3, <2>7, <3>1 DEF TimesOrdered
    <3>2. CASE n = Len(ledger) + 1
      BY <2>1, <2>3, <2>6, <2>7, <3>2
    <3> QED BY <2>4, <3>1, <3>2
  <2> QED BY <2>2, <2>6, <2>7 DEF TimesOrdered
<1> QED BY <1>1, <1>2 DEF Next, vars, TimesOrdered, Store, PublishHashes, VerifyRound

-----------------------------------------------------------------------------
(* What is accepted stays accepted.                                        *)

\* A classification that accepted something says which rows it chose.
LEMMA ClassifySelects ==
  ASSUME TypeOK, RowsOrdered
  PROVE  LET v == ClassifyValidator
         IN /\ v.commit = AcceptedCommit
            /\ v.reveal # None =>
                 v.commit # None /\ v.reveal = AcceptedReveal(v.commit)
            /\ v.commit # None => v.reveal = AcceptedReveal(v.commit)
            /\ v.outcome \in {"VALID", "DIVERGENT"} <=> v.reveal # None
            /\ v.reveal # None =>
                 /\ v.levels = LevelsMatched(v.reveal)
                 /\ v.outcome = "DIVERGENT" <=> Divergent(v.reveal)
<1> DEFINE c == AcceptedCommit
           r == AcceptedReveal(c)
           ok == {"VALID", "DIVERGENT"}
<1>1. \A x : OutcomeWithoutReveal(x) \notin ok
  BY DEF OutcomeWithoutReveal
<1>2. OutcomeWithoutCommit \notin ok
  BY DEF OutcomeWithoutCommit
<1>3. ClassifyValidator =
        IF c = None THEN Verdict(OutcomeWithoutCommit, None, None, {})
        ELSE IF r = None THEN Verdict(OutcomeWithoutReveal(c), c, None, {})
        ELSE Verdict(IF Divergent(r) THEN "DIVERGENT" ELSE "VALID", c, r, LevelsMatched(r))
  BY DEF ClassifyValidator
<1>4. \A o, x, y, l : /\ Verdict(o, x, y, l).outcome = o /\ Verdict(o, x, y, l).commit = x
                      /\ Verdict(o, x, y, l).reveal = y /\ Verdict(o, x, y, l).levels = l
  BY DEF Verdict
<1>5. r = AcceptedReveal(c) /\ c = AcceptedCommit
  OBVIOUS
<1> HIDE DEF c, r
<1>6. CASE c = None
  BY <1>2, <1>3, <1>4, <1>5, <1>6
<1>7. CASE c # None /\ r = None
  <2>1. ClassifyValidator = Verdict(OutcomeWithoutReveal(c), c, None, {})
    BY <1>3, <1>7
  <2> DEFINE v == Verdict(OutcomeWithoutReveal(c), c, None, {})
  <2>2. v.commit = c /\ v.reveal = None /\ v.outcome \notin ok
    BY <1>1, <1>4
  <2> HIDE DEF v
  <2> QED BY <1>5, <1>7, <2>1, <2>2 DEF v
<1>8. CASE c # None /\ r # None
  BY <1>3, <1>4, <1>5, <1>8
<1> QED BY <1>6, <1>7, <1>8

\* Rows that are neither added nor rewritten are classified the same.
LEMMA RowsUnchanged ==
  ASSUME TypeOK, stored' = stored, \A n \in stored : ledger'[n] = ledger[n]
  PROVE  /\ ValidCommits' = ValidCommits
         /\ \A c \in stored : Opening(c)' = Opening(c)
<1>1. \A k : Rows(k)' = Rows(k)
  BY DEF Rows
<1>2. \A k : SignedRows(k)' = SignedRows(k) /\ SignedRows(k) \subseteq stored
  BY <1>1 DEF SignedRows, Rows
<1>3. /\ CommitOpens' = CommitOpens /\ CommitCloses' = CommitCloses
      /\ RevealOpens' = RevealOpens /\ RevealCloses' = RevealCloses
  BY DEF CommitOpens, CommitCloses, RevealOpens, RevealCloses
<1>4. /\ InWindowCommits' = InWindowCommits /\ InWindowCommits \subseteq stored
      /\ InWindowReveals' = InWindowReveals /\ InWindowReveals \subseteq stored
  BY <1>2, <1>3 DEF InWindowCommits, InWindowReveals, Within
<1>5. /\ ValidCommits' = ValidCommits
      /\ ValidReveals' = ValidReveals /\ ValidReveals \subseteq stored
  BY <1>4 DEF ValidCommits, ValidReveals
<1> QED BY <1>5 DEF Opening, RevealMatchesCommit

\* A stored memo comes after all rows and takes nothing out of a selection.
LEMMA RowsAppended ==
  ASSUME TypeOK, NEW n \in 1 .. MaxMemos, Store(n)
  PROVE  /\ \A m \in stored : m < n
         /\ ValidCommits \subseteq ValidCommits'
         /\ ValidCommits' \subseteq ValidCommits \cup {n}
         /\ \A c : Opening(c) \subseteq Opening(c)'
                  /\ Opening(c)' \subseteq Opening(c) \cup {n}
<1>1. ledger' = ledger /\ stored' = stored \cup {n} /\ \A m \in stored : m < n
  BY DEF Store, TypeOK
<1>2. \A k : SignedRows(k) \subseteq SignedRows(k)' /\ SignedRows(k)' \subseteq SignedRows(k) \cup {n}
  BY <1>1 DEF SignedRows, Rows
<1>3. /\ InWindowCommits \subseteq InWindowCommits'
      /\ InWindowCommits' \subseteq InWindowCommits \cup {n}
      /\ InWindowReveals \subseteq InWindowReveals'
      /\ InWindowReveals' \subseteq InWindowReveals \cup {n}
  BY <1>1, <1>2 DEF InWindowCommits, InWindowReveals, Within, CommitOpens, CommitCloses,
     RevealOpens, RevealCloses
<1>4. /\ ValidCommits \subseteq ValidCommits'
      /\ ValidCommits' \subseteq ValidCommits \cup {n}
      /\ ValidReveals \subseteq ValidReveals'
      /\ ValidReveals' \subseteq ValidReveals \cup {n}
  BY <1>1, <1>3 DEF ValidCommits, ValidReveals
<1> QED BY <1>1, <1>4 DEF Opening, RevealMatchesCommit

LEMMA KeptInductive == IInv /\ [Next]_vars => Kept'
<1> SUFFICES ASSUME IInv, [Next]_vars PROVE Kept'
  OBVIOUS
<1>0. TypeOK /\ RowsOrdered /\ Kept /\ TypeOK' /\ RowsOrdered'
  BY TypeInductive, RowsOrderedInductive DEF IInv
<1>1. CASE VerifyRound
  <2>1. verdict' = ClassifyValidator /\ UNCHANGED <<clock, ledger, scanned, stored, foundation>>
    BY <1>1 DEF VerifyRound
  <2>2. /\ ValidCommits' = ValidCommits /\ \A c : Opening(c)' = Opening(c)
        /\ AcceptedCommit' = AcceptedCommit /\ \A c : AcceptedReveal(c)' = AcceptedReveal(c)
        /\ \A r : LevelsMatched(r)' = LevelsMatched(r) /\ Divergent(r)' = Divergent(r)
    BY <2>1 DEF ValidCommits, InWindowCommits, ValidReveals, InWindowReveals, SignedRows,
       Rows, Opening, RevealMatchesCommit, AcceptedCommit, AcceptedReveal, FirstInLedger,
       LevelsMatched, Divergent, Within, CommitOpens, CommitCloses, RevealOpens, RevealCloses
  <2> DEFINE v == ClassifyValidator
  <2>3. /\ v.commit = AcceptedCommit
        /\ v.reveal # None => v.commit # None /\ v.reveal = AcceptedReveal(v.commit)
        /\ v.outcome \in {"VALID", "DIVERGENT"} <=> v.reveal # None
        /\ v.reveal # None => /\ v.levels = LevelsMatched(v.reveal)
                              /\ v.outcome = "DIVERGENT" <=> Divergent(v.reveal)
    BY <1>0, ClassifySelects
  <2>4. v.commit # None => ValidCommits # {}
    BY <1>0, <2>3, RowSets, FirstNone DEF AcceptedCommit
  <2>5. v.reveal # None => Opening(v.commit) # {}
    BY <1>0, <2>3, RowSets, FirstNone
  <2>6. verdict' = v
    BY <2>1
  <2> HIDE DEF v
  <2> QED BY <2>2, <2>3, <2>4, <2>5, <2>6 DEF Kept, Accepted
<1>2. ASSUME UNCHANGED <<stored, verdict>>, \A n \in stored : ledger'[n] = ledger[n],
             UNCHANGED foundation \/ foundation = None
      PROVE  Kept'
  <2>1. /\ ValidCommits' = ValidCommits /\ \A c \in stored : Opening(c)' = Opening(c)
    BY <1>0, <1>2, RowsUnchanged
  <2>2. AcceptedCommit' = AcceptedCommit /\ \A c \in stored : AcceptedReveal(c)' = AcceptedReveal(c)
    <3>1. \A c : AcceptedReveal(c)' = FirstInLedger(Opening(c)')
      BY DEF AcceptedReveal, Opening
    <3>2. \A c : AcceptedReveal(c) = FirstInLedger(Opening(c))
      BY DEF AcceptedReveal, Opening
    <3>3. AcceptedCommit' = AcceptedCommit
      BY <2>1 DEF AcceptedCommit
    <3> QED BY <2>1, <3>1, <3>2, <3>3
  <2>3. \A r \in stored : foundation # None =>
          LevelsMatched(r)' = LevelsMatched(r) /\ Divergent(r)' = Divergent(r)
    BY <1>2 DEF LevelsMatched, Divergent
  <2>4. (Judged /\ verdict.commit # None) => verdict.commit \in stored
    BY <1>0, RowSets, FirstExists DEF Kept, AcceptedCommit
  <2>5. (Judged /\ verdict.reveal # None) => verdict.reveal \in stored
    BY <1>0, RowSets, FirstExists DEF Kept
  <2>6. (Judged /\ verdict.outcome = "DIVERGENT") => verdict.reveal # None /\ foundation # None
    BY <1>0 DEF Kept, Divergent, Accepted
  <2> QED BY <1>0, <1>2, <2>1, <2>2, <2>3, <2>4, <2>5, <2>6 DEF Kept, Judged, Accepted
<1>3. CASE CloseLedger
  BY <1>2, <1>3 DEF CloseLedger
<1>4. ASSUME NEW memo \in Memos, Submit(memo) PROVE Kept'
  <2>1. \A n \in stored : ledger'[n] = ledger[n]
    BY <1>0, <1>4 DEF Submit, TypeOK
  <2> QED BY <1>2, <1>4, <2>1 DEF Submit
<1>5. ASSUME NEW a \in Answers, PublishHashes(a) PROVE Kept'
  BY <1>2, <1>5 DEF PublishHashes
<1>6. ASSUME NEW n \in 1 .. MaxMemos, Store(n) PROVE Kept'
  <2>0. n \in Nat
    BY CommitRevealAssumption DEF CommitRevealAssumption
  <2>1. /\ \A m \in stored : m < n
        /\ ValidCommits \subseteq ValidCommits'
        /\ ValidCommits' \subseteq ValidCommits \cup {n}
        /\ \A c : Opening(c) \subseteq Opening(c)' /\ Opening(c)' \subseteq Opening(c) \cup {n}
    BY <1>0, <1>6, RowsAppended
  <2>2. UNCHANGED <<ledger, foundation, verdict>>
    BY <1>6 DEF Store
  <2>3. ValidCommits # {} => AcceptedCommit' = AcceptedCommit
    <3>1. /\ ValidCommits \in SUBSET Nat /\ ValidCommits \subseteq stored /\ HasFirst(ValidCommits)
          /\ ValidCommits' \in SUBSET Nat
      BY <1>0, <2>0, <2>1, RowSets
    <3> QED BY <2>1, <3>1, FirstStays DEF AcceptedCommit, FirstInLedger
  <2>4. ASSUME NEW c, Opening(c) # {} PROVE Opening(c)' # {} /\ AcceptedReveal(c)' = AcceptedReveal(c)
    <3>1. /\ Opening(c) \in SUBSET Nat /\ Opening(c) \subseteq stored /\ HasFirst(Opening(c))
          /\ Opening(c)' \in SUBSET Nat
      BY <1>0, <2>0, <2>1, RowSets
    <3>2. FirstInLedger(Opening(c)') = FirstInLedger(Opening(c))
      BY <2>1, <2>4, <3>1, FirstStays
    <3> QED BY <2>1, <2>4, <3>2 DEF AcceptedReveal, Opening, FirstInLedger
  <2>5. \A r : LevelsMatched(r)' = LevelsMatched(r) /\ Divergent(r)' = Divergent(r)
    BY <2>2 DEF LevelsMatched, Divergent
  <2>6. ValidCommits # {} => ValidCommits' # {}
    BY <2>1
  <2> QED BY <1>0, <2>2, <2>3, <2>4, <2>5, <2>6 DEF Kept, Judged, Accepted
<1>7. CASE UNCHANGED vars
  BY <1>2, <1>7 DEF vars
<1> QED BY <1>1, <1>3, <1>4, <1>5, <1>6, <1>7 DEF Next

THEOREM Invariance == Spec => []IInv
<1>1. Init => IInv
  BY CommitRevealAssumption DEF Init, IInv, TypeOK, RowsOrdered, HasFirst, TimesOrdered,
     Kept, Judged, CommitRevealAssumption
<1>2. IInv /\ [Next]_vars => IInv'
  BY TypeInductive, RowsOrderedInductive, TimesInductive, KeptInductive DEF IInv
<1> QED BY <1>1, <1>2, PTL DEF Spec

LEMMA FixedBefore == IInv => AnswerFixedBeforeReveals
<1> SUFFICES ASSUME IInv, Judged, Accepted PROVE AnswerFixedBeforeReveals
  BY DEF AnswerFixedBeforeReveals
<1> DEFINE c == verdict.commit
           r == verdict.reveal
<1>0. TypeOK /\ RowsOrdered /\ TimesOrdered /\ Kept
  BY DEF IInv
<1>1. /\ c # None /\ c = AcceptedCommit /\ ValidCommits # {}
      /\ r = AcceptedReveal(c) /\ Opening(c) # {}
  BY <1>0, CommitRevealAssumption DEF Kept
<1>2. c \in ValidCommits /\ \A n \in ValidCommits : c <= n
  BY <1>0, <1>1, RowSets, FirstExists DEF AcceptedCommit
<1>3. r \in Opening(c)
  BY <1>0, <1>1, RowSets, FirstExists
<1>4. c \in stored /\ r \in stored /\ stored \subseteq 1 .. Len(ledger) /\ Len(ledger) \in Nat
  BY <1>0, <1>2, <1>3, RowSets DEF TypeOK
<1>5. /\ ledger[c].time # None /\ ledger[c].time < CommitCloses
      /\ ledger[r].time # None /\ RevealOpens <= ledger[r].time
      /\ ledger[r].answer = ledger[c].answer
  BY <1>2, <1>3 DEF ValidCommits, InWindowCommits, Opening, ValidReveals, InWindowReveals,
     Within, RevealMatchesCommit
<1>6. \A n \in 1 .. Len(ledger) : ledger[n].time \in Nat \cup {None}
  <2>1. \A n \in 1 .. Len(ledger) : ledger[n] \in Memo
    BY <1>0 DEF TypeOK
  <2> QED BY <2>1 DEF Memo, Times
<1> HIDE DEF c, r
<1>7. ASSUME NEW n \in 1 .. Len(ledger), ledger[n].time # None, ledger[n].time >= RevealOpens
      PROVE  c < n
  <2>1. SUFFICES ASSUME n \in 1 .. c PROVE FALSE
    BY <1>4
  <2>2. ledger[n].time <= ledger[c].time
    BY <1>0, <1>4, <1>5, <1>7, <2>1 DEF TimesOrdered
  <2> QED BY <1>4, <1>5, <1>6, <1>7, <2>2, WindowsOrdered
<1>8. c < r
  BY <1>4, <1>5, <1>6, <1>7, WindowsOrdered
<1>9. \A n \in ValidCommits : n <= c => n = c
  BY <1>0, <1>2, <1>4, RowSets
<1> QED BY <1>4, <1>5, <1>7, <1>8, <1>9 DEF AnswerFixedBeforeReveals, c, r

\* An accepted answer was on the ledger, as a commitment, before the first memo
\* of the reveal window.
THEOREM AnswerFixed == Spec => []AnswerFixedBeforeReveals
BY Invariance, FixedBefore, PTL

LEMMA Honest == IInv => HonestIsAccepted
<1> SUFFICES ASSUME IInv, NEW c \in ValidCommits, NEW r \in ValidReveals,
                    \A d \in ValidCommits : c <= d, RevealMatchesCommit(r, c)
             PROVE  ClassifyValidator.outcome \in {"VALID", "DIVERGENT"}
  BY DEF HonestIsAccepted
<1>0. TypeOK /\ RowsOrdered
  BY DEF IInv
<1>1. /\ ValidCommits \in SUBSET Nat /\ HasFirst(ValidCommits)
      /\ Opening(c) \in SUBSET Nat /\ HasFirst(Opening(c))
      /\ AcceptedReveal(c) = FirstInLedger(Opening(c))
  BY <1>0, RowSets
<1>2. AcceptedCommit = c
  <2>1. /\ FirstInLedger(ValidCommits) \in ValidCommits
        /\ \A m \in ValidCommits : FirstInLedger(ValidCommits) <= m
    BY <1>1, FirstExists
  <2> DEFINE f == FirstInLedger(ValidCommits)
  <2>2. f \in Nat /\ c \in Nat /\ f <= c /\ c <= f
    BY <1>1, <2>1
  <2> HIDE DEF f
  <2>3. f = c
    BY <2>2
  <2> QED BY <2>3 DEF AcceptedCommit, f
<1>3. c # None
  BY <1>1, CommitRevealAssumption DEF CommitRevealAssumption
<1>4. r \in Opening(c)
  BY DEF Opening
<1>5. AcceptedReveal(c) # None
  BY <1>1, <1>4, FirstExists
<1> DEFINE v == ClassifyValidator
<1>6. v.commit = c /\ (v.commit # None => v.reveal = AcceptedReveal(v.commit))
  BY <1>0, <1>2, ClassifySelects
<1>7. v.outcome \in {"VALID", "DIVERGENT"} <=> v.reveal # None
  BY <1>0, ClassifySelects
<1> HIDE DEF v
<1>8. v.outcome \in {"VALID", "DIVERGENT"}
  BY <1>3, <1>5, <1>6, <1>7
<1> QED BY <1>8 DEF v

\* A validator that commits first and opens that commit in time is accepted
\* whatever else bears its name.
THEOREM HonestAccepted == Spec => []HonestIsAccepted
BY Invariance, Honest, PTL

\* Later memos never displace an accepted commit or reveal, and a divergence
\* stays.
THEOREM AcceptanceFinal == Spec => AcceptedIsFinal
<1> DEFINE Stays ==
      Judged =>
      /\ verdict.commit # None => verdict'.commit = verdict.commit
      /\ verdict.reveal # None => verdict'.reveal = verdict.reveal
      /\ Accepted => verdict'.outcome \in {"VALID", "DIVERGENT"}
      /\ verdict.outcome = "DIVERGENT" => verdict' = [verdict EXCEPT
            !.conflictingCommit = verdict'.conflictingCommit,
            !.conflictingReveal = verdict'.conflictingReveal]
<1>1. IInv /\ [Next]_vars => [Stays]_vars
  <2> SUFFICES ASSUME IInv, Next, Judged PROVE Stays
    BY DEF Stays
  <2>0. TypeOK /\ RowsOrdered /\ Kept /\ verdict \in VerdictType
    BY DEF IInv, TypeOK, Judged
  <2>1. CASE UNCHANGED verdict
    BY <2>0, <2>1 DEF Accepted, VerdictType
  <2>2. CASE VerifyRound
    <3> DEFINE v == ClassifyValidator
    <3>1. verdict' = v /\ v \in VerdictType
      BY <2>0, <2>2, ClassifyType DEF VerifyRound
    <3>2. /\ v.commit = AcceptedCommit
          /\ v.commit # None => v.reveal = AcceptedReveal(v.commit)
          /\ v.outcome \in {"VALID", "DIVERGENT"} <=> v.reveal # None
          /\ v.reveal # None => /\ v.levels = LevelsMatched(v.reveal)
                                /\ v.outcome = "DIVERGENT" <=> Divergent(v.reveal)
      BY <2>0, ClassifySelects
    <3> HIDE DEF v
    <3>3. verdict.commit # None => v.commit = verdict.commit
      BY <2>0, <3>2 DEF Kept
    <3>4. verdict.reveal # None => v.reveal = verdict.reveal
      BY <2>0, <3>2, <3>3 DEF Kept
    <3>5. Accepted => v.outcome \in {"VALID", "DIVERGENT"}
      BY <2>0, <3>2, <3>4 DEF Kept
    <3>6. verdict.outcome = "DIVERGENT" =>
            /\ v.outcome = "DIVERGENT" /\ v.levels = verdict.levels
            /\ v.commit = verdict.commit /\ v.reveal = verdict.reveal
      BY <2>0, <3>2, <3>3, <3>4 DEF Kept, Accepted
    <3>7. verdict.outcome = "DIVERGENT" => v = [verdict EXCEPT
            !.conflictingCommit = v.conflictingCommit,
            !.conflictingReveal = v.conflictingReveal]
      BY <2>0, <3>1, <3>6 DEF VerdictType
    <3> QED BY <3>1, <3>3, <3>4, <3>5, <3>7
  <2> QED BY <2>1, <2>2 DEF Next, CloseLedger, Submit, Store, PublishHashes
<1> QED BY <1>1, Invariance, PTL DEF Spec, AcceptedIsFinal

-----------------------------------------------------------------------------
(* What a closed window decides.                                           *)

BadReveals == {r \in Rows("reveal") : ~ledger[r].signed}
LateReveals(c) == {r \in SignedRows("reveal") : RevealMatchesCommit(r, c)}

\* The rows among the positions U give the commit and the outcome of v.
Explains(v, U) ==
  /\ v.commit = FirstInLedger(ValidCommits \cap U)
  /\ v.commit = None =>
       /\ v.outcome \in {"SIGNATURE_INVALID", "ANNOUNCEMENT_MISMATCH", "LATE"}
       /\ v.outcome = "ANNOUNCEMENT_MISMATCH" <=> InWindowCommits \cap U # {}
       /\ v.outcome = "SIGNATURE_INVALID" <=> SignedRows("commit") \cap U = {}
  /\ v.commit # None =>
       /\ v.outcome \in {"VALID", "DIVERGENT"} <=> Opening(v.commit) \cap U # {}
       /\ v.outcome = "ANNOUNCEMENT_MISMATCH"
            <=> InWindowReveals \cap U # {} /\ ValidReveals \cap U = {}
       /\ v.outcome = "COMMITMENT_MISMATCH"
            <=> ValidReveals \cap U # {} /\ Opening(v.commit) \cap U = {}
       /\ v.outcome = "SIGNATURE_INVALID" => BadReveals \cap U # {}
       /\ v.outcome = "LATE" => LateReveals(v.commit) \cap U # {}
       /\ v.outcome = "MISSING_REVEAL" =>
            BadReveals \cap U = {} /\ LateReveals(v.commit) \cap U = {}

\* A verdict rests on the rows that were stored when it was made.
Explained == Judged => Explains(verdict, 1 .. judged)

LEMMA RowsStored ==
  /\ ValidCommits \subseteq InWindowCommits /\ InWindowCommits \subseteq SignedRows("commit")
  /\ ValidReveals \subseteq InWindowReveals /\ InWindowReveals \subseteq stored
  /\ SignedRows("commit") \subseteq stored /\ BadReveals \subseteq stored
  /\ \A c : Opening(c) \subseteq ValidReveals /\ LateReveals(c) \subseteq stored
BY DEF ValidCommits, InWindowCommits, ValidReveals, InWindowReveals, SignedRows, Rows,
   BadReveals, Opening, LateReveals

\* A fresh verdict rests on all rows.
LEMMA ClassifyExplained ==
  ASSUME TypeOK, RowsOrdered, NEW U, stored \subseteq U
  PROVE  Explains(ClassifyValidator, U)
<1> DEFINE c == AcceptedCommit
           r == AcceptedReveal(c)
<1>1. /\ ValidCommits \cap U = ValidCommits /\ InWindowCommits \cap U = InWindowCommits
      /\ SignedRows("commit") \cap U = SignedRows("commit")
      /\ InWindowReveals \cap U = InWindowReveals /\ ValidReveals \cap U = ValidReveals
      /\ BadReveals \cap U = BadReveals
      /\ \A x : Opening(x) \cap U = Opening(x) /\ LateReveals(x) \cap U = LateReveals(x)
  BY RowsStored
<1>2. /\ c = FirstInLedger(ValidCommits)
      /\ c = None <=> ValidCommits = {}
      /\ r = None <=> Opening(c) = {}
  BY RowSets, FirstNone DEF AcceptedCommit
<1>3. \A o, x, y, l : Verdict(o, x, y, l).outcome = o /\ Verdict(o, x, y, l).commit = x
  BY DEF Verdict
<1>4. ClassifyValidator =
        IF c = None THEN Verdict(OutcomeWithoutCommit, None, None, {})
        ELSE IF r = None THEN Verdict(OutcomeWithoutReveal(c), c, None, {})
        ELSE Verdict(IF Divergent(r) THEN "DIVERGENT" ELSE "VALID", c, r, LevelsMatched(r))
  BY DEF ClassifyValidator
<1>5. Opening(c) \subseteq ValidReveals
  BY RowsStored
<1> HIDE DEF c, r
<1> DEFINE v == ClassifyValidator
<1>6. CASE c = None
  <2>1. v.commit = None /\ v.outcome = OutcomeWithoutCommit
    BY <1>3, <1>4, <1>6
  <2>2. /\ OutcomeWithoutCommit \in {"SIGNATURE_INVALID", "ANNOUNCEMENT_MISMATCH", "LATE"}
        /\ OutcomeWithoutCommit = "ANNOUNCEMENT_MISMATCH" <=> InWindowCommits # {}
        /\ OutcomeWithoutCommit = "SIGNATURE_INVALID" <=> SignedRows("commit") = {}
    BY RowsStored DEF OutcomeWithoutCommit
  <2> HIDE DEF v
  <2>3. Explains(v, U)
    BY <1>1, <1>2, <1>6, <2>1, <2>2 DEF Explains
  <2> QED BY <2>3 DEF v
<1>7. CASE c # None /\ r = None
  <2>1. v.commit = c /\ v.outcome = OutcomeWithoutReveal(c)
    BY <1>3, <1>4, <1>7
  <2> DEFINE o == OutcomeWithoutReveal(c)
  <2>2. /\ o \notin {"VALID", "DIVERGENT"}
        /\ o = "ANNOUNCEMENT_MISMATCH" <=> InWindowReveals # {} /\ ValidReveals = {}
        /\ o = "COMMITMENT_MISMATCH" <=> \E x \in ValidReveals : ~RevealMatchesCommit(x, c)
        /\ o = "SIGNATURE_INVALID" => BadReveals # {}
        /\ o = "LATE" => LateReveals(c) # {}
        /\ o = "MISSING_REVEAL" => BadReveals = {} /\ LateReveals(c) = {}
    BY DEF OutcomeWithoutReveal, BadReveals, LateReveals
  <2>3. (\E x \in ValidReveals : ~RevealMatchesCommit(x, c)) <=> ValidReveals # {}
    BY <1>2, <1>7 DEF Opening
  <2>4. Opening(c) = {} /\ ValidCommits # {}
    BY <1>2, <1>7
  <2>5. o = v.outcome
    BY <2>1
  <2> HIDE DEF v, o
  <2>6. Explains(v, U)
    BY <1>1, <1>2, <1>7, <2>1, <2>2, <2>3, <2>4, <2>5 DEF Explains
  <2> QED BY <2>6 DEF v
<1>8. CASE c # None /\ r # None
  <2>1. v.commit = c /\ v.outcome \in {"VALID", "DIVERGENT"}
    BY <1>3, <1>4, <1>8
  <2>2. Opening(c) # {} /\ ValidReveals # {}
    BY <1>2, <1>5, <1>8
  <2> HIDE DEF v
  <2>3. Explains(v, U)
    BY <1>1, <1>2, <1>8, <2>1, <2>2 DEF Explains
  <2> QED BY <2>3 DEF v
<1> QED BY <1>6, <1>7, <1>8

\* Rows stored later and memos not yet stored leave the reasons alone.
LEMMA ExplainedStays ==
  ASSUME TypeOK, RowsOrdered, Explained, UNCHANGED <<verdict, judged>>,
         stored \subseteq stored', \A n \in stored' \ stored : n \notin 1 .. judged,
         \A n \in stored : ledger'[n] = ledger[n]
  PROVE  Explained'
<1> SUFFICES ASSUME Judged
             PROVE  Explains(verdict, 1 .. judged)'
  BY DEF Explained, Judged
<1> DEFINE U == 1 .. judged
<1>e. Explains(verdict, U)
  BY DEF Explained
<1>c. verdict.commit # None => verdict.commit \in stored
  <2>1. /\ ValidCommits \cap U \in SUBSET Nat /\ HasFirst(ValidCommits \cap U)
        /\ ValidCommits \cap U \subseteq stored
    BY RowSets DEF RowsOrdered
  <2> QED BY <1>e, <2>1, FirstExists, FirstNone DEF Explains
<1>w. /\ CommitOpens' = CommitOpens /\ CommitCloses' = CommitCloses
      /\ RevealOpens' = RevealOpens /\ RevealCloses' = RevealCloses
  BY DEF CommitOpens, CommitCloses, RevealOpens, RevealCloses
<1>s. \A n \in U : n \in stored' <=> n \in stored
  OBVIOUS
<1>1. \A k : SignedRows(k)' \cap U = SignedRows(k) \cap U
  BY <1>s DEF SignedRows, Rows
<1>2. /\ InWindowCommits' \cap U = InWindowCommits \cap U
      /\ ValidCommits' \cap U = ValidCommits \cap U
  BY <1>s, <1>w DEF ValidCommits, InWindowCommits, SignedRows, Rows, Within
<1>3. /\ InWindowReveals' \cap U = InWindowReveals \cap U
      /\ ValidReveals' \cap U = ValidReveals \cap U
  BY <1>s, <1>w DEF ValidReveals, InWindowReveals, SignedRows, Rows, Within
<1>4. BadReveals' \cap U = BadReveals \cap U
  BY <1>s DEF BadReveals, Rows
<1>5. verdict.commit # None =>
        /\ Opening(verdict.commit)' \cap U = Opening(verdict.commit) \cap U
        /\ LateReveals(verdict.commit)' \cap U = LateReveals(verdict.commit) \cap U
  <2>1. ValidReveals \subseteq stored /\ \A k : SignedRows(k) \subseteq stored
    BY RowsStored DEF SignedRows, Rows
  <2> QED BY <1>c, <1>1, <1>3, <2>1 DEF Opening, LateReveals, RevealMatchesCommit
<1>7. U' = U
  OBVIOUS
<1> HIDE DEF U
<1>8. FirstInLedger(ValidCommits \cap U)' = FirstInLedger(ValidCommits \cap U)
  <2> DEFINE S == ValidCommits \cap U
  <2>1. S' = S
    BY <1>2, <1>7
  <2> HIDE DEF S
  <2>2. FirstInLedger(S)' = FirstInLedger(S)
    BY <2>1 DEF FirstInLedger
  <2> QED BY <2>2 DEF S
<1>9. Explains(verdict, U)'
  BY <1>e, <1>1, <1>2, <1>3, <1>4, <1>5, <1>7, <1>8 DEF Explains
<1> QED BY <1>9 DEF U

LEMMA ExplainedInductive == IInv /\ Explained /\ [Next]_vars => Explained'
<1> SUFFICES ASSUME IInv, Explained, [Next]_vars PROVE Explained'
  OBVIOUS
<1>0. TypeOK /\ RowsOrdered /\ stored \subseteq 1 .. scanned /\ scanned \in Nat
      /\ judged \in 0 .. scanned
  BY DEF IInv, TypeOK
<1>1. CASE VerifyRound
  <2>1. /\ verdict' = ClassifyValidator /\ judged' = scanned
        /\ UNCHANGED <<ledger, stored>>
    BY <1>1 DEF VerifyRound
  <2>2. Explains(ClassifyValidator, 1 .. scanned)
    BY <1>0, ClassifyExplained
  <2>3. Explains(verdict, 1 .. judged)'
    <3> DEFINE v == ClassifyValidator
               U == 1 .. scanned
    <3>1. verdict' = v /\ (1 .. judged)' = U /\ Explains(v, U)
      BY <2>1, <2>2
    <3>2. /\ ValidCommits' = ValidCommits /\ InWindowCommits' = InWindowCommits
          /\ InWindowReveals' = InWindowReveals /\ ValidReveals' = ValidReveals
          /\ SignedRows("commit")' = SignedRows("commit") /\ BadReveals' = BadReveals
          /\ \A c : Opening(c)' = Opening(c) /\ LateReveals(c)' = LateReveals(c)
      BY <2>1 DEF ValidCommits, InWindowCommits, ValidReveals, InWindowReveals, SignedRows,
         Rows, BadReveals, LateReveals, Opening, RevealMatchesCommit, Within, CommitOpens,
         CommitCloses, RevealOpens, RevealCloses
    <3> HIDE DEF v, U
    <3> QED BY <3>1, <3>2 DEF Explains, FirstInLedger
  <2> QED BY <2>3 DEF Explained
<1>2. ASSUME NEW n \in 1 .. MaxMemos, Store(n) PROVE Explained'
  <2>1. stored' = stored \cup {n} /\ n > scanned /\ n \in Nat
        /\ UNCHANGED <<ledger, verdict, judged>>
    BY <1>0, <1>2, CommitRevealAssumption DEF Store, CommitRevealAssumption
  <2>2. n \notin 1 .. judged
    BY <1>0, <2>1
  <2> QED BY <1>0, <2>1, <2>2, ExplainedStays
<1>3. ASSUME NEW memo \in Memos, Submit(memo) PROVE Explained'
  <2>1. \A n \in stored : ledger'[n] = ledger[n]
    BY <1>0, <1>3 DEF Submit, TypeOK
  <2> QED BY <1>0, <1>3, <2>1, ExplainedStays DEF Submit
<1>4. CASE CloseLedger \/ (\E a \in Answers : PublishHashes(a)) \/ UNCHANGED vars
  <2>1. UNCHANGED <<ledger, stored, verdict, judged>>
    BY <1>4 DEF CloseLedger, PublishHashes, vars
  <2> QED BY <1>0, <2>1, ExplainedStays
<1> QED BY <1>1, <1>2, <1>3, <1>4 DEF Next

\* What a verification finds once nothing in the windows is unseen.
LEMMA ClosedStep ==
  ASSUME IInv, Explained, Judged, VerifyRound,
         \A n \in judged + 1 .. Len(ledger) :
            ledger[n].time # None => ledger[n].time >= RevealCloses
  PROVE  \/ verdict'.outcome = verdict.outcome
         \/ verdict.outcome = "VALID" /\ verdict'.outcome = "DIVERGENT"
         \/ /\ verdict.outcome \in {"MISSING_REVEAL", "LATE", "SIGNATURE_INVALID"}
            /\ verdict'.outcome \in {"LATE", "SIGNATURE_INVALID"}
<1>0. /\ TypeOK /\ RowsOrdered /\ Kept /\ verdict \in VerdictType
      /\ stored \subseteq 1 .. Len(ledger) /\ Len(ledger) \in Nat /\ judged \in Nat
      /\ \A n \in 1 .. Len(ledger) : ledger[n].time \in Nat \cup {None}
  <2>1. TypeOK /\ RowsOrdered /\ Kept
    BY DEF IInv
  <2>2. \A n \in 1 .. Len(ledger) : ledger[n] \in Memo
    BY <2>1 DEF TypeOK
  <2> QED BY <2>1, <2>2 DEF TypeOK, Judged, Memo, Times
<1> DEFINE v == ClassifyValidator
           U == 1 .. judged
<1>1. /\ Explains(verdict, U) /\ Explains(v, stored) /\ verdict' = v
      /\ v \in VerdictType
  BY <1>0, ClassifyExplained, ClassifyType DEF Explained, VerifyRound
<1>2. ASSUME NEW n \in stored, n \notin U, ledger[n].time # None
      PROVE  /\ ledger[n].time >= RevealCloses
             /\ ~Within(ledger[n].time, CommitOpens, CommitCloses)
             /\ ~Within(ledger[n].time, RevealOpens, RevealCloses)
  <2>1. n \in judged + 1 .. Len(ledger)
    BY <1>0, <1>2
  <2>2. ledger[n].time >= RevealCloses /\ ledger[n].time \in Nat
    BY <1>0, <1>2, <2>1
  <2> QED BY <2>2, WindowsOrdered DEF Within
<1>3. InWindowCommits \cap U = InWindowCommits /\ InWindowReveals \cap U = InWindowReveals
  BY <1>2, RowsStored DEF InWindowCommits, InWindowReveals, SignedRows, Rows, Within
<1>4. /\ ValidCommits \cap U = ValidCommits /\ ValidReveals \cap U = ValidReveals
      /\ \A c : Opening(c) \cap U = Opening(c)
  BY <1>3, RowsStored
<1>5. /\ SignedRows("commit") \cap U \subseteq SignedRows("commit")
      /\ BadReveals \cap U \subseteq BadReveals
      /\ \A c : LateReveals(c) \cap U \subseteq LateReveals(c)
  OBVIOUS
<1>6. /\ ValidCommits \cap stored = ValidCommits /\ InWindowCommits \cap stored = InWindowCommits
      /\ SignedRows("commit") \cap stored = SignedRows("commit")
      /\ InWindowReveals \cap stored = InWindowReveals /\ ValidReveals \cap stored = ValidReveals
      /\ BadReveals \cap stored = BadReveals
      /\ \A c : Opening(c) \cap stored = Opening(c) /\ LateReveals(c) \cap stored = LateReveals(c)
  BY RowsStored
<1>7. verdict.outcome = "DIVERGENT" => v.outcome = "DIVERGENT"
  <2>1. /\ v.commit = AcceptedCommit
        /\ v.commit # None => v.reveal = AcceptedReveal(v.commit)
        /\ v.reveal # None => (v.outcome = "DIVERGENT" <=> Divergent(v.reveal))
    BY <1>0, ClassifySelects
  <2> HIDE DEF v
  <2> QED BY <1>0, <2>1 DEF Kept, Accepted
<1> HIDE DEF v, U
<1>8. verdict.commit = v.commit
  BY <1>1, <1>4, <1>6 DEF Explains
<1>9. v.outcome \in Outcomes /\ verdict.outcome \in Outcomes
  BY <1>0, <1>1 DEF VerdictType
<1>10. CASE v.commit = None
  BY <1>1, <1>3, <1>5, <1>6, <1>8, <1>9, <1>10 DEF Explains, Outcomes
<1>11. CASE v.commit # None
  <2>1. /\ v.outcome \in {"VALID", "DIVERGENT"} <=> verdict.outcome \in {"VALID", "DIVERGENT"}
        /\ v.outcome = "ANNOUNCEMENT_MISMATCH" <=> verdict.outcome = "ANNOUNCEMENT_MISMATCH"
        /\ v.outcome = "COMMITMENT_MISMATCH" <=> verdict.outcome = "COMMITMENT_MISMATCH"
    BY <1>1, <1>3, <1>4, <1>6, <1>8, <1>11 DEF Explains
  <2>2. v.outcome = "MISSING_REVEAL" => verdict.outcome \notin {"SIGNATURE_INVALID", "LATE"}
    BY <1>1, <1>5, <1>6, <1>8, <1>11 DEF Explains
  <2> QED BY <1>1, <1>7, <1>9, <2>1, <2>2 DEF Outcomes
<1> QED BY <1>1, <1>10, <1>11

\* Once the reveal window is over and seen, what a verification found does not
\* improve, and what it proved is not lost (classify_validator).
THEOREM ClosedIsFinal == Spec => ClosedWindowIsFinal
<1> DEFINE Final ==
      (/\ Judged /\ clock >= RevealCloses
       /\ \A n \in judged + 1 .. Len(ledger) :
            ledger[n].time # None => ledger[n].time >= RevealCloses) =>
      \/ verdict'.outcome = verdict.outcome
      \/ verdict.outcome = "VALID" /\ verdict'.outcome = "DIVERGENT"
      \/ /\ verdict.outcome \in {"MISSING_REVEAL", "LATE", "SIGNATURE_INVALID"}
         /\ verdict'.outcome \in {"LATE", "SIGNATURE_INVALID"}
<1>1. Init => Explained
  BY DEF Init, Explained, Judged
<1>2. IInv /\ Explained /\ [Next]_vars => Explained'
  BY ExplainedInductive
<1>3. IInv /\ Explained /\ [Next]_vars => [Final]_vars
  <2>1. CASE UNCHANGED verdict
    BY <2>1
  <2>2. ASSUME IInv, Explained, VerifyRound
        PROVE  Final
    BY <2>2, ClosedStep
  <2> QED BY <2>1, <2>2 DEF Next, CloseLedger, Submit, Store, PublishHashes
<1> QED BY <1>1, <1>2, <1>3, Invariance, PTL DEF Spec, ClosedWindowIsFinal

=============================================================================
