-------------------------- MODULE ConvergenceProofs --------------------------
(* What holds of the watcher for every number of rounds, workers, pages    *)
(* and faults.                                                             *)
EXTENDS Convergence, SequenceTheorems, TLAPS

USE DEF ledgerVars, rowVars, sealVars, faultVars

Scanning == {"page", "persist", "cursor"}
Sealing == {"insert", "anchor", "mark"}

-----------------------------------------------------------------------------
(* Types.                                                                  *)

\* The constants the proofs compute with are numbers.
LEMMA ConstantTypes ==
  /\ MaxEntries \in Nat /\ MaxPerLedger \in Nat /\ MaxLosses \in Nat
  /\ PageLimit \in Nat \ {0}
<1>1. {MaxPrunedRetries, RevealWindow, Grace, MaxPass, MaxPerLedger,
       MaxEntries, MaxTip, MaxFloor, MaxFailures, MaxLosses} \subseteq Nat
  BY ConvergenceAssumption DEF ConvergenceAssumption
<1>2. {PageLimit, MaxPages} \subseteq Nat \ {0}
  BY ConvergenceAssumption DEF ConvergenceAssumption
<1> QED BY <1>1, <1>2

\* Once the entries of a ledger are appended, the chain is what it was plus
\* entries of that ledger.
LEMMA ChainGrows ==
  ASSUME TypeOK, LedgerCloses
  PROVE  /\ chain' \in Seq(Entries) /\ Len(chain') <= MaxEntries
         /\ Len(chain) <= Len(chain') /\ Len(chain) \in Nat /\ Len(chain') \in Nat
         /\ DOMAIN chain = 1 .. Len(chain) /\ DOMAIN chain' = 1 .. Len(chain')
         /\ \A n \in DOMAIN chain : chain'[n] = chain[n]
         /\ \A n \in DOMAIN chain' \ DOMAIN chain : chain'[n].ledger = tip + 1
         /\ tip' = tip + 1
<1>1. PICK k \in 0 .. MaxPerLedger :
        \E entries \in [1 .. k -> [kind : Kinds, round : Rounds]] : CloseLedger(entries)
  BY DEF LedgerCloses
<1>2. PICK entries \in [1 .. k -> [kind : Kinds, round : Rounds]] : CloseLedger(entries)
  BY <1>1
<1> DEFINE new == [i \in DOMAIN entries |->
       [ledger |-> tip + 1, kind |-> entries[i].kind, round |-> entries[i].round]]
<1>3. k \in Nat /\ DOMAIN entries = 1 .. k
  BY ConstantTypes
<1>4. new \in [1 .. k -> Entries]
  BY <1>3 DEF TypeOK, Entries
<1>5. new \in Seq(Entries) /\ Len(new) = k
  <2> HIDE DEF new
  <2> QED BY <1>3, <1>4, SeqDef
<1>6. Len(entries) = k
  BY <1>3
<1>7. chain' = chain \o new /\ tip' = tip + 1 /\ Len(chain) + Len(entries) <= MaxEntries
  BY <1>2 DEF CloseLedger
<1>8. chain \in Seq(Entries)
  BY DEF TypeOK
<1>9. \A i \in 1 .. k : new[i].ledger = tip + 1
  BY <1>3
<1> HIDE DEF new
<1>10. /\ chain' \in Seq(Entries) /\ Len(chain') = Len(chain) + k
       /\ \A n \in 1 .. Len(chain) + k :
            chain'[n] = IF n <= Len(chain) THEN chain[n] ELSE new[n - Len(chain)]
  BY <1>5, <1>7, <1>8, ConcatProperties
<1>11. Len(chain) \in Nat /\ DOMAIN chain = 1 .. Len(chain)
  BY <1>8, LenProperties
<1>12. Len(chain') \in Nat /\ DOMAIN chain' = 1 .. Len(chain')
  BY <1>10, LenProperties
<1>13. \A n \in DOMAIN chain' \ DOMAIN chain : chain'[n].ledger = tip + 1
  <2> SUFFICES ASSUME NEW n \in DOMAIN chain', n \notin DOMAIN chain
               PROVE  chain'[n].ledger = tip + 1
    OBVIOUS
  <2>1. n - Len(chain) \in 1 .. k /\ chain'[n] = new[n - Len(chain)]
    BY <1>3, <1>10, <1>11, <1>12
  <2> QED BY <2>1, <1>9
<1>14. \A n \in DOMAIN chain : chain'[n] = chain[n]
  BY <1>3, <1>10, <1>11
<1> QED BY <1>3, <1>6, <1>7, <1>10, <1>11, <1>12, <1>13, <1>14

\* Entries are numbered within the bound.
LEMMA PositionsBound ==
  ASSUME TypeOK
  PROVE  /\ DOMAIN chain = 1 .. Len(chain) /\ Len(chain) \in Nat
         /\ DOMAIN chain \subseteq Positions
         /\ DOMAIN anchors = 1 .. Len(anchors) /\ Len(anchors) \in Nat
<1>1. chain \in Seq(Entries) /\ anchors \in Seq([round : Rounds, report : SUBSET Positions])
  BY DEF TypeOK
<1>2. /\ DOMAIN chain = 1 .. Len(chain) /\ Len(chain) \in Nat
      /\ DOMAIN anchors = 1 .. Len(anchors) /\ Len(anchors) \in Nat
  BY <1>1, LenProperties
<1>3. Len(chain) <= MaxEntries /\ MaxEntries \in Nat
  BY ConstantTypes DEF TypeOK
<1> QED BY <1>2, <1>3 DEF Positions

LEMMA EntryTypes ==
  ASSUME TypeOK, NEW n \in DOMAIN chain
  PROVE  chain[n] \in Entries
<1>1. chain \in Seq(Entries) /\ n \in 1 .. Len(chain)
  BY PositionsBound DEF TypeOK
<1> QED BY <1>1, ElementOfSeq

\* The chain has a first position at or after every ledger.
Cut ==
  \A l \in Nat : \E k \in 1 .. Len(chain) + 1 :
    \A n \in DOMAIN chain : chain[n].ledger < l <=> n < k

\* What FirstAt returns when there is a cut.
LEMMA FirstAtCut ==
  ASSUME TypeOK, Cut, NEW l \in Nat
  PROVE  /\ FirstAt(l) \in 1 .. Len(chain) + 1
         /\ \A n \in DOMAIN chain : chain[n].ledger < l <=> n < FirstAt(l)
  BY DEF Cut, FirstAt

\* What a worker remembers is about the rows there are: a round is picked
\* before it is judged, sealed or anchored, and a page ends within the chain.
LocalFacts ==
  \A w \in Workers :
    /\ pc[w] = "persist" => loc[w].last <= Len(chain)
    /\ pc[w] \in {"upsert", "pin", "insert", "anchor", "mark"} => loc[w].rnd \in Rounds
    /\ pc[w] = "mark" => loc[w].tx \in DOMAIN anchors

\* Every step of a worker keeps the types.
LEMMA TypeWorker ==
  ASSUME TypeOK, Cut, LocalFacts, NEW w \in Workers, WorkerSteps(w)
  PROVE  TypeOK'
<1>0. /\ DOMAIN chain = 1 .. Len(chain) /\ Len(chain) \in Nat
      /\ DOMAIN chain \subseteq Positions
      /\ DOMAIN anchors = 1 .. Len(anchors) /\ Len(anchors) \in Nat
  BY PositionsBound
<1>f. \A l \in Nat : FirstAt(l) \in Nat \ {0}
  <2> SUFFICES ASSUME NEW l \in Nat
               PROVE  FirstAt(l) \in Nat \ {0}
    OBVIOUS
  <2>1. FirstAt(l) \in 1 .. Len(chain) + 1
    BY FirstAtCut
  <2> QED BY <1>0, <2>1
<1>t. loc[w] \in Locals /\ loc \in [Workers -> Locals]
  BY DEF TypeOK
<1>p. pc \in [Workers -> Steps]
  BY DEF TypeOK
<1>c. cursor \in Nat /\ tip \in Nat /\ floor \in Nat
  BY DEF TypeOK
<1>b. pc[w] = "persist" => loc[w].last <= Len(chain)
  BY DEF LocalFacts
<1>r. pc[w] \in {"upsert", "pin", "insert", "anchor", "mark"} => loc[w].rnd \in Rounds
  BY DEF LocalFacts
<1>x. pc[w] = "mark" => loc[w].tx \in DOMAIN anchors
  BY DEF LocalFacts
<1>1. CASE BeginPass(w)
  <2>1. loc' \in [Workers -> Locals]
    BY <1>1, <1>t, <1>f, <1>c DEF BeginPass, Idle, Locals
  <2>2. pc' \in [Workers -> Steps]
    BY <1>1, <1>p DEF BeginPass, Idle, Goto, Steps
  <2> QED BY <1>1, <2>1, <2>2 DEF BeginPass, TypeOK
<1>2. CASE ReadPage(w)
  <2> DEFINE end == loc[w].next + PageLimit - 1
             last == IF end < Len(chain) THEN end ELSE Len(chain)
             more == last < Len(chain)
  <2>3. last \in Nat /\ more \in BOOLEAN
    BY <1>t, <1>0, ConstantTypes DEF Locals
  <2>4. loc' = [loc EXCEPT ![w].last = last, ![w].more = more]
    BY <1>2 DEF ReadPage
  <2>1. loc' \in [Workers -> Locals]
    <3> HIDE DEF last, more, end
    <3> QED BY <2>3, <2>4, <1>t DEF Locals
  <2>2. pc' \in [Workers -> Steps]
    BY <1>2, <1>p DEF ReadPage, Goto, Steps
  <2> QED BY <1>2, <2>1, <2>2 DEF ReadPage, TypeOK
<1>3. CASE ClampToFloor(w)
  <2> DEFINE from == Larger(floor, loc[w].from + 1)
  <2>1. from \in Nat /\ Larger(loc[w].highest, from) \in Nat
    BY <1>t, <1>c DEF Larger, Locals
  <2>2. FirstAt(from) \in Nat \ {0}
    BY <2>1, <1>f
  <2>3. loc' = [loc EXCEPT
          ![w].from = from, ![w].next = FirstAt(from),
          ![w].highest = Larger(loc[w].highest, from),
          ![w].retries = loc[w].retries + 1]
    BY <1>3 DEF ClampToFloor
  <2> HIDE DEF from
  <2>4. loc' \in [Workers -> Locals]
    BY <2>1, <2>2, <2>3, <1>t DEF Locals
  <2> QED BY <1>3, <2>4 DEF ClampToFloor, TypeOK
<1>4. CASE PersistNext(w)
  <2> DEFINE n == loc[w].next
  <2>1. n \in DOMAIN chain /\ n \in Nat \ {0} /\ loc[w].highest \in Nat
    <3>1. n \in Nat \ {0} /\ loc[w].last \in Nat /\ n <= loc[w].last /\ loc[w].highest \in Nat
      BY <1>4, <1>t DEF PersistNext, Locals
    <3>2. loc[w].last <= Len(chain)
      BY <1>4, <1>b DEF PersistNext
    <3> QED BY <3>1, <3>2, <1>0
  <2>2. chain[n] \in Entries
    BY <2>1, <1>0, ElementOfSeq DEF TypeOK
  <2>3. Larger(loc[w].highest, chain[n].ledger) \in Nat
    BY <2>1, <2>2 DEF Larger, Entries
  <2>4. loc' \in [Workers -> Locals]
    <3>1. loc' = [loc EXCEPT ![w].next = n + 1,
                             ![w].highest = Larger(loc[w].highest, chain[n].ledger)]
      BY <1>4 DEF PersistNext
    <3>2. n + 1 \in Nat \ {0}
      BY <2>1
    <3> DEFINE h == Larger(loc[w].highest, chain[n].ledger)
               m == n + 1
    <3>3. loc' = [loc EXCEPT ![w].next = m, ![w].highest = h] /\ m \in Nat \ {0} /\ h \in Nat
      BY <3>1, <3>2, <2>3
    <3> HIDE DEF n, h, m
    <3> QED BY <3>3, <1>t DEF Locals
  <2>5. announced' \in [Rounds -> Nat \cup {None}]
    BY <1>4, <2>2 DEF PersistNext, StoreAnnouncement, TypeOK, Entries
  <2>6. stored' \subseteq DOMAIN chain
    BY <1>4, <2>1 DEF PersistNext, TypeOK
  <2> QED BY <1>4, <2>4, <2>5, <2>6 DEF PersistNext, TypeOK
<1>5. CASE EndPage(w)
  <2>1. loc' \in [Workers -> Locals]
    <3> DEFINE p == loc[w].pages + 1
    <3>1. p \in Nat /\ loc' = [loc EXCEPT ![w].pages = p]
      BY <1>5, <1>t DEF EndPage, Locals
    <3> HIDE DEF p
    <3> QED BY <3>1, <1>t DEF Locals
  <2>2. pc' \in [Workers -> Steps]
    BY <1>5, <1>p DEF EndPage, Goto, Steps
  <2> QED BY <1>5, <2>1, <2>2 DEF EndPage, TypeOK
<1>6. CASE WriteCursor(w)
  <2>1. cursor' \in Nat
    BY <1>6, <1>t, <1>c DEF WriteCursor, CursorAt, Locals
  <2>2. pc' \in [Workers -> Steps]
    BY <1>6, <1>p DEF WriteCursor, Goto, Steps
  <2> QED BY <1>6, <2>1, <2>2 DEF WriteCursor, TypeOK
<1>7. CASE ListActive(w)
  <2>1. loc' \in [Workers -> Locals]
    BY <1>7, <1>t DEF ListActive, Active, Locals, TypeOK
  <2>2. pc' \in [Workers -> Steps]
    BY <1>7, <1>p DEF ListActive, Active, Goto, Steps
  <2> QED BY <1>7, <2>1, <2>2 DEF ListActive, TypeOK
<1>8. CASE UpsertOutcomes(w)
  <2>1. outcomes' \in [Rounds -> SUBSET Positions]
    BY <1>8, <1>t DEF UpsertOutcomes, Locals, TypeOK
  <2>2. pc' \in [Workers -> Steps]
    BY <1>8, <1>p DEF UpsertOutcomes, Goto, Steps
  <2> QED BY <1>8, <2>1, <2>2 DEF UpsertOutcomes, TypeOK
<1>9. CASE EndVerification(w)
  <2>1. loc' \in [Workers -> Locals]
    BY <1>9, <1>t DEF EndVerification, Locals
  <2>2. pc' \in [Workers -> Steps]
    BY <1>9, <1>p DEF EndVerification, Goto, Steps
  <2> QED BY <1>9, <2>1, <2>2 DEF EndVerification, TypeOK
<1>10. CASE \E r \in Rounds : LoadRound(w, r)
  <2>1. PICK r \in Rounds : LoadRound(w, r)
    BY <1>10
  <2>2. Submissions(r) \subseteq Positions
    BY <1>0 DEF Submissions, TypeOK
  <2>3. loc' \in [Workers -> Locals]
    BY <2>1, <2>2, <1>t DEF LoadRound, Locals
  <2>4. pc' \in [Workers -> Steps]
    BY <2>1, <1>p DEF LoadRound, Goto, Steps
  <2> QED BY <2>1, <2>3, <2>4 DEF LoadRound, TypeOK
<1>11. CASE ListDue(w)
  <2>1. loc' \in [Workers -> Locals]
    BY <1>11, <1>t DEF ListDue, Active, Unanchored, Locals, TypeOK
  <2>2. pc' \in [Workers -> Steps]
    BY <1>11, <1>p DEF ListDue, Active, Unanchored, Goto, Steps
  <2> QED BY <1>11, <2>1, <2>2 DEF ListDue, TypeOK
<1>12. CASE PinReport(w)
  <2>1. loc' \in [Workers -> Locals]
    BY <1>12, <1>t DEF PinReport, Locals
  <2>2. pc' \in [Workers -> Steps]
    BY <1>12, <1>p DEF PinReport, Goto, Steps
  <2> QED BY <1>12, <2>1, <2>2 DEF PinReport, TypeOK
<1>13. CASE InsertReport(w)
  <2>1. sealed' \subseteq Rounds /\ report' \in [Rounds -> SUBSET Positions]
    BY <1>13, <1>t, <1>r DEF InsertReport, Locals, TypeOK
  <2>2. pc' \in [Workers -> Steps]
    BY <1>13, <1>p DEF InsertReport, Goto, Steps
  <2> QED BY <1>13, <2>1, <2>2 DEF InsertReport, TypeOK
<1>14. CASE LoseInsertRace(w)
  <2>1. report[loc[w].rnd] \in SUBSET Positions
    BY <1>14, <1>r DEF LoseInsertRace, TypeOK
  <2>2. loc' \in [Workers -> Locals]
    BY <1>14, <2>1, <1>t DEF LoseInsertRace, Locals
  <2>3. pc' \in [Workers -> Steps]
    BY <1>14, <1>p DEF LoseInsertRace, Goto, Steps
  <2> QED BY <1>14, <2>2, <2>3 DEF LoseInsertRace, TypeOK
<1>15. CASE SubmitAnchor(w)
  <2> DEFINE a == [round |-> loc[w].rnd, report |-> loc[w].snap]
  <2>1. a \in [round : Rounds, report : SUBSET Positions]
    BY <1>15, <1>t, <1>r DEF SubmitAnchor, Locals
  <2>2. anchors' = Append(anchors, a)
    BY <1>15 DEF SubmitAnchor
  <2> HIDE DEF a
  <2>3. /\ anchors' \in Seq([round : Rounds, report : SUBSET Positions])
        /\ Len(anchors') = Len(anchors) + 1
    BY <2>1, <2>2, AppendProperties DEF TypeOK
  <2>4. anchorTx' \in [Rounds -> 0 .. Len(anchors')]
    BY <1>15, <2>3, <1>0 DEF SubmitAnchor, TypeOK
  <2>5. loc' \in [Workers -> Locals]
    <3> DEFINE t == Len(anchors) + 1
    <3>1. t \in Nat /\ loc' = [loc EXCEPT ![w].tx = t]
      BY <1>15, <1>0 DEF SubmitAnchor
    <3> HIDE DEF t
    <3> QED BY <3>1, <1>t DEF Locals
  <2>6. pc' \in [Workers -> Steps]
    BY <1>15, <1>p DEF SubmitAnchor, Goto, Steps
  <2>7. failures' \in Nat
    BY <1>15 DEF SubmitAnchor, TypeOK
  <2> QED BY <1>15, <2>3, <2>4, <2>5, <2>6, <2>7 DEF SubmitAnchor, TypeOK
<1>16. CASE SetAnchorTx(w)
  <2>1. anchorTx' \in [Rounds -> 0 .. Len(anchors)]
    <3>1. /\ loc[w].tx \in 0 .. Len(anchors) /\ loc[w].rnd \in Rounds
          /\ anchorTx \in [Rounds -> 0 .. Len(anchors)]
          /\ anchorTx' = [anchorTx EXCEPT ![loc[w].rnd] = loc[w].tx]
      BY <1>16, <1>x, <1>r, <1>0 DEF SetAnchorTx, TypeOK
    <3> QED BY <3>1
  <2>2. pc' \in [Workers -> Steps]
    BY <1>16, <1>p DEF SetAnchorTx, Goto, Steps
  <2> QED BY <1>16, <2>1, <2>2 DEF SetAnchorTx, TypeOK
<1>17. CASE \E r \in Rounds : SkipAnchored(w, r) \/ RetryAnchor(w, r) \/ AssembleReport(w, r)
  <2>1. PICK r \in Rounds : SkipAnchored(w, r) \/ RetryAnchor(w, r) \/ AssembleReport(w, r)
    BY <1>17
  <2>2. report[r] \in SUBSET Positions /\ outcomes[r] \in SUBSET Positions
    BY DEF TypeOK
  <2>3. loc' \in [Workers -> Locals]
    BY <2>1, <2>2, <1>t DEF SkipAnchored, RetryAnchor, AssembleReport, Locals
  <2>4. pc' \in [Workers -> Steps]
    BY <2>1, <1>p DEF SkipAnchored, RetryAnchor, AssembleReport, Goto, Steps
  <2> QED BY <2>1, <2>3, <2>4 DEF SkipAnchored, RetryAnchor, AssembleReport, TypeOK
<1>18. CASE EndPass(w) \/ RecordRefused(w)
  <2>1. loc' \in [Workers -> Locals]
    <3>1. Idle \in Locals
      BY DEF Idle, Locals
    <3>2. loc' = [loc EXCEPT ![w] = Idle]
      BY <1>18 DEF EndPass, RecordRefused, Forget
    <3> QED BY <3>1, <3>2, <1>t
  <2>2. pc' \in [Workers -> Steps]
    BY <1>18, <1>p DEF EndPass, RecordRefused, Forget, Free, Idle, Goto, Steps
  <2> QED BY <1>18, <2>1, <2>2 DEF EndPass, RecordRefused, Forget, Free, Idle, TypeOK
<1> QED BY <1>1, <1>2, <1>3, <1>4, <1>5, <1>6, <1>7, <1>8, <1>9, <1>10, <1>11, <1>12, <1>13, <1>14, <1>15, <1>16, <1>17, <1>18
        DEF WorkerSteps, ScanSteps, VerifySteps, SealSteps

\* Faults keep the types.
LEMMA TypeFaults ==
  ASSUME TypeOK, Faults
  PROVE  TypeOK'
<1>1. Idle \in Locals
  BY DEF Idle, Locals
<1>2. CASE LoseSession
  BY <1>2, ConstantTypes DEF LoseSession, TypeOK
<1>3. ASSUME NEW w \in Workers, VerificationFails(w) \/ PinOrAnchorFails(w)
      PROVE  TypeOK'
  <2>1. pc' \in [Workers -> Steps]
    BY <1>3 DEF VerificationFails, PinOrAnchorFails, Goto, Steps, TypeOK
  <2> QED BY <1>3, <2>1 DEF VerificationFails, PinOrAnchorFails, TypeOK
<1>4. ASSUME NEW w \in Workers, AbortPass(w)
      PROVE  TypeOK'
  <2>1. pc' \in [Workers -> Steps] /\ loc' \in [Workers -> Locals]
    BY <1>1, <1>4 DEF AbortPass, Forget, Goto, Steps, TypeOK
  <2> QED BY <1>4, <2>1 DEF AbortPass, Free, TypeOK
<1> QED BY <1>2, <1>3, <1>4 DEF Faults

\* The ledger's steps keep the types.
LEMMA TypeLedger ==
  ASSUME TypeOK, LedgerCloses \/ Prune
  PROVE  TypeOK'
<1>1. CASE LedgerCloses
  <2>1. /\ chain' \in Seq(Entries) /\ Len(chain') <= MaxEntries
        /\ DOMAIN chain \subseteq DOMAIN chain' /\ tip' = tip + 1
    BY <1>1, ChainGrows
  <2>2. UNCHANGED <<floor, rowVars, sealVars, lock, pc, loc, faultVars>>
    BY <1>1 DEF LedgerCloses, CloseLedger
  <2> QED BY <2>1, <2>2 DEF TypeOK
<1>2. CASE Prune
  BY <1>2 DEF Prune, TypeOK
<1> QED BY <1>1, <1>2

-----------------------------------------------------------------------------
(* What each kind of step leaves alone.                                    *)

\* A worker's step and its faults leave the other workers alone.
LEMMA OtherWorkers ==
  ASSUME TypeOK, NEW w \in Workers,
         \/ WorkerSteps(w) \/ VerificationFails(w) \/ PinOrAnchorFails(w)
         \/ AbortPass(w)
  PROVE  \A v \in Workers \ {w} : pc'[v] = pc[v] /\ loc'[v] = loc[v]
<1> USE DEF TypeOK, Goto, Forget
<1>1. CASE ScanSteps(w)
  BY <1>1 DEF ScanSteps, BeginPass, ReadPage, ClampToFloor, PersistNext, EndPage, WriteCursor
<1>2. CASE VerifySteps(w)
  BY <1>2 DEF VerifySteps, ListActive, LoadRound, UpsertOutcomes, EndVerification
<1>3. CASE ListDue(w) \/ PinReport(w) \/ InsertReport(w) \/ LoseInsertRace(w)
  BY <1>3 DEF ListDue, PinReport, InsertReport, LoseInsertRace
<1>4. CASE SubmitAnchor(w) \/ SetAnchorTx(w)
  BY <1>4 DEF SubmitAnchor, SetAnchorTx
<1>5. CASE \E r \in Rounds : SkipAnchored(w, r) \/ RetryAnchor(w, r) \/ AssembleReport(w, r)
  BY <1>5 DEF SkipAnchored, RetryAnchor, AssembleReport
<1>6. CASE EndPass(w) \/ RecordRefused(w) \/ VerificationFails(w) \/ PinOrAnchorFails(w)
             \/ AbortPass(w)
  BY <1>6 DEF EndPass, RecordRefused, VerificationFails, PinOrAnchorFails, AbortPass
<1> QED BY <1>1, <1>2, <1>3, <1>4, <1>5, <1>6 DEF WorkerSteps, SealSteps

\* Verification, sealing and the end of a pass touch nothing that a scan
\* reads or writes.
Apart(w) ==
  \/ VerifySteps(w) \/ SealSteps(w) \/ EndPass(w) \/ RecordRefused(w)
  \/ VerificationFails(w) \/ PinOrAnchorFails(w) \/ AbortPass(w)

LEMMA ApartFromScan ==
  ASSUME TypeOK, NEW w \in Workers, Apart(w)
  PROVE  /\ UNCHANGED <<chain, tip, floor, announced, stored, cursor>>
         /\ pc'[w] \notin Scanning
<1> USE DEF TypeOK, Goto, Forget, Scanning
<1>1. CASE VerifySteps(w)
  BY <1>1 DEF VerifySteps, ListActive, LoadRound, UpsertOutcomes, EndVerification
<1>2. CASE ListDue(w) \/ PinReport(w) \/ InsertReport(w) \/ LoseInsertRace(w)
  BY <1>2 DEF ListDue, PinReport, InsertReport, LoseInsertRace
<1>3. CASE SubmitAnchor(w) \/ SetAnchorTx(w)
  BY <1>3 DEF SubmitAnchor, SetAnchorTx
<1>4. CASE \E r \in Rounds : SkipAnchored(w, r) \/ RetryAnchor(w, r) \/ AssembleReport(w, r)
  BY <1>4 DEF SkipAnchored, RetryAnchor, AssembleReport
<1>5. CASE EndPass(w) \/ RecordRefused(w) \/ VerificationFails(w) \/ PinOrAnchorFails(w)
             \/ AbortPass(w)
  BY <1>5 DEF EndPass, RecordRefused, VerificationFails, PinOrAnchorFails, AbortPass
<1> QED BY <1>1, <1>2, <1>3, <1>4, <1>5 DEF Apart, SealSteps

\* Steps that leave the reports and anchors alone, and anchor nothing.
Harmless(w) ==
  \/ ScanSteps(w) \/ VerifySteps(w) \/ ListDue(w) \/ PinReport(w)
  \/ \E r \in Rounds : SkipAnchored(w, r) \/ AssembleReport(w, r)
  \/ EndPass(w) \/ RecordRefused(w)
  \/ VerificationFails(w) \/ PinOrAnchorFails(w) \/ AbortPass(w)

LEMMA HarmlessToSeals ==
  ASSUME TypeOK, NEW w \in Workers, Harmless(w)
  PROVE  UNCHANGED sealVars /\ pc'[w] \notin {"anchor", "mark"}
<1> USE DEF TypeOK, Goto, Forget
<1>1. CASE ScanSteps(w)
  BY <1>1 DEF ScanSteps, BeginPass, ReadPage, ClampToFloor, PersistNext, EndPage, WriteCursor
<1>2. CASE VerifySteps(w)
  BY <1>2 DEF VerifySteps, ListActive, LoadRound, UpsertOutcomes, EndVerification
<1>3. CASE ListDue(w) \/ PinReport(w)
  BY <1>3 DEF ListDue, PinReport
<1>4. CASE \E r \in Rounds : SkipAnchored(w, r) \/ AssembleReport(w, r)
  BY <1>4 DEF SkipAnchored, AssembleReport
<1>5. CASE EndPass(w) \/ RecordRefused(w) \/ VerificationFails(w) \/ PinOrAnchorFails(w)
             \/ AbortPass(w)
  BY <1>5 DEF EndPass, RecordRefused, VerificationFails, PinOrAnchorFails, AbortPass
<1> QED BY <1>1, <1>2, <1>3, <1>4, <1>5 DEF Harmless

-----------------------------------------------------------------------------
(* What workers remember.                                                  *)

\* Only scanning makes a worker persist, and it does so within the chain.
LEMMA LocalStep ==
  ASSUME TypeOK, LocalFacts, TypeOK', Next
  PROVE  LocalFacts'
<1> DEFINE Fact(v) ==
      /\ pc[v] = "persist" => loc[v].last <= Len(chain)
      /\ pc[v] \in {"upsert", "pin", "insert", "anchor", "mark"} => loc[v].rnd \in Rounds
      /\ pc[v] = "mark" => loc[v].tx \in DOMAIN anchors
<1>d. /\ Len(chain) \in Nat /\ Len(anchors) \in Nat
      /\ DOMAIN anchors = 1 .. Len(anchors)
  BY PositionsBound
<1>t. /\ \A v \in Workers : loc[v] \in Locals
      /\ loc \in [Workers -> Locals] /\ pc \in [Workers -> Steps]
  BY DEF TypeOK
<1>1. CASE LedgerCloses
  <2>1. Len(chain) <= Len(chain') /\ Len(chain') \in Nat
    BY <1>1, ChainGrows
  <2>2. UNCHANGED <<pc, loc, anchors>>
    BY <1>1 DEF LedgerCloses, CloseLedger
  <2>3. \A v \in Workers : loc[v].last \in Nat
    BY <1>t DEF Locals
  <2> QED BY <1>d, <2>1, <2>2, <2>3 DEF LocalFacts
<1>2. CASE Prune \/ LoseSession
  BY <1>2 DEF Prune, LoseSession, LocalFacts
<1>3. ASSUME NEW w \in Workers,
             \/ WorkerSteps(w) \/ VerificationFails(w) \/ PinOrAnchorFails(w)
             \/ AbortPass(w)
      PROVE  LocalFacts'
  <2>1. \A v \in Workers \ {w} : pc'[v] = pc[v] /\ loc'[v] = loc[v]
    BY <1>3, OtherWorkers
  <2>2. Fact(w)
    BY DEF LocalFacts
  <2>3. Fact(w)' /\ chain' = chain /\ (anchors' = anchors \/ SubmitAnchor(w))
    <3> USE <1>t, <2>2 DEF Goto
    <3>1. CASE BeginPass(w) \/ ClampToFloor(w) \/ PersistNext(w) \/ EndPage(w) \/ WriteCursor(w)
      BY <3>1 DEF BeginPass, ClampToFloor, PersistNext, EndPage, WriteCursor, Locals
    <3>2. CASE ReadPage(w)
      <4>1. /\ UNCHANGED <<chain, anchors>> /\ pc'[w] = "persist"
            /\ loc'[w].last = IF loc[w].next + PageLimit - 1 < Len(chain)
                              THEN loc[w].next + PageLimit - 1 ELSE Len(chain)
        BY <3>2 DEF ReadPage
      <4> QED BY <4>1, <1>d, ConstantTypes DEF Locals
    <3>3. CASE VerifySteps(w)
      <4>1. CASE ListActive(w) \/ UpsertOutcomes(w) \/ EndVerification(w)
        BY <4>1 DEF ListActive, UpsertOutcomes, EndVerification
      <4>2. ASSUME NEW r \in Rounds, LoadRound(w, r)
            PROVE  Fact(w)' /\ chain' = chain /\ anchors' = anchors
        BY <4>2 DEF LoadRound, Locals
      <4> QED BY <3>3, <4>1, <4>2 DEF VerifySteps
    <3>4. CASE ListDue(w) \/ PinReport(w) \/ InsertReport(w) \/ LoseInsertRace(w)
      <4>1. CASE ListDue(w)
        BY <4>1 DEF ListDue, Locals
      <4>2. CASE PinReport(w) \/ InsertReport(w)
        BY <4>2 DEF PinReport, InsertReport, Locals
      <4>3. CASE LoseInsertRace(w)
        BY <4>3 DEF LoseInsertRace, Locals
      <4> QED BY <3>4, <4>1, <4>2, <4>3
    <3>5. CASE SubmitAnchor(w)
      <4>1. /\ chain' = chain /\ Len(anchors') = Len(anchors) + 1
            /\ DOMAIN anchors' = 1 .. Len(anchors')
        <5>1. anchors' \in Seq([round : Rounds, report : SUBSET Positions])
          BY DEF TypeOK
        <5>2. Len(anchors') = Len(anchors) + 1
          BY <3>5, AppendProperties DEF SubmitAnchor, TypeOK
        <5> QED BY <3>5, <5>1, <5>2, LenProperties DEF SubmitAnchor
      <4>2. loc'[w].tx = Len(anchors) + 1 /\ loc'[w].rnd = loc[w].rnd
        BY <3>5 DEF SubmitAnchor, Locals
      <4>3. pc'[w] \in {"mark", "seal"}
        BY <3>5 DEF SubmitAnchor
      <4>4. loc[w].rnd \in Rounds
        BY <3>5 DEF SubmitAnchor
      <4> QED BY <3>5, <4>1, <4>2, <4>3, <4>4, <1>d
    <3>6. CASE SetAnchorTx(w)
      BY <3>6 DEF SetAnchorTx
    <3>7. CASE \E r \in Rounds : SkipAnchored(w, r) \/ RetryAnchor(w, r) \/ AssembleReport(w, r)
      BY <3>7 DEF SkipAnchored, RetryAnchor, AssembleReport, Locals
    <3>8. CASE EndPass(w) \/ RecordRefused(w) \/ VerificationFails(w) \/ PinOrAnchorFails(w)
                 \/ AbortPass(w)
      BY <3>8 DEF EndPass, RecordRefused, VerificationFails, PinOrAnchorFails, AbortPass, Forget
    <3> QED BY <1>3, <3>1, <3>2, <3>3, <3>4, <3>5, <3>6, <3>7, <3>8
            DEF WorkerSteps, ScanSteps, SealSteps
  <2>4. DOMAIN anchors \subseteq DOMAIN anchors'
    <3>1. CASE SubmitAnchor(w)
      <4>1. Len(anchors') = Len(anchors) + 1
        BY <3>1, AppendProperties DEF SubmitAnchor, TypeOK
      <4>2. DOMAIN anchors' = 1 .. Len(anchors')
        BY LenProperties DEF TypeOK
      <4> QED BY <4>1, <4>2, <1>d
    <3> QED BY <2>3, <3>1
  <2> QED BY <2>1, <2>3, <2>4 DEF LocalFacts
<1> QED BY <1>1, <1>2, <1>3 DEF Next, Faults

-----------------------------------------------------------------------------
(* The scan.                                                               *)

\* The entries are in ledger order, and nobody is ahead of the ledger.
Ordered ==
  /\ \A m, n \in DOMAIN chain : m < n => chain[m].ledger <= chain[n].ledger
  /\ \A n \in DOMAIN chain : chain[n].ledger <= tip
  /\ floor <= tip /\ cursor <= tip
  /\ \A r \in Rounds : announced[r] # None => announced[r] <= tip
  /\ \A w \in Workers : pc[w] \in Scanning =>
       loc[w].highest <= tip /\ loc[w].next <= Len(chain) + 1

Handled(n) ==
  /\ chain[n].kind \in {"commit", "reveal"} => n \in stored
  /\ chain[n].kind = "announcement" => announced[chain[n].round] # None

\* A scanning worker leaves nothing unhandled behind its position in the
\* history, nor below the ledger that it may make the cursor.
NothingBehind(w) ==
  pc[w] \in Scanning =>
    \A n \in DOMAIN chain :
      (chain[n].ledger >= floor
         /\ (n < loc[w].next \/ chain[n].ledger < loc[w].highest)) => Handled(n)

ScanInv ==
  /\ Cut /\ Ordered
  /\ NothingSkipped /\ WindowsOfFirstAnnouncement
  /\ \A w \in Workers : NothingBehind(w)

LEMMA ScanFrame ==
  ASSUME TypeOK, ScanInv, NEW w \in Workers,
         UNCHANGED <<chain, tip, floor, announced, stored, cursor>>,
         \A v \in Workers \ {w} : pc'[v] = pc[v] /\ loc'[v] = loc[v],
         pc'[w] \in Scanning =>
           /\ loc'[w].highest <= tip /\ loc'[w].next <= Len(chain) + 1
           /\ \A n \in DOMAIN chain :
                (chain[n].ledger >= floor
                   /\ (n < loc'[w].next \/ chain[n].ledger < loc'[w].highest)) => Handled(n)
  PROVE  ScanInv'
<1>1. Cut'
  BY DEF ScanInv, Cut
<1>2. Ordered'
  BY DEF ScanInv, Ordered
<1>3. NothingSkipped' /\ WindowsOfFirstAnnouncement'
  BY DEF ScanInv, NothingSkipped, WindowsOfFirstAnnouncement
<1>4. \A v \in Workers : NothingBehind(v)'
  BY DEF ScanInv, NothingBehind, Handled
<1> QED BY <1>1, <1>2, <1>3, <1>4 DEF ScanInv

\* New entries come after everything and above every ledger there was.
LEMMA ScanLedger ==
  ASSUME TypeOK, ScanInv, LedgerCloses
  PROVE  ScanInv'
<1>1. /\ Len(chain) <= Len(chain') /\ Len(chain) \in Nat /\ Len(chain') \in Nat
      /\ DOMAIN chain = 1 .. Len(chain) /\ DOMAIN chain' = 1 .. Len(chain')
      /\ \A n \in DOMAIN chain : chain'[n] = chain[n]
      /\ \A n \in DOMAIN chain' \ DOMAIN chain : chain'[n].ledger = tip + 1
      /\ tip' = tip + 1
  BY ChainGrows
<1>2. UNCHANGED <<floor, announced, stored, cursor, pc, loc>>
  BY DEF LedgerCloses, CloseLedger
<1>3. \A n \in DOMAIN chain : chain[n].ledger \in Nat
  BY EntryTypes DEF Entries
<1>4. tip \in Nat /\ cursor \in Nat /\ floor \in Nat
  BY DEF TypeOK
<1>5. \A w \in Workers : loc[w].next \in Nat /\ loc[w].highest \in Nat
  BY DEF TypeOK, Locals
<1>6. Cut'
  <2> SUFFICES ASSUME NEW l \in Nat
               PROVE  \E k \in 1 .. Len(chain') + 1 :
                        \A n \in DOMAIN chain' : chain'[n].ledger < l <=> n < k
    BY DEF Cut
  <2>1. PICK k \in 1 .. Len(chain) + 1 :
          \A n \in DOMAIN chain : chain[n].ledger < l <=> n < k
    BY DEF ScanInv, Cut
  <2>2. CASE l <= tip + 1
    <3>1. k \in 1 .. Len(chain') + 1
      BY <1>1
    <3>2. ASSUME NEW n \in DOMAIN chain'
          PROVE  chain'[n].ledger < l <=> n < k
      BY <1>1, <1>4, <2>1, <2>2
    <3> QED BY <3>1, <3>2
  <2>3. CASE ~(l <= tip + 1)
    <3>1. ASSUME NEW n \in DOMAIN chain'
          PROVE  chain'[n].ledger < l /\ n < Len(chain') + 1
      BY <1>1, <1>3, <1>4, <2>3 DEF ScanInv, Ordered
    <3> QED BY <1>1, <3>1
  <2> QED BY <2>2, <2>3
<1>7. Ordered'
  <2>1. \A m, n \in DOMAIN chain' : m < n => chain'[m].ledger <= chain'[n].ledger
    BY <1>1, <1>3, <1>4 DEF ScanInv, Ordered
  <2>2. \A n \in DOMAIN chain' : chain'[n].ledger <= tip'
    BY <1>1, <1>3, <1>4 DEF ScanInv, Ordered
  <2>3. /\ floor' <= tip' /\ cursor' <= tip'
        /\ \A r \in Rounds : announced'[r] # None => announced'[r] <= tip'
    BY <1>1, <1>2, <1>4 DEF ScanInv, Ordered, TypeOK
  <2>4. \A w \in Workers : pc'[w] \in Scanning =>
          loc'[w].highest <= tip' /\ loc'[w].next <= Len(chain') + 1
    BY <1>1, <1>2, <1>4, <1>5 DEF ScanInv, Ordered
  <2> QED BY <2>1, <2>2, <2>3, <2>4 DEF Ordered
<1>8. NothingSkipped'
  BY <1>1, <1>2, <1>4 DEF ScanInv, Ordered, NothingSkipped
<1>9. WindowsOfFirstAnnouncement'
  <2> SUFFICES ASSUME NEW n \in DOMAIN chain', chain'[n].kind = "announcement",
                      announced[chain'[n].round] # None,
                      chain'[n].ledger < announced[chain'[n].round]
               PROVE  chain'[n].ledger < floor
    BY <1>2 DEF WindowsOfFirstAnnouncement
  <2>1. n \in DOMAIN chain
    <3>1. chain'[n].round \in Rounds
      <4>1. chain' \in Seq(Entries) /\ n \in 1 .. Len(chain')
        BY <1>1, ChainGrows
      <4>2. chain'[n] \in Entries
        BY <4>1, ElementOfSeq
      <4> QED BY <4>2 DEF Entries
    <3>2. announced[chain'[n].round] \in Nat /\ announced[chain'[n].round] <= tip
      BY <3>1 DEF TypeOK, ScanInv, Ordered
    <3> QED BY <1>1, <1>4, <3>2
  <2> QED BY <1>1, <2>1 DEF ScanInv, WindowsOfFirstAnnouncement
<1>10. \A w \in Workers : NothingBehind(w)'
  <2> SUFFICES ASSUME NEW w \in Workers, pc[w] \in Scanning, NEW n \in DOMAIN chain',
                      chain'[n].ledger >= floor,
                      n < loc[w].next \/ chain'[n].ledger < loc[w].highest
               PROVE  Handled(n)'
    BY <1>2 DEF NothingBehind
  <2>1. loc[w].highest <= tip /\ loc[w].next <= Len(chain) + 1
    BY DEF ScanInv, Ordered
  <2>2. n \in DOMAIN chain
    BY <1>1, <1>4, <1>5, <2>1
  <2>3. Handled(n)
    BY <1>1, <2>2 DEF ScanInv, NothingBehind
  <2> QED BY <1>1, <1>2, <2>2, <2>3 DEF Handled
<1> QED BY <1>6, <1>7, <1>8, <1>9, <1>10 DEF ScanInv

LEMMA ScanPrune ==
  ASSUME TypeOK, ScanInv, Prune
  PROVE  ScanInv'
<1>1. /\ UNCHANGED <<chain, tip, announced, stored, cursor, pc, loc>>
      /\ floor' = floor + 1 /\ floor < tip /\ floor \in Nat /\ tip \in Nat
  BY DEF Prune, TypeOK
<1>2. \A n \in DOMAIN chain : chain[n].ledger \in Nat
  BY EntryTypes DEF Entries
<1>3. Cut'
  BY <1>1 DEF ScanInv, Cut
<1>4. Ordered'
  BY <1>1 DEF ScanInv, Ordered
<1>5. NothingSkipped' /\ WindowsOfFirstAnnouncement'
  BY <1>1, <1>2 DEF ScanInv, NothingSkipped, WindowsOfFirstAnnouncement
<1>6. \A v \in Workers : NothingBehind(v)'
  BY <1>1, <1>2 DEF ScanInv, NothingBehind, Handled
<1> QED BY <1>3, <1>4, <1>5, <1>6 DEF ScanInv

\* Every scanning step leaves nothing behind.
LEMMA ScanStep ==
  ASSUME TypeOK, ScanInv, LocalFacts, NEW w \in Workers, ScanSteps(w)
  PROVE  ScanInv'
<1>1. \A v \in Workers \ {w} : pc'[v] = pc[v] /\ loc'[v] = loc[v]
  BY OtherWorkers DEF WorkerSteps
<1>2. /\ loc[w] \in Locals /\ loc \in [Workers -> Locals] /\ pc \in [Workers -> Steps]
      /\ cursor \in Nat /\ tip \in Nat /\ floor \in Nat
  BY DEF TypeOK
<1>3. DOMAIN chain = 1 .. Len(chain) /\ Len(chain) \in Nat
  BY PositionsBound
<1>4. \A n \in DOMAIN chain : chain[n] \in Entries
  BY EntryTypes
<1>5. pc[w] \in Scanning =>
        /\ loc[w].highest <= tip /\ loc[w].next <= Len(chain) + 1
        /\ \A n \in DOMAIN chain :
             (chain[n].ledger >= floor
                /\ (n < loc[w].next \/ chain[n].ledger < loc[w].highest)) => Handled(n)
  BY DEF ScanInv, Ordered, NothingBehind
<1>6. floor <= tip /\ cursor <= tip
  BY DEF ScanInv, Ordered
<1>7. CASE BeginPass(w)
  <2>1. /\ FirstAt(cursor) \in 1 .. Len(chain) + 1
        /\ \A n \in DOMAIN chain : chain[n].ledger < cursor <=> n < FirstAt(cursor)
    BY <1>2, FirstAtCut DEF ScanInv
  <2>2. loc'[w].highest = cursor /\ loc'[w].next = FirstAt(cursor)
    BY <1>2, <1>7 DEF BeginPass, Idle
  <2>3. \A n \in DOMAIN chain :
          (chain[n].ledger >= floor /\ chain[n].ledger < cursor) => Handled(n)
    BY DEF ScanInv, NothingSkipped, Handled
  <2>4. UNCHANGED <<chain, tip, floor, announced, stored, cursor>>
    BY <1>7 DEF BeginPass
  <2>5. loc'[w].highest <= tip /\ loc'[w].next <= Len(chain) + 1
    BY <1>3, <1>6, <2>1, <2>2
  <2>6. \A n \in DOMAIN chain :
          (chain[n].ledger >= floor
             /\ (n < loc'[w].next \/ chain[n].ledger < loc'[w].highest)) => Handled(n)
    BY <2>1, <2>2, <2>3
  <2> QED BY <1>1, <2>4, <2>5, <2>6, ScanFrame
<1>8. CASE ReadPage(w) \/ EndPage(w)
  <2>1. /\ UNCHANGED <<chain, tip, floor, announced, stored, cursor>>
        /\ loc'[w].highest = loc[w].highest /\ loc'[w].next = loc[w].next
        /\ pc[w] \in Scanning
    BY <1>2, <1>8 DEF ReadPage, EndPage, Locals, Scanning
  <2> QED BY <1>1, <1>5, <2>1, ScanFrame
<1>9. CASE ClampToFloor(w)
  <2>1. /\ loc[w].from < floor /\ loc[w].from \in Nat /\ loc[w].highest \in Nat
        /\ loc[w].highest <= tip /\ pc[w] \in Scanning
        /\ UNCHANGED <<chain, tip, floor, announced, stored, cursor>>
    BY <1>2, <1>5, <1>9 DEF ClampToFloor, Locals, Scanning
  <2>2. Larger(floor, loc[w].from + 1) = floor
    BY <1>2, <2>1 DEF Larger
  <2>3. loc'[w].next = FirstAt(floor) /\ loc'[w].highest = Larger(loc[w].highest, floor)
    BY <1>2, <1>9, <2>2 DEF ClampToFloor, Locals
  <2>4. /\ FirstAt(floor) \in 1 .. Len(chain) + 1
        /\ \A n \in DOMAIN chain : chain[n].ledger < floor <=> n < FirstAt(floor)
    BY <1>2, FirstAtCut DEF ScanInv
  <2>5. loc'[w].highest <= tip /\ loc'[w].next <= Len(chain) + 1
    BY <1>2, <1>3, <1>6, <2>1, <2>3, <2>4 DEF Larger
  <2>6. ASSUME NEW n \in DOMAIN chain, chain[n].ledger >= floor,
               n < loc'[w].next \/ chain[n].ledger < loc'[w].highest
        PROVE  Handled(n)
    <3>1. chain[n].ledger \in Nat
      BY <1>4 DEF Entries
    <3>2. ~(n < FirstAt(floor))
      BY <1>2, <2>4, <2>6, <3>1
    <3>3. chain[n].ledger < loc[w].highest
      BY <1>2, <2>1, <2>3, <2>6, <3>1, <3>2 DEF Larger
    <3> QED BY <1>5, <2>1, <2>6, <3>3
  <2> QED BY <1>1, <2>1, <2>5, <2>6, ScanFrame
<1>10. CASE PersistNext(w)
  <2>0. PICK n \in Nat : n = loc[w].next
    BY <1>2 DEF Locals
  <2> DEFINE e == chain[n]
  <2>1. /\ n \in DOMAIN chain /\ pc[w] \in Scanning /\ pc' = pc
        /\ UNCHANGED <<chain, tip, floor, cursor>> /\ loc[w].highest \in Nat
    <3>1. pc[w] = "persist" /\ n <= loc[w].last
      BY <1>10, <2>0 DEF PersistNext
    <3>2. loc[w].last <= Len(chain) /\ n \in Nat \ {0} /\ loc[w].last \in Nat
      BY <1>2, <2>0, <3>1 DEF LocalFacts, Locals
    <3>3. n \in DOMAIN chain
      BY <1>3, <3>1, <3>2
    <3> QED BY <1>2, <1>10, <3>1, <3>3 DEF PersistNext, Scanning, Locals
  <2>2. e \in Entries
    BY <1>4, <2>1
  <2>3. /\ stored' = IF e.kind \in {"commit", "reveal"} THEN stored \cup {n} ELSE stored
        /\ loc'[w].next = n + 1
        /\ loc'[w].highest = Larger(loc[w].highest, e.ledger)
    BY <1>2, <1>10, <2>0 DEF PersistNext, Locals
  <2>4. announced' =
          IF e.kind = "announcement" /\ announced[e.round] = None
          THEN [announced EXCEPT ![e.round] = e.ledger] ELSE announced
    BY <1>10, <2>0 DEF PersistNext, StoreAnnouncement
  <2>5. announced \in [Rounds -> Nat \cup {None}] /\ e.round \in Rounds /\ e.ledger \in Nat
        /\ None \notin Nat
    BY <2>2, ConvergenceAssumption DEF TypeOK, Entries, ConvergenceAssumption
  <2> HIDE DEF e
  <2>6. \A m \in DOMAIN chain : Handled(m) => Handled(m)'
    BY <2>1, <2>3, <2>4, <2>5 DEF Handled
  <2>7. Handled(n)'
    BY <2>1, <2>3, <2>4, <2>5 DEF Handled, e
  <2>8. Cut' /\ NothingSkipped'
    BY <2>1, <2>6 DEF ScanInv, Cut, NothingSkipped, Handled
  <2>9. Ordered'
    <3>1. e.ledger <= tip
      BY <2>1 DEF ScanInv, Ordered, e
    <3>2. \A r \in Rounds : announced'[r] # None => announced'[r] <= tip'
      BY <2>1, <2>4, <2>5, <3>1 DEF ScanInv, Ordered
    <3>3. loc'[w].highest <= tip' /\ loc'[w].next <= Len(chain') + 1
      BY <1>3, <1>5, <2>0, <2>1, <2>3, <2>5, <3>1 DEF Larger
    <3> QED BY <1>1, <2>1, <3>2, <3>3 DEF ScanInv, Ordered
  <2>10. WindowsOfFirstAnnouncement'
    <3> SUFFICES ASSUME NEW m \in DOMAIN chain, chain[m].kind = "announcement",
                        announced'[chain[m].round] # None,
                        chain[m].ledger < announced'[chain[m].round]
                 PROVE  chain[m].ledger < floor
      BY <2>1 DEF WindowsOfFirstAnnouncement
    <3>1. CASE announced'[chain[m].round] = announced[chain[m].round]
      BY <3>1 DEF ScanInv, WindowsOfFirstAnnouncement
    <3>2. CASE announced'[chain[m].round] # announced[chain[m].round]
      <4>1. chain[m] \in Entries /\ chain[m].round \in Rounds /\ chain[m].ledger \in Nat
        BY <1>4 DEF Entries
      <4>2. chain[m].round = e.round /\ announced[e.round] = None
            /\ announced'[e.round] = e.ledger
        BY <2>4, <2>5, <3>2, <4>1
      <4>3. chain[m].ledger < e.ledger
        BY <4>2
      <4>4. m < n
        BY <1>3, <2>1, <2>5, <4>1, <4>3 DEF ScanInv, Ordered, e
      <4>5. chain[m].ledger >= floor => Handled(m)
        BY <1>5, <2>0, <2>1, <4>4
      <4> QED BY <1>2, <4>1, <4>2, <4>5 DEF Handled
    <3> QED BY <3>1, <3>2
  <2>11. NothingBehind(w)'
    <3> SUFFICES ASSUME NEW m \in DOMAIN chain, chain[m].ledger >= floor,
                        m < n + 1 \/ chain[m].ledger < Larger(loc[w].highest, e.ledger)
                 PROVE  Handled(m)'
      BY <2>1, <2>3 DEF NothingBehind
    <3>1. chain[m].ledger \in Nat
      BY <1>4 DEF Entries
    <3>2. m <= n \/ chain[m].ledger < loc[w].highest
      <4>1. e.ledger <= chain[m].ledger \/ m < n
        BY <1>3, <2>1, <2>5, <3>1 DEF ScanInv, Ordered, e
      <4> QED BY <1>3, <2>1, <2>5, <3>1, <4>1 DEF Larger
    <3> QED BY <1>3, <1>5, <2>0, <2>1, <2>6, <2>7, <3>2
  <2>12. \A v \in Workers \ {w} : NothingBehind(v)'
    BY <1>1, <2>1, <2>6 DEF ScanInv, NothingBehind
  <2> QED BY <2>8, <2>9, <2>10, <2>11, <2>12 DEF ScanInv
<1>11. CASE WriteCursor(w)
  <2>1. /\ UNCHANGED <<chain, tip, floor, announced, stored>> /\ pc'[w] \notin Scanning
        /\ pc[w] \in Scanning
        /\ cursor' \in {cursor, loc[w].highest}
    BY <1>2, <1>11 DEF WriteCursor, CursorAt, Goto, Scanning
  <2>2. Cut' /\ Ordered'
    BY <1>1, <1>5, <2>1 DEF ScanInv, Cut, Ordered
  <2>3. NothingSkipped'
    BY <1>5, <2>1 DEF ScanInv, NothingSkipped, Handled
  <2>4. WindowsOfFirstAnnouncement'
    BY <2>1 DEF ScanInv, WindowsOfFirstAnnouncement
  <2>5. \A v \in Workers : NothingBehind(v)'
    BY <1>1, <2>1 DEF ScanInv, NothingBehind, Handled
  <2> QED BY <2>2, <2>3, <2>4, <2>5 DEF ScanInv
<1> QED BY <1>7, <1>8, <1>9, <1>10, <1>11 DEF ScanSteps

-----------------------------------------------------------------------------
(* Seals and anchors.                                                      *)

\* Memos are about sealed reports, and so is what a worker is about to
\* anchor or to mark.
SealInv ==
  /\ \A i \in DOMAIN anchors :
       anchors[i].round \in sealed /\ anchors[i].report = report[anchors[i].round]
  /\ \A r \in Rounds : anchorTx[r] # 0 =>
       r \in sealed /\ anchorTx[r] \in DOMAIN anchors /\ anchors[anchorTx[r]].round = r
  /\ \A w \in Workers :
       /\ pc[w] = "anchor" => loc[w].rnd \in sealed /\ loc[w].snap = report[loc[w].rnd]
       /\ pc[w] = "mark" =>
            /\ loc[w].rnd \in sealed
            /\ loc[w].tx \in DOMAIN anchors /\ anchors[loc[w].tx].round = loc[w].rnd

LEMMA SealStep ==
  ASSUME TypeOK, LocalFacts, SealInv, Next
  PROVE  SealInv'
<1>d. Len(anchors) \in Nat /\ DOMAIN anchors = 1 .. Len(anchors)
  BY PositionsBound
<1>t. /\ loc \in [Workers -> Locals] /\ pc \in [Workers -> Steps]
      /\ \A v \in Workers : loc[v] \in Locals
      /\ sealed \subseteq Rounds /\ report \in [Rounds -> SUBSET Positions]
      /\ anchorTx \in [Rounds -> 0 .. Len(anchors)]
      /\ anchors \in Seq([round : Rounds, report : SUBSET Positions])
  BY DEF TypeOK
<1>1. CASE LedgerCloses \/ Prune \/ LoseSession
  <2>1. UNCHANGED <<sealVars, pc, loc>>
    BY <1>1 DEF LedgerCloses, CloseLedger, Prune, LoseSession
  <2> QED BY <2>1 DEF SealInv
<1>2. ASSUME NEW w \in Workers, Harmless(w)
      PROVE  SealInv'
  <2>1. \A v \in Workers \ {w} : pc'[v] = pc[v] /\ loc'[v] = loc[v]
    BY <1>2, OtherWorkers DEF Harmless, WorkerSteps, SealSteps
  <2>2. UNCHANGED sealVars /\ pc'[w] \notin {"anchor", "mark"}
    BY <1>2, HarmlessToSeals
  <2> QED BY <2>1, <2>2 DEF SealInv
<1>3. ASSUME NEW w \in Workers, InsertReport(w)
      PROVE  SealInv'
  <2>1. \A v \in Workers \ {w} : pc'[v] = pc[v] /\ loc'[v] = loc[v]
    BY <1>3, OtherWorkers DEF WorkerSteps, SealSteps
  <2>2. /\ loc[w].rnd \in Rounds /\ loc[w].rnd \notin sealed
        /\ sealed' = sealed \cup {loc[w].rnd}
        /\ report' = [report EXCEPT ![loc[w].rnd] = loc[w].snap]
        /\ UNCHANGED <<anchorTx, anchors, loc>> /\ pc'[w] = "anchor"
    BY <1>3, <1>t DEF InsertReport, LocalFacts, Goto
  <2>3. \A i \in DOMAIN anchors : anchors[i].round \in Rounds
    BY <1>t DEF SealInv
  <2>4. \A r \in sealed : report'[r] = report[r]
    BY <1>t, <2>2
  <2>5. \A i \in DOMAIN anchors' :
          anchors'[i].round \in sealed' /\ anchors'[i].report = report'[anchors'[i].round]
    BY <2>2, <2>4 DEF SealInv
  <2>6. report'[loc[w].rnd] = loc[w].snap
    BY <1>t, <2>2
  <2> QED BY <2>1, <2>2, <2>4, <2>5, <2>6 DEF SealInv
<1>4. ASSUME NEW w \in Workers,
             LoseInsertRace(w) \/ \E r \in Rounds : RetryAnchor(w, r)
      PROVE  SealInv'
  <2>1. \A v \in Workers \ {w} : pc'[v] = pc[v] /\ loc'[v] = loc[v]
    BY <1>4, OtherWorkers DEF WorkerSteps, SealSteps
  <2>2. UNCHANGED sealVars /\ pc'[w] # "mark"
    BY <1>4, <1>t DEF LoseInsertRace, RetryAnchor, Goto
  <2>3. loc'[w].rnd \in sealed /\ loc'[w].snap = report[loc'[w].rnd]
    <3>1. CASE LoseInsertRace(w)
      BY <3>1, <1>t DEF LoseInsertRace, Locals
    <3>2. ASSUME NEW r \in Rounds, RetryAnchor(w, r)
          PROVE  loc'[w].rnd \in sealed /\ loc'[w].snap = report[loc'[w].rnd]
      BY <3>2, <1>t DEF RetryAnchor, Locals
    <3> QED BY <1>4, <3>1, <3>2
  <2> QED BY <2>1, <2>2, <2>3 DEF SealInv
<1>5. ASSUME NEW w \in Workers, SubmitAnchor(w)
      PROVE  SealInv'
  <2>1. \A v \in Workers \ {w} : pc'[v] = pc[v] /\ loc'[v] = loc[v]
    BY <1>5, OtherWorkers DEF WorkerSteps, SealSteps
  <2> DEFINE a == [round |-> loc[w].rnd, report |-> loc[w].snap]
  <2>2. /\ loc[w].rnd \in sealed /\ loc[w].snap = report[loc[w].rnd]
        /\ loc[w].rnd \in Rounds /\ loc[w].snap \in SUBSET Positions
    BY <1>5, <1>t DEF SubmitAnchor, SealInv, LocalFacts, Locals
  <2>3. /\ anchors' = Append(anchors, a) /\ UNCHANGED <<sealed, report, anchorTx>>
        /\ loc'[w].tx = Len(anchors) + 1 /\ loc'[w].rnd = loc[w].rnd
        /\ pc'[w] \in {"mark", "seal"}
    BY <1>5, <1>t DEF SubmitAnchor, Locals, Goto
  <2>4. /\ DOMAIN anchors' = 1 .. Len(anchors) + 1
        /\ \A i \in 1 .. Len(anchors) : anchors'[i] = anchors[i]
        /\ anchors'[Len(anchors) + 1] = a
    <3>1. a \in [round : Rounds, report : SUBSET Positions]
      BY <2>2
    <3> HIDE DEF a
    <3>2. /\ Append(anchors, a) \in Seq([round : Rounds, report : SUBSET Positions])
          /\ Len(Append(anchors, a)) = Len(anchors) + 1
          /\ \A i \in 1 .. Len(anchors) : Append(anchors, a)[i] = anchors[i]
          /\ Append(anchors, a)[Len(anchors) + 1] = a
      BY <1>t, <3>1, AppendProperties
    <3> QED BY <2>3, <3>2, LenProperties
  <2>5. \A i \in DOMAIN anchors' :
          anchors'[i].round \in sealed' /\ anchors'[i].report = report'[anchors'[i].round]
    BY <1>d, <2>2, <2>3, <2>4 DEF SealInv
  <2>6. \A r \in Rounds : anchorTx'[r] # 0 =>
          r \in sealed' /\ anchorTx'[r] \in DOMAIN anchors' /\ anchors'[anchorTx'[r]].round = r
    BY <1>d, <2>3, <2>4 DEF SealInv
  <2>7. ASSUME NEW v \in Workers
        PROVE  /\ pc'[v] = "anchor" =>
                    loc'[v].rnd \in sealed' /\ loc'[v].snap = report'[loc'[v].rnd]
               /\ pc'[v] = "mark" =>
                    /\ loc'[v].rnd \in sealed'
                    /\ loc'[v].tx \in DOMAIN anchors'
                    /\ anchors'[loc'[v].tx].round = loc'[v].rnd
    BY <1>d, <2>1, <2>2, <2>3, <2>4 DEF SealInv
  <2> QED BY <2>5, <2>6, <2>7 DEF SealInv
<1>6. ASSUME NEW w \in Workers, SetAnchorTx(w)
      PROVE  SealInv'
  <2>1. \A v \in Workers \ {w} : pc'[v] = pc[v] /\ loc'[v] = loc[v]
    BY <1>6, OtherWorkers DEF WorkerSteps, SealSteps
  <2>2. /\ anchorTx' = [anchorTx EXCEPT ![loc[w].rnd] = loc[w].tx]
        /\ UNCHANGED <<sealed, report, anchors, loc>> /\ pc'[w] = "seal"
        /\ loc[w].rnd \in sealed /\ loc[w].rnd \in Rounds
        /\ loc[w].tx \in DOMAIN anchors /\ anchors[loc[w].tx].round = loc[w].rnd
    BY <1>6, <1>t DEF SetAnchorTx, Goto, SealInv
  <2> QED BY <1>t, <2>1, <2>2 DEF SealInv
<1>7. ASSUME NEW w \in Workers, WorkerSteps(w) \/ VerificationFails(w)
                                  \/ PinOrAnchorFails(w) \/ AbortPass(w)
      PROVE  SealInv'
  BY <1>2, <1>3, <1>4, <1>5, <1>6, <1>7 DEF WorkerSteps, SealSteps, Harmless
<1> QED BY <1>1, <1>7 DEF Next, Faults

\* Every step is a step of SealedReports or leaves it alone.
LEMMA RefinementStep ==
  ASSUME TypeOK, LocalFacts, SealInv, [Next]_vars
  PROVE  [Sealed!Next]_(Sealed!vars)
<1> DEFINE memos == {<<anchors[i].round, anchors[i].report>> : i \in DOMAIN anchors}
           marked == {r \in Rounds : anchorTx[r] # 0}
<1>d. Len(anchors) \in Nat /\ DOMAIN anchors = 1 .. Len(anchors)
  BY PositionsBound
<1>t. /\ loc \in [Workers -> Locals] /\ \A v \in Workers : loc[v] \in Locals
      /\ sealed \subseteq Rounds
      /\ anchorTx \in [Rounds -> 0 .. Len(anchors)]
      /\ anchors \in Seq([round : Rounds, report : SUBSET Positions])
  BY DEF TypeOK
<1>1. ASSUME UNCHANGED sealVars
      PROVE  UNCHANGED Sealed!vars
  BY <1>1 DEF Sealed!vars
<1>2. CASE UNCHANGED vars \/ LedgerCloses \/ Prune \/ LoseSession
  BY <1>1, <1>2 DEF vars, LedgerCloses, CloseLedger, Prune, LoseSession
<1>3. ASSUME NEW w \in Workers, Harmless(w)
      PROVE  UNCHANGED Sealed!vars
  BY <1>1, <1>3, HarmlessToSeals
<1>4. ASSUME NEW w \in Workers,
             LoseInsertRace(w) \/ \E r \in Rounds : RetryAnchor(w, r)
      PROVE  UNCHANGED Sealed!vars
  BY <1>1, <1>4 DEF LoseInsertRace, RetryAnchor
<1>5. ASSUME NEW w \in Workers, InsertReport(w)
      PROVE  Sealed!Next
  <2>1. /\ loc[w].rnd \in Rounds /\ loc[w].snap \in SUBSET Positions
        /\ loc[w].rnd \notin sealed
        /\ sealed' = sealed \cup {loc[w].rnd}
        /\ report' = [report EXCEPT ![loc[w].rnd] = loc[w].snap]
        /\ UNCHANGED <<anchors, anchorTx>>
    BY <1>5, <1>t DEF InsertReport, LocalFacts, Locals
  <2>2. memos' = memos /\ marked' = marked
    BY <2>1
  <2>r. PICK r \in Rounds : r = loc[w].rnd
    BY <2>1
  <2>3. Sealed!Seal(r)
    BY <2>1, <2>r, <2>2 DEF Sealed!Seal
  <2> QED BY <2>3 DEF Sealed!Next
<1>6. ASSUME NEW w \in Workers, SubmitAnchor(w)
      PROVE  Sealed!Next
  <2> DEFINE a == [round |-> loc[w].rnd, report |-> loc[w].snap]
  <2>1. /\ loc[w].rnd \in Rounds /\ loc[w].snap \in SUBSET Positions
        /\ loc[w].rnd \in sealed /\ loc[w].snap = report[loc[w].rnd]
        /\ anchors' = Append(anchors, a)
        /\ UNCHANGED <<sealed, report, anchorTx>>
    BY <1>6, <1>t DEF SubmitAnchor, LocalFacts, Locals, SealInv
  <2>2. /\ DOMAIN anchors' = 1 .. Len(anchors) + 1
        /\ \A i \in 1 .. Len(anchors) : anchors'[i] = anchors[i]
        /\ anchors'[Len(anchors) + 1] = a
    <3>1. a \in [round : Rounds, report : SUBSET Positions]
      BY <2>1
    <3> HIDE DEF a
    <3>2. /\ Append(anchors, a) \in Seq([round : Rounds, report : SUBSET Positions])
          /\ Len(Append(anchors, a)) = Len(anchors) + 1
          /\ \A i \in 1 .. Len(anchors) : Append(anchors, a)[i] = anchors[i]
          /\ Append(anchors, a)[Len(anchors) + 1] = a
      BY <1>t, <3>1, AppendProperties
    <3> QED BY <2>1, <3>2, LenProperties
  <2>3. memos' = memos \cup {<<loc[w].rnd, report[loc[w].rnd]>>}
    <3>1. ASSUME NEW i \in DOMAIN anchors'
          PROVE  <<anchors'[i].round, anchors'[i].report>>
                   \in memos \cup {<<loc[w].rnd, report[loc[w].rnd]>>}
      BY <1>d, <2>1, <2>2
    <3>2. ASSUME NEW i \in DOMAIN anchors
          PROVE  <<anchors[i].round, anchors[i].report>> \in memos'
      BY <1>d, <2>2
    <3>3. <<loc[w].rnd, report[loc[w].rnd]>> \in memos'
      <4>1. Len(anchors) + 1 \in DOMAIN anchors'
        BY <1>d, <2>2
      <4>2. <<anchors'[Len(anchors) + 1].round, anchors'[Len(anchors) + 1].report>>
              = <<loc[w].rnd, report[loc[w].rnd]>>
        BY <2>1, <2>2
      <4> QED BY <4>1, <4>2
    <3> QED BY <3>1, <3>2, <3>3
  <2>r. PICK r \in Rounds : r = loc[w].rnd
    BY <2>1
  <2>4. Sealed!Anchor(r)
    <3>1. marked' = marked
      BY <2>1
    <3> QED BY <2>1, <2>r, <2>3, <3>1 DEF Sealed!Anchor
  <2> QED BY <2>4 DEF Sealed!Next
<1>7. ASSUME NEW w \in Workers, SetAnchorTx(w)
      PROVE  Sealed!Next
  <2>1. /\ loc[w].rnd \in Rounds /\ loc[w].rnd \in sealed
        /\ loc[w].tx \in DOMAIN anchors /\ anchors[loc[w].tx].round = loc[w].rnd
        /\ anchors[loc[w].tx].report = report[loc[w].rnd]
        /\ anchorTx' = [anchorTx EXCEPT ![loc[w].rnd] = loc[w].tx]
        /\ UNCHANGED <<sealed, report, anchors>>
    BY <1>7, <1>t DEF SetAnchorTx, SealInv
  <2>2. <<loc[w].rnd, report[loc[w].rnd]>> \in memos
    BY <2>1
  <2>3. loc[w].tx # 0
    BY <1>d, <2>1
  <2>4. marked' = marked \cup {loc[w].rnd}
    BY <1>t, <2>1, <2>3
  <2>r. PICK r \in Rounds : r = loc[w].rnd
    BY <2>1
  <2>5. Sealed!Mark(r)
    <3>1. memos' = memos
      BY <2>1
    <3> QED BY <2>1, <2>r, <2>2, <2>4, <3>1 DEF Sealed!Mark
  <2> QED BY <2>5 DEF Sealed!Next
<1>8. ASSUME NEW w \in Workers, WorkerSteps(w) \/ VerificationFails(w)
                                  \/ PinOrAnchorFails(w) \/ AbortPass(w)
      PROVE  [Sealed!Next]_(Sealed!vars)
  BY <1>3, <1>4, <1>5, <1>6, <1>7, <1>8 DEF WorkerSteps, SealSteps, Harmless
<1> QED BY <1>2, <1>8 DEF Next, Faults

-----------------------------------------------------------------------------
(* Without lost sessions.                                                  *)

\* Only the holder of the lock runs a pass, and what it is about to judge is
\* not sealed.
LoneInv ==
  /\ \A w \in Workers : pc[w] # "idle" => lock = w
  /\ \A w \in Workers : pc[w] \in {"load", "upsert"} => loc[w].queue \cap sealed = {}
  /\ \A w \in Workers : pc[w] = "upsert" => loc[w].rnd \notin sealed

LEMMA LoneStep ==
  ASSUME MaxLosses = 0, TypeOK, LoneInv, Next
  PROVE  LoneInv'
<1>t. /\ loc \in [Workers -> Locals] /\ pc \in [Workers -> Steps]
      /\ \A v \in Workers : loc[v] \in Locals
      /\ None \notin Workers /\ losses = 0 /\ lock \in Workers \cup {None}
  BY ConvergenceAssumption DEF TypeOK, ConvergenceAssumption
<1>1. CASE LedgerCloses \/ Prune
  <2>1. UNCHANGED <<sealed, lock, pc, loc>>
    BY <1>1 DEF LedgerCloses, CloseLedger, Prune
  <2> QED BY <2>1 DEF LoneInv
<1>2. ~LoseSession
  BY <1>t DEF LoseSession
<1>3. ASSUME NEW w \in Workers, WorkerSteps(w) \/ VerificationFails(w)
                                  \/ PinOrAnchorFails(w) \/ AbortPass(w)
      PROVE  LoneInv'
  <2>1. \A v \in Workers \ {w} : pc'[v] = pc[v] /\ loc'[v] = loc[v]
    BY <1>3, OtherWorkers
  <2>2. \A v \in Workers \ {w} : pc[v] = "idle"
    <3>1. CASE BeginPass(w)
      BY <3>1, <1>t DEF BeginPass, LoneInv
    <3>2. CASE ~BeginPass(w)
      <4>1. pc[w] # "idle"
        BY <1>3, <3>2 DEF WorkerSteps, ScanSteps, VerifySteps, SealSteps, ReadPage,
           ClampToFloor, PersistNext, EndPage, WriteCursor, ListActive, LoadRound,
           UpsertOutcomes, EndVerification, ListDue, PinReport, InsertReport,
           LoseInsertRace, SubmitAnchor, SetAnchorTx, SkipAnchored, RetryAnchor,
           AssembleReport, EndPass, RecordRefused, VerificationFails, PinOrAnchorFails,
           AbortPass
      <4> QED BY <4>1 DEF LoneInv
    <3> QED BY <3>1, <3>2
  <2> DEFINE Alone ==
        /\ pc'[w] # "idle" => lock' = w
        /\ pc'[w] \in {"load", "upsert"} => loc'[w].queue \cap sealed' = {}
        /\ pc'[w] = "upsert" => loc'[w].rnd \notin sealed'
  <2>3. Alone
    <3> USE <1>t DEF Goto
    <3>1. CASE BeginPass(w)
      BY <3>1 DEF BeginPass
    <3>2. CASE ReadPage(w) \/ ClampToFloor(w) \/ PersistNext(w) \/ EndPage(w) \/ WriteCursor(w)
      BY <3>2 DEF ReadPage, ClampToFloor, PersistNext, EndPage, WriteCursor, LoneInv
    <3>3. CASE ListActive(w)
      BY <3>3 DEF ListActive, Active, LoneInv, Locals
    <3>4. ASSUME NEW r \in Rounds, LoadRound(w, r)
          PROVE  Alone
      BY <3>4 DEF LoadRound, LoneInv, Locals
    <3>5. CASE UpsertOutcomes(w) \/ EndVerification(w)
      BY <3>5 DEF UpsertOutcomes, EndVerification, LoneInv
    <3>6. CASE ListDue(w) \/ PinReport(w) \/ InsertReport(w) \/ LoseInsertRace(w)
      BY <3>6 DEF ListDue, PinReport, InsertReport, LoseInsertRace, LoneInv
    <3>7. CASE SubmitAnchor(w) \/ SetAnchorTx(w)
      BY <3>7 DEF SubmitAnchor, SetAnchorTx, LoneInv
    <3>8. CASE \E r \in Rounds : SkipAnchored(w, r) \/ RetryAnchor(w, r) \/ AssembleReport(w, r)
      BY <3>8 DEF SkipAnchored, RetryAnchor, AssembleReport, LoneInv
    <3>9. CASE EndPass(w) \/ RecordRefused(w) \/ AbortPass(w)
      BY <3>9 DEF EndPass, RecordRefused, AbortPass, Forget
    <3>10. CASE VerificationFails(w) \/ PinOrAnchorFails(w)
      BY <3>10 DEF VerificationFails, PinOrAnchorFails, LoneInv
    <3> QED BY <1>3, <3>1, <3>2, <3>3, <3>4, <3>5, <3>6, <3>7, <3>8, <3>9, <3>10
            DEF WorkerSteps, ScanSteps, VerifySteps, SealSteps
  <2> QED BY <2>1, <2>2, <2>3 DEF LoneInv
<1> QED BY <1>1, <1>2, <1>3 DEF Next, Faults

LEMMA FrozenStep ==
  ASSUME MaxLosses = 0, TypeOK, LocalFacts, LoneInv, [Next]_vars
  PROVE  \A r \in sealed : outcomes'[r] = outcomes[r]
<1>1. ASSUME NEW w \in Workers, UpsertOutcomes(w)
      PROVE  \A r \in sealed : outcomes'[r] = outcomes[r]
  BY <1>1 DEF UpsertOutcomes, LoneInv, TypeOK
<1>2. CASE \A w \in Workers : ~UpsertOutcomes(w)
  <2>1. CASE UNCHANGED vars \/ LedgerCloses \/ Prune \/ LoseSession
    BY <2>1 DEF vars, LedgerCloses, CloseLedger, Prune, LoseSession
  <2>2. ASSUME NEW w \in Workers, ScanSteps(w)
        PROVE  UNCHANGED outcomes
    BY <2>2 DEF ScanSteps, BeginPass, ReadPage, ClampToFloor, PersistNext, EndPage, WriteCursor
  <2>3. ASSUME NEW w \in Workers, VerifySteps(w)
        PROVE  UNCHANGED outcomes
    BY <1>2, <2>3 DEF VerifySteps, ListActive, LoadRound, EndVerification
  <2>4. ASSUME NEW w \in Workers, SealSteps(w)
        PROVE  UNCHANGED outcomes
    BY <2>4 DEF SealSteps, ListDue, PinReport, InsertReport, LoseInsertRace, SubmitAnchor,
       SetAnchorTx, SkipAnchored, RetryAnchor, AssembleReport
  <2>5. ASSUME NEW w \in Workers, EndPass(w) \/ RecordRefused(w) \/ VerificationFails(w)
                                    \/ PinOrAnchorFails(w) \/ AbortPass(w)
        PROVE  UNCHANGED outcomes
    BY <2>5 DEF EndPass, RecordRefused, VerificationFails, PinOrAnchorFails, AbortPass
  <2> QED BY <2>1, <2>2, <2>3, <2>4, <2>5 DEF Next, Faults, WorkerSteps
<1> QED BY <1>1, <1>2

-----------------------------------------------------------------------------
(* Theorems.                                                               *)

IInv == TypeOK /\ LocalFacts /\ ScanInv /\ SealInv

LEMMA Initially ==
  ASSUME Init
  PROVE  IInv /\ LoneInv
<1>1. Idle \in Locals
  BY DEF Idle, Locals
<1>2. TypeOK
  BY <1>1, ConstantTypes DEF Init, TypeOK, Steps, Positions
<1>3. chain = <<>> /\ DOMAIN chain = {} /\ Len(chain) = 0 /\ DOMAIN anchors = {}
  BY DEF Init
<1>4. LocalFacts /\ SealInv /\ LoneInv
  BY <1>3, ConvergenceAssumption DEF Init, LocalFacts, SealInv, LoneInv
<1>5. Cut
  BY <1>3 DEF Cut
<1>6. Ordered /\ NothingSkipped /\ WindowsOfFirstAnnouncement
      /\ \A w \in Workers : NothingBehind(w)
  BY <1>3 DEF Init, Ordered, NothingSkipped, WindowsOfFirstAnnouncement, NothingBehind, Scanning
<1> QED BY <1>2, <1>4, <1>5, <1>6 DEF IInv, ScanInv

LEMMA Consecution ==
  ASSUME IInv, [Next]_vars
  PROVE  IInv'
<1>1. CASE UNCHANGED vars
  <2> USE <1>1 DEF vars
  <2>1. TypeOK' /\ LocalFacts' /\ SealInv'
    BY DEF IInv, TypeOK, LocalFacts, SealInv
  <2>2. Cut' /\ Ordered' /\ NothingSkipped' /\ WindowsOfFirstAnnouncement'
    BY DEF IInv, ScanInv, Cut, Ordered, NothingSkipped, WindowsOfFirstAnnouncement
  <2>3. \A w \in Workers : NothingBehind(w)'
    BY DEF IInv, ScanInv, NothingBehind, Handled
  <2> QED BY <2>1, <2>2, <2>3 DEF IInv, ScanInv
<1>2. CASE Next
  <2>1. TypeOK'
    BY <1>2, TypeWorker, TypeFaults, TypeLedger DEF IInv, ScanInv, Next
  <2>2. LocalFacts' /\ SealInv'
    BY <1>2, <2>1, LocalStep, SealStep DEF IInv
  <2>3. CASE LedgerCloses \/ Prune
    BY <2>1, <2>2, <2>3, ScanLedger, ScanPrune DEF IInv
  <2>4. CASE LoseSession
    <3>1. UNCHANGED <<chain, tip, floor, announced, stored, cursor, pc, loc>>
      BY <2>4 DEF LoseSession
    <3>2. Cut' /\ Ordered' /\ NothingSkipped' /\ WindowsOfFirstAnnouncement'
      BY <3>1 DEF IInv, ScanInv, Cut, Ordered, NothingSkipped, WindowsOfFirstAnnouncement
    <3>3. \A w \in Workers : NothingBehind(w)'
      BY <3>1 DEF IInv, ScanInv, NothingBehind, Handled
    <3> QED BY <2>1, <2>2, <3>2, <3>3 DEF IInv, ScanInv
  <2>5. ASSUME NEW w \in Workers, ScanSteps(w)
        PROVE  ScanInv'
    BY <2>5, ScanStep DEF IInv
  <2>6. ASSUME NEW w \in Workers, Apart(w)
        PROVE  ScanInv'
    <3>1. /\ UNCHANGED <<chain, tip, floor, announced, stored, cursor>>
          /\ pc'[w] \notin Scanning
      BY <2>6, ApartFromScan DEF IInv
    <3>2. \A v \in Workers \ {w} : pc'[v] = pc[v] /\ loc'[v] = loc[v]
      BY <2>6, OtherWorkers DEF IInv, Apart, WorkerSteps
    <3> QED BY <3>1, <3>2, ScanFrame DEF IInv
  <2> QED BY <1>2, <2>1, <2>2, <2>3, <2>4, <2>5, <2>6
          DEF IInv, Next, Faults, WorkerSteps, Apart
<1> QED BY <1>1, <1>2

\* The inductive invariant holds of the watcher.
THEOREM Invariance == Spec => []IInv
<1>1. Init => IInv
  BY Initially
<1>2. IInv /\ [Next]_vars => IInv'
  BY Consecution
<1> QED BY <1>1, <1>2, PTL DEF Spec

\* The watcher's tables, cursor and worker state keep their types.
THEOREM TypeCorrect == Spec => []TypeOK
<1>1. IInv => TypeOK
  BY DEF IInv
<1> QED BY <1>1, Invariance, PTL

\* Nothing that the node still has lies unstored below the cursor
\* (run_ingestion_pass, write_cursor).
THEOREM NoGaps == Spec => []NothingSkipped
<1>1. IInv => NothingSkipped
  BY DEF IInv, ScanInv
<1> QED BY <1>1, Invariance, PTL

\* The stored windows are those of the first announcement the node kept
\* (persist_submission's ON CONFLICT DO NOTHING).
THEOREM FirstAnnouncementWins == Spec => []WindowsOfFirstAnnouncement
<1>1. IInv => WindowsOfFirstAnnouncement
  BY DEF IInv, ScanInv
<1> QED BY <1>1, Invariance, PTL

\* Sealing, anchoring and marking implement the write-once register, however
\* many sealers race and whatever answers get lost (seal_round).
THEOREM Refinement == Spec => SealsOnce
<1>1. Init => Sealed!Init
  <2> SUFFICES ASSUME Init
               PROVE  Sealed!Init
    OBVIOUS
  <2>1. {<<anchors[i].round, anchors[i].report>> : i \in DOMAIN anchors} = {}
    BY DEF Init
  <2>2. {r \in Rounds : anchorTx[r] # 0} = {}
    BY DEF Init
  <2>3. report \in [Rounds -> SUBSET Positions] /\ sealed = {}
    BY DEF Init
  <2> QED BY <2>1, <2>2, <2>3 DEF Sealed!Init
<1>2. IInv /\ [Next]_vars => [Sealed!Next]_(Sealed!vars)
  BY RefinementStep DEF IInv
<1> QED BY <1>1, <1>2, Invariance, PTL DEF Spec, SealsOnce, Sealed!Spec

\* While no session is lost, a sealed round's outcomes never change
\* (verify_active_rounds under advisory lock 99002).
THEOREM FrozenWithoutLosses ==
  ASSUME MaxLosses = 0
  PROVE  Spec => OutcomesFrozen
<1>1. Init => IInv /\ LoneInv
  BY Initially
<1>2. IInv /\ LoneInv /\ [Next]_vars => LoneInv'
  <2>1. ASSUME LoneInv, UNCHANGED vars
        PROVE  LoneInv'
    BY <2>1 DEF LoneInv, vars
  <2> QED BY <2>1, LoneStep DEF IInv
<1>3. IInv /\ LoneInv /\ [Next]_vars
        => [\A r \in sealed : outcomes'[r] = outcomes[r]]_vars
  BY FrozenStep DEF IInv
<1> QED BY <1>1, <1>2, <1>3, Invariance, PTL DEF Spec, OutcomesFrozen

=============================================================================
