----------------------------- MODULE Convergence -----------------------------
(***************************************************************************)
(* The convergence watcher: services/convergence_ingestion.py scans the    *)
(* publisher account's history on the ledger page by page and stores       *)
(* announcements, commits and reveals; services/                           *)
(* convergence_verification.py judges every unsealed round again, and      *)
(* seals, pins and anchors the report of a round whose grace is over.      *)
(*                                                                         *)
(* A worker runs passes; what it knows (loc) is lost when the pass ends.   *)
(* Advisory lock 99002 admits one worker at a time while its session       *)
(* lasts.  The ledger index is also the ledger's close time.  What a       *)
(* verification computes from a round's rows is CommitReveal's subject;    *)
(* here an outcome, and a report made of outcomes, is the set of           *)
(* submissions it was computed from.                                       *)
(***************************************************************************)
EXTENDS Naturals, Sequences, FiniteSets

CONSTANTS Rounds, Workers,
          Kinds,             \* kinds of entries the account's history holds
          PageLimit, MaxPages, MaxPrunedRetries,
          RevealWindow,      \* announcement to the close of the reveal window
          Grace,             \* convergence_seal_grace
          MaxPass,           \* ledgers validated during one pass, at most
          MaxPerLedger,      \* entries of one ledger, at most
          MaxEntries, MaxTip, MaxFloor, MaxFailures, MaxLosses, \* model bounds
          None

ConvergenceAssumption ==
  /\ {PageLimit, MaxPages} \subseteq Nat \ {0}
  /\ {MaxPrunedRetries, RevealWindow, Grace, MaxPass, MaxPerLedger,
      MaxEntries, MaxTip, MaxFloor, MaxFailures, MaxLosses} \subseteq Nat
  /\ Kinds \subseteq {"announcement", "commit", "reveal", "other", "refused"}
  /\ None \notin Nat /\ None \notin Rounds /\ None \notin Workers
ASSUME ConvergenceAssumption

VARIABLES chain,     \* the account's entries on the ledger, oldest first
          tip,       \* latest validated ledger
          floor,     \* earliest ledger the node retains
          announced, \* round_announcements: ledger of the stored one, or None
          stored,    \* chain positions in validator_commits, validator_reveals
          cursor,    \* convergence_ingestion_cursor, 0 before it is written
          outcomes,  \* validator_round_outcomes
          sealed, report, anchorTx, \* convergence_reports, 0 for no anchor
          anchors,   \* report memos on the ledger
          lock,      \* worker whose session holds the lock, or None
          pc, loc,   \* what each worker is doing
          failures, losses  \* faults so far

ledgerVars == <<chain, tip, floor>>
rowVars == <<announced, stored, cursor, outcomes>>
sealVars == <<sealed, report, anchorTx, anchors>>
faultVars == <<failures, losses>>
vars == <<ledgerVars, rowVars, sealVars, lock, pc, loc, faultVars>>

-----------------------------------------------------------------------------
(* The ledger.                                                             *)

Submissions(r) ==
  {n \in stored : chain[n].round = r}
Larger(a, b) == IF a > b THEN a ELSE b

\* Position of the first entry of ledger l or a later one.
FirstAt(l) ==
  CHOOSE k \in 1 .. Len(chain) + 1 :
    \A n \in DOMAIN chain : chain[n].ledger < l <=> n < k

\* Faulty: the grace is left out.
SealDeadlineNoGrace(r) == announced[r] + RevealWindow

SealDeadline(r) == announced[r] + RevealWindow + Grace

HasCommit(r) == \E n \in Submissions(r) : chain[n].kind = "commit"

\* Faulty: verification does not leave out sealed rounds.
ActiveOrSealed == {r \in Rounds : announced[r] # None /\ HasCommit(r)}

\* Rounds with an announcement and a commit and without a report.
Active == {r \in Rounds : announced[r] # None /\ HasCommit(r) /\ r \notin sealed}

\* Faulty: nobody looks for a missing anchor again.
UnanchoredNone == {}

Unanchored == {r \in sealed : anchorTx[r] = 0}

Idle == [began |-> 0, start |-> 0, from |-> 0, next |-> 1, last |-> 0, more |-> FALSE,
         pages |-> 0, highest |-> 0, retries |-> 0, queue |-> {},
         rnd |-> None, snap |-> {}, tx |-> 0]

Init ==
  /\ chain = <<>> /\ tip = 1 /\ floor = 0
  /\ announced = [r \in Rounds |-> None]
  /\ stored = {}
  /\ cursor = 0
  /\ outcomes = [r \in Rounds |-> {}]
  /\ sealed = {}
  /\ report = [r \in Rounds |-> {}]
  /\ anchorTx = [r \in Rounds |-> 0]
  /\ anchors = <<>>
  /\ lock = None
  /\ pc = [w \in Workers |-> "idle"]
  /\ loc = [w \in Workers |-> Idle]
  /\ failures = 0 /\ losses = 0

\* The next ledger is validated with the given entries of the account in it.
CloseLedger(entries) ==
  /\ tip < MaxTip /\ Len(chain) + Len(entries) <= MaxEntries
  /\ \A w \in Workers : pc[w] # "idle" => tip < loc[w].began + MaxPass
  /\ tip' = tip + 1
  /\ chain' = chain \o [i \in DOMAIN entries |->
       [ledger |-> tip + 1, kind |-> entries[i].kind, round |-> entries[i].round]]
  /\ UNCHANGED <<floor, rowVars, sealVars, lock, pc, loc, faultVars>>

LedgerCloses ==
  \E k \in 0 .. MaxPerLedger :
    \E entries \in [1 .. k -> [kind : Kinds, round : Rounds]] : CloseLedger(entries)

\* The node drops its oldest ledger.
Prune ==
  /\ floor < MaxFloor /\ floor < tip
  /\ floor' = floor + 1
  /\ UNCHANGED <<chain, tip, rowVars, sealVars, lock, pc, loc, faultVars>>

-----------------------------------------------------------------------------
(* Scanning.                                                               *)

Goto(w, step) == pc' = [pc EXCEPT ![w] = step]

\* The loop takes the lock; the pass reads the cursor on a connection of its
\* own.
BeginPass(w) ==
  /\ pc[w] = "idle" /\ lock = None
  /\ lock' = w
  /\ Goto(w, "page")
  /\ loc' = [loc EXCEPT ![w] =
       [Idle EXCEPT !.began = tip, !.start = cursor, !.from = cursor, !.highest = cursor,
                    !.next = FirstAt(cursor)]]
  /\ UNCHANGED <<ledgerVars, rowVars, sealVars, faultVars>>

\* Faulty: the marker is dropped, every pass reads one page.
ReadPageNoMarker(w) ==
  /\ pc[w] = "page" /\ loc[w].from >= floor
  /\ LET end == loc[w].next + PageLimit - 1
         last == IF end < Len(chain) THEN end ELSE Len(chain)
     IN loc' = [loc EXCEPT ![w].last = last, ![w].more = FALSE]
  /\ Goto(w, "persist")
  /\ UNCHANGED <<ledgerVars, rowVars, sealVars, lock, faultVars>>

\* account_tx, oldest first, continuing at the marker.
ReadPage(w) ==
  /\ pc[w] = "page" /\ loc[w].from >= floor
  /\ LET end == loc[w].next + PageLimit - 1
         last == IF end < Len(chain) THEN end ELSE Len(chain)
     IN loc' = [loc EXCEPT ![w].last = last, ![w].more = last < Len(chain)]
  /\ Goto(w, "persist")
  /\ UNCHANGED <<ledgerVars, rowVars, sealVars, lock, faultVars>>

\* The page starts below what the node retains: restart from its earliest
\* ledger.  Once the retries are used up the pass fails (EndPass).
ClampToFloor(w) ==
  /\ pc[w] = "page" /\ loc[w].from < floor /\ loc[w].retries < MaxPrunedRetries
  /\ LET from == Larger(floor, loc[w].from + 1)
     IN loc' = [loc EXCEPT
          ![w].from = from, ![w].next = FirstAt(from),
          ![w].highest = Larger(loc[w].highest, from),
          ![w].retries = loc[w].retries + 1]
  /\ UNCHANGED <<ledgerVars, rowVars, sealVars, lock, pc, faultVars>>

\* Faulty: a later announcement replaces the stored one.
StoreLastAnnouncement(e) == announced' = [announced EXCEPT ![e.round] = e.ledger]

StoreAnnouncement(e) ==
  announced' = IF announced[e.round] = None
               THEN [announced EXCEPT ![e.round] = e.ledger] ELSE announced

\* persist_submission, one committed insert per record, for an entry the
\* database accepts.
PersistNext(w) ==
  /\ pc[w] = "persist" /\ loc[w].next <= loc[w].last
  /\ LET n == loc[w].next
         e == chain[n]
     IN /\ e.kind # "refused"
        /\ IF e.kind = "announcement" THEN StoreAnnouncement(e)
           ELSE UNCHANGED announced
        /\ stored' = IF e.kind \in {"commit", "reveal"} THEN stored \cup {n} ELSE stored
        /\ loc' = [loc EXCEPT ![w].next = n + 1,
                              ![w].highest = Larger(loc[w].highest, e.ledger)]
  /\ UNCHANGED <<ledgerVars, cursor, outcomes, sealVars, lock, pc, faultVars>>

\* Faulty: the cursor goes one past the highest ledger seen.
CursorAfter(highest) == highest + 1

CursorAt(highest) == highest

EndPage(w) ==
  /\ pc[w] = "persist" /\ loc[w].next > loc[w].last
  /\ loc' = [loc EXCEPT ![w].pages = loc[w].pages + 1]
  /\ Goto(w, IF loc[w].more /\ loc[w].pages + 1 < MaxPages THEN "page" ELSE "cursor")
  /\ UNCHANGED <<ledgerVars, rowVars, sealVars, lock, faultVars>>

\* write_cursor, only when the pass moved on.
WriteCursor(w) ==
  /\ pc[w] = "cursor"
  /\ cursor' = IF loc[w].highest > loc[w].start
               THEN CursorAt(loc[w].highest) ELSE cursor
  /\ Goto(w, "verify")
  /\ UNCHANGED <<ledgerVars, announced, stored, outcomes, sealVars, lock, loc, faultVars>>

-----------------------------------------------------------------------------
(* Verification.                                                           *)

ListActive(w) ==
  /\ pc[w] = "verify"
  /\ loc' = [loc EXCEPT ![w].queue = Active]
  /\ Goto(w, "load")
  /\ UNCHANGED <<ledgerVars, rowVars, sealVars, lock, faultVars>>

LoadRound(w, r) ==
  /\ pc[w] = "load" /\ r \in loc[w].queue
  /\ loc' = [loc EXCEPT ![w].queue = loc[w].queue \ {r}, ![w].rnd = r,
                        ![w].snap = Submissions(r)]
  /\ Goto(w, "upsert")
  /\ UNCHANGED <<ledgerVars, rowVars, sealVars, lock, faultVars>>

UpsertOutcomes(w) ==
  /\ pc[w] = "upsert"
  /\ outcomes' = [outcomes EXCEPT ![loc[w].rnd] = loc[w].snap]
  /\ Goto(w, "load")
  /\ UNCHANGED <<ledgerVars, announced, stored, cursor, sealVars, lock, loc, faultVars>>

EndVerification(w) ==
  /\ pc[w] = "load" /\ loc[w].queue = {}
  /\ Goto(w, "clock")
  /\ UNCHANGED <<ledgerVars, rowVars, sealVars, lock, loc, faultVars>>

\* An exception in verification is logged; sealing goes on.
VerificationFails(w) ==
  /\ pc[w] \in {"verify", "load", "upsert"} /\ failures < MaxFailures
  /\ failures' = failures + 1
  /\ Goto(w, "clock")
  /\ UNCHANGED <<ledgerVars, rowVars, sealVars, lock, loc, losses>>

-----------------------------------------------------------------------------
(* Sealing.                                                                *)

\* seal_due_rounds: the clock is the latest validated ledger's.
ListDue(w) ==
  /\ pc[w] = "clock"
  /\ loc' = [loc EXCEPT ![w].queue =
       {r \in Active : tip >= SealDeadline(r)} \cup Unanchored]
  /\ Goto(w, "seal")
  /\ UNCHANGED <<ledgerVars, rowVars, sealVars, lock, faultVars>>

SkipAnchored(w, r) ==
  /\ pc[w] = "seal" /\ r \in loc[w].queue
  /\ r \in sealed /\ anchorTx[r] # 0
  /\ loc' = [loc EXCEPT ![w].queue = loc[w].queue \ {r}]
  /\ UNCHANGED <<ledgerVars, rowVars, sealVars, lock, pc, faultVars>>

\* A sealed round without an anchor is anchored with its stored CID.
RetryAnchor(w, r) ==
  /\ pc[w] = "seal" /\ r \in loc[w].queue
  /\ r \in sealed /\ anchorTx[r] = 0
  /\ loc' = [loc EXCEPT ![w].queue = loc[w].queue \ {r}, ![w].rnd = r,
                        ![w].snap = report[r]]
  /\ Goto(w, "anchor")
  /\ UNCHANGED <<ledgerVars, rowVars, sealVars, lock, faultVars>>

AssembleReport(w, r) ==
  /\ pc[w] = "seal" /\ r \in loc[w].queue
  /\ r \notin sealed
  /\ loc' = [loc EXCEPT ![w].queue = loc[w].queue \ {r}, ![w].rnd = r,
                        ![w].snap = outcomes[r]]
  /\ Goto(w, "pin")
  /\ UNCHANGED <<ledgerVars, rowVars, sealVars, lock, faultVars>>

PinReport(w) ==
  /\ pc[w] = "pin"
  /\ Goto(w, "insert")
  /\ UNCHANGED <<ledgerVars, rowVars, sealVars, lock, loc, faultVars>>

\* The pin or the anchor is refused: the round waits for a later pass.
PinOrAnchorFails(w) ==
  /\ pc[w] \in {"pin", "anchor"} /\ failures < MaxFailures
  /\ failures' = failures + 1
  /\ Goto(w, "seal")
  /\ UNCHANGED <<ledgerVars, rowVars, sealVars, lock, loc, losses>>

\* Faulty: the report replaces one inserted meanwhile.
InsertOrReplaceReport(w) ==
  /\ pc[w] = "insert"
  /\ sealed' = sealed \cup {loc[w].rnd}
  /\ report' = [report EXCEPT ![loc[w].rnd] = loc[w].snap]
  /\ Goto(w, "anchor")
  /\ UNCHANGED <<ledgerVars, rowVars, anchorTx, anchors, lock, loc, faultVars>>

\* Faulty: the insert's arguments are swapped.
InsertReportSwapped(w) ==
  /\ pc[w] = "insert" /\ loc[w].rnd \notin sealed
  /\ sealed' = sealed \cup {loc[w].rnd}
  /\ report' = [report EXCEPT ![loc[w].rnd] = {loc[w].rnd}]
  /\ Goto(w, "anchor")
  /\ UNCHANGED <<ledgerVars, rowVars, anchorTx, anchors, lock, loc, faultVars>>

InsertReport(w) ==
  /\ pc[w] = "insert" /\ loc[w].rnd \notin sealed
  /\ sealed' = sealed \cup {loc[w].rnd}
  /\ report' = [report EXCEPT ![loc[w].rnd] = loc[w].snap]
  /\ Goto(w, "anchor")
  /\ UNCHANGED <<ledgerVars, rowVars, anchorTx, anchors, lock, loc, faultVars>>

\* Another sealer was faster: only a missing anchor is made up for.
LoseInsertRace(w) ==
  /\ pc[w] = "insert" /\ loc[w].rnd \in sealed
  /\ loc' = [loc EXCEPT ![w].snap = report[loc[w].rnd]]
  /\ Goto(w, IF anchorTx[loc[w].rnd] = 0 THEN "anchor" ELSE "seal")
  /\ UNCHANGED <<ledgerVars, rowVars, sealVars, lock, faultVars>>

\* The anchor memo is validated; the answer may be lost.
SubmitAnchor(w) ==
  /\ pc[w] = "anchor"
  /\ anchors' = Append(anchors, [round |-> loc[w].rnd, report |-> loc[w].snap])
  /\ loc' = [loc EXCEPT ![w].tx = Len(anchors) + 1]
  /\ \/ Goto(w, "mark") /\ UNCHANGED failures
     \/ /\ failures < MaxFailures /\ failures' = failures + 1
        /\ Goto(w, "seal")
  /\ UNCHANGED <<ledgerVars, rowVars, sealed, report, anchorTx, lock, losses>>

SetAnchorTx(w) ==
  /\ pc[w] = "mark"
  /\ anchorTx' = [anchorTx EXCEPT ![loc[w].rnd] = loc[w].tx]
  /\ Goto(w, "seal")
  /\ UNCHANGED <<ledgerVars, rowVars, sealed, report, anchors, lock, loc, faultVars>>

-----------------------------------------------------------------------------
(* The end of a pass.                                                      *)

Free(w) == lock' = IF lock = w THEN None ELSE lock

Forget(w) ==
  /\ Goto(w, "idle")
  /\ loc' = [loc EXCEPT ![w] = Idle]

EndPass(w) ==
  /\ \/ pc[w] = "seal" /\ loc[w].queue = {}
     \/ pc[w] = "page" /\ loc[w].from < floor /\ loc[w].retries = MaxPrunedRetries
  /\ Forget(w) /\ Free(w)
  /\ UNCHANGED <<ledgerVars, rowVars, sealVars, faultVars>>

\* The database refuses a record: the exception ends the pass before the
\* cursor is written and before anything is verified or sealed.
RecordRefused(w) ==
  /\ pc[w] = "persist" /\ loc[w].next <= loc[w].last
  /\ chain[loc[w].next].kind = "refused"
  /\ Forget(w) /\ Free(w)
  /\ UNCHANGED <<ledgerVars, rowVars, sealVars, faultVars>>

\* The process dies, or a call that no branch above handles raises.
AbortPass(w) ==
  /\ pc[w] # "idle" /\ failures < MaxFailures
  /\ failures' = failures + 1
  /\ Forget(w) /\ Free(w)
  /\ UNCHANGED <<ledgerVars, rowVars, sealVars, losses>>

\* The database drops the idle session that holds the lock.
LoseSession ==
  /\ lock # None /\ losses < MaxLosses
  /\ losses' = losses + 1
  /\ lock' = None
  /\ UNCHANGED <<ledgerVars, rowVars, sealVars, pc, loc, failures>>

ScanSteps(w) ==
  \/ BeginPass(w) \/ ReadPage(w) \/ ClampToFloor(w) \/ PersistNext(w)
  \/ EndPage(w) \/ WriteCursor(w)
VerifySteps(w) ==
  \/ ListActive(w) \/ UpsertOutcomes(w) \/ EndVerification(w)
  \/ \E r \in Rounds : LoadRound(w, r)
SealSteps(w) ==
  \/ ListDue(w) \/ PinReport(w) \/ InsertReport(w) \/ LoseInsertRace(w)
  \/ SubmitAnchor(w) \/ SetAnchorTx(w)
  \/ \E r \in Rounds : SkipAnchored(w, r) \/ RetryAnchor(w, r) \/ AssembleReport(w, r)
WorkerSteps(w) ==
  ScanSteps(w) \/ VerifySteps(w) \/ SealSteps(w) \/ EndPass(w) \/ RecordRefused(w)
Faults ==
  \/ LoseSession
  \/ \E w \in Workers : VerificationFails(w) \/ PinOrAnchorFails(w) \/ AbortPass(w)

Next ==
  \/ LedgerCloses \/ Prune
  \/ \E w \in Workers : WorkerSteps(w)
  \/ Faults

Spec == Init /\ [][Next]_vars

\* The loop runs for ever and its calls return; ledgers keep closing.
Fairness ==
  /\ WF_vars(LedgerCloses)
  /\ \A w \in Workers : WF_vars(WorkerSteps(w))

FairSpec == Spec /\ Fairness

-----------------------------------------------------------------------------
(* Properties.                                                             *)

Entries == [ledger : Nat, kind : Kinds, round : Rounds]
Positions == 1 .. MaxEntries
Locals ==
  [began : Nat, start : Nat, from : Nat, next : Nat \ {0}, last : Nat, more : BOOLEAN,
   pages : Nat, highest : Nat, retries : Nat, queue : SUBSET Rounds,
   rnd : Rounds \cup {None}, snap : SUBSET Positions, tx : Nat]
Steps ==
  {"idle", "page", "persist", "cursor", "verify", "load", "upsert", "clock",
   "seal", "pin", "insert", "anchor", "mark"}

TypeOK ==
  /\ chain \in Seq(Entries) /\ Len(chain) <= MaxEntries
  /\ tip \in Nat /\ floor \in Nat
  /\ announced \in [Rounds -> Nat \cup {None}]
  /\ stored \subseteq DOMAIN chain
  /\ cursor \in Nat
  /\ outcomes \in [Rounds -> SUBSET Positions]
  /\ sealed \subseteq Rounds
  /\ report \in [Rounds -> SUBSET Positions]
  /\ anchors \in Seq([round : Rounds, report : SUBSET Positions])
  /\ anchorTx \in [Rounds -> 0 .. Len(anchors)]
  /\ lock \in Workers \cup {None}
  /\ pc \in [Workers -> Steps]
  /\ loc \in [Workers -> Locals]
  /\ failures \in Nat /\ losses \in 0 .. MaxLosses

\* Whatever lies below the cursor and was never pruned is in the database: a
\* capped or broken pass, a pass that starts over at the node's oldest ledger
\* and a second worker leave no gap behind the cursor.
NothingSkipped ==
  \A n \in DOMAIN chain :
    (chain[n].ledger < cursor /\ chain[n].ledger >= floor) =>
      /\ chain[n].kind \in {"commit", "reveal"} => n \in stored
      /\ chain[n].kind = "announcement" => announced[chain[n].round] # None

\* A round's windows are those of its first announcement, unless the node had
\* pruned that one: whatever order passes and workers store them in.
WindowsOfFirstAnnouncement ==
  \A n \in DOMAIN chain :
    LET e == chain[n] IN
      (e.kind = "announcement" /\ announced[e.round] # None
         /\ e.ledger < announced[e.round]) => e.ledger < floor

\* If a pass has pages for all there is, however often pruning makes it start
\* over, and no call has failed, a sealed report was computed from every commit
\* and reveal of the round that was validated before its windows closed: the
\* grace outlasts the pass that began before the deadline.  (Sealing looks at
\* the ledger's clock, not at the cursor: after a capped pass or a failed
\* verification the report may lack records.)
Roomy == PageLimit * MaxPages >= (MaxPrunedRetries + 1) * MaxEntries
InWindowRecordsCounted ==
  (failures = 0 /\ Roomy) =>
    \A r \in sealed : \A n \in DOMAIN chain :
      (/\ chain[n].kind \in {"commit", "reveal"} /\ chain[n].round = r
       /\ chain[n].ledger < announced[r] + RevealWindow
       /\ chain[n].ledger >= floor) => n \in report[r]

\* Once a round is sealed its outcomes do not change.
OutcomesFrozen ==
  [][\A r \in sealed : outcomes'[r] = outcomes[r]]_vars

\* Two sealers, a lost anchor answer and records that arrive late leave a
\* sealed report alone, every anchor memo names it, and the database knows
\* only of anchors that exist: the promise of SealedReports.
Sealed == INSTANCE SealedReports WITH
  Contents <- SUBSET Positions,
  memos <- {<<anchors[i].round, anchors[i].report>> : i \in DOMAIN anchors},
  marked <- {r \in Rounds : anchorTx[r] # 0}
SealsOnce == Sealed!Spec

\* Commits and reveals the node has and the database has not, with no entry
\* before them that the database refuses.
Missing ==
  {n \in DOMAIN chain \ stored :
     /\ chain[n].kind \in {"commit", "reveal"} /\ chain[n].ledger >= floor
     /\ \A k \in 1 .. n : chain[k].kind # "refused"}

\* A commit or reveal that stays on the node is stored in the end, whatever is
\* cut off or fails before, if pages go on past the ledger a pass begins with.
RecordsArrive ==
  \A n \in 1 .. MaxEntries : (n \in Missing) ~> (n \notin Missing)

\* A round that can be sealed is sealed, and its anchor is known, in the end:
\* an anchor that failed once is tried again.  (An entry the database refuses
\* ends every pass before it seals.)
SealedAndAnchored ==
  \A r \in Rounds :
    (r \in Active /\ tip >= SealDeadline(r))
      ~> \/ r \in sealed /\ anchorTx[r] # 0
         \/ \E n \in DOMAIN chain : chain[n].kind = "refused"

=============================================================================
