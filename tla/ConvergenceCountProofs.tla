------------------------ MODULE ConvergenceCountProofs ------------------------
(***************************************************************************)
(* A sealed report counts every record of its window, while no session is  *)
(* lost, no call fails and the grace outlasts a pass.  CountInv follows a  *)
(* pass: its pages last for the whole history, what was on the ledger when *)
(* it began is stored before it verifies, every active round is judged on  *)
(* all that is stored before it seals, and it seals only rounds whose      *)
(* window had closed when it began.                                        *)
(***************************************************************************)
EXTENDS ConvergenceProofs

USE DEF ledgerVars, rowVars, sealVars, faultVars

\* Each page that was not the last one moved the scan on by PageLimit entries,
\* and each restart at the floor forgoes at most the whole history.
PageBudget(w) ==
  /\ pc[w] \in {"page", "persist"} => loc[w].retries <= MaxPrunedRetries
  /\ pc[w] = "page" =>
       loc[w].pages * PageLimit <= loc[w].retries * MaxEntries + (loc[w].next - 1)
  /\ pc[w] = "persist" /\ loc[w].more =>
       /\ loc[w].pages * PageLimit + PageLimit
            <= loc[w].retries * MaxEntries + loc[w].last
       /\ loc[w].last < MaxEntries

\* A pass that has written its cursor has handled what was on the ledger when
\* it began.
SeenFromBegin(w) ==
  /\ pc[w] # "idle" => loc[w].began <= tip /\ tip <= loc[w].began + MaxPass
  /\ pc[w] = "persist" /\ ~loc[w].more =>
       \A n \in DOMAIN chain : chain[n].ledger <= loc[w].began => n <= loc[w].last
  /\ pc[w] \notin {"idle", "page", "persist"} =>
       \A n \in DOMAIN chain :
         (chain[n].ledger <= loc[w].began /\ chain[n].ledger >= floor) => Handled(n)

Judging == {"load", "upsert"}
Closing == {"clock", "seal", "pin", "insert", "anchor", "mark"}

UpToDate(r) == Submissions(r) \subseteq outcomes[r]

\* When verification is over every active round is judged on all its rows.
JudgedFully(w) ==
  /\ pc[w] = "upsert" => loc[w].snap = Submissions(loc[w].rnd)
  /\ pc[w] \in Judging =>
       \A r \in Active : \/ r \in loc[w].queue
                         \/ pc[w] = "upsert" /\ r = loc[w].rnd
                         \/ UpToDate(r)
  /\ pc[w] \in Closing => \A r \in Active : UpToDate(r)

\* S holds what the node retains of the round's window, which is over.
Covers(r, S) ==
  /\ announced[r] # None /\ tip >= announced[r] + RevealWindow
  /\ \A n \in DOMAIN chain :
       (/\ chain[n].kind \in {"commit", "reveal"} /\ chain[n].round = r
        /\ chain[n].ledger < announced[r] + RevealWindow
        /\ chain[n].ledger >= floor) => n \in S

Overdue(r) == r \in Active /\ tip >= SealDeadline(r)

SealsFully(w) ==
  /\ pc[w] \in Closing \ {"clock"} => \A r \in loc[w].queue \ sealed : Overdue(r)
  /\ pc[w] \in {"pin", "insert"} => Covers(loc[w].rnd, loc[w].snap)

CountInv ==
  /\ \A w \in Workers : PageBudget(w) /\ SeenFromBegin(w)
  /\ failures = 0 => /\ \A w \in Workers : JudgedFully(w) /\ SealsFully(w)
                     /\ \A r \in sealed : Covers(r, report[r])

-----------------------------------------------------------------------------
(* One worker at a time.                                                   *)

Moves(w) ==
  \/ WorkerSteps(w) \/ VerificationFails(w) \/ PinOrAnchorFails(w) \/ AbortPass(w)

LEMMA LocalTypes ==
  ASSUME TypeOK
  PROVE  /\ loc \in [Workers -> Locals] /\ pc \in [Workers -> Steps]
         /\ Len(chain) <= MaxEntries
         /\ \A w \in Workers : loc[w] \in Locals /\ pc[w] \in Steps
         /\ tip \in Nat /\ floor \in Nat /\ cursor \in Nat /\ failures \in Nat
BY DEF TypeOK

\* While one worker moves, the others are idle.
LEMMA OthersIdle ==
  ASSUME TypeOK, LoneInv, NEW w \in Workers, Moves(w)
  PROVE  \A v \in Workers \ {w} : pc[v] = "idle" /\ pc'[v] = "idle"
<1>1. \A v \in Workers \ {w} : pc'[v] = pc[v]
  BY OtherWorkers DEF Moves
<1>2. \A v \in Workers \ {w} : pc[v] = "idle"
  <2>1. CASE BeginPass(w)
    BY <2>1, ConvergenceAssumption DEF BeginPass, LoneInv, ConvergenceAssumption
  <2>2. CASE ~BeginPass(w)
    <3>1. pc[w] # "idle"
      BY <2>2 DEF Moves, WorkerSteps, ScanSteps, VerifySteps, SealSteps, ReadPage,
         ClampToFloor, PersistNext, EndPage, WriteCursor, ListActive, LoadRound,
         UpsertOutcomes, EndVerification, ListDue, PinReport, InsertReport,
         LoseInsertRace, SubmitAnchor, SetAnchorTx, SkipAnchored, RetryAnchor,
         AssembleReport, EndPass, RecordRefused, VerificationFails, PinOrAnchorFails,
         AbortPass
    <3> QED BY <3>1 DEF LoneInv
  <2> QED BY <2>1, <2>2
<1> QED BY <1>1, <1>2

-----------------------------------------------------------------------------
(* Scanning.                                                               *)

LEMMA ProductMonotone == \A a, b, c \in Nat : a <= b => a * c <= b * c
OBVIOUS

LEMMA Bounds ==
  /\ PageLimit \in Nat /\ PageLimit >= 1 /\ MaxPages \in Nat
  /\ MaxPrunedRetries \in Nat /\ MaxEntries \in Nat
  /\ MaxPass \in Nat /\ Grace \in Nat /\ RevealWindow \in Nat
<1>1. {MaxPrunedRetries, RevealWindow, Grace, MaxPass, MaxPerLedger,
       MaxEntries, MaxTip, MaxFloor, MaxFailures, MaxLosses} \subseteq Nat
  BY ConvergenceAssumption DEF ConvergenceAssumption
<1>2. {PageLimit, MaxPages} \subseteq Nat \ {0}
  BY ConvergenceAssumption DEF ConvergenceAssumption
<1> QED BY <1>1, <1>2

\* Every move of a worker keeps its pages within the budget.
LEMMA BudgetStep ==
  ASSUME TypeOK, Cut, Ordered, NEW w \in Workers, PageBudget(w), Moves(w)
  PROVE  PageBudget(w)'
<1>t. /\ loc \in [Workers -> Locals] /\ pc \in [Workers -> Steps] /\ loc[w] \in Locals
      /\ floor \in Nat /\ cursor \in Nat
  BY LocalTypes
<1>l. /\ loc[w].pages \in Nat /\ loc[w].retries \in Nat /\ loc[w].next \in Nat \ {0}
      /\ loc[w].last \in Nat /\ loc[w].from \in Nat /\ loc[w].more \in BOOLEAN
  BY <1>t DEF Locals
<1>d. Len(chain) \in Nat /\ Len(chain) <= MaxEntries
  BY PositionsBound DEF TypeOK
<1> DEFINE pages == loc[w].pages  retries == loc[w].retries  next == loc[w].next
           last == loc[w].last
<1>m. /\ pages \in Nat /\ retries \in Nat /\ next \in Nat \ {0} /\ last \in Nat
  BY <1>l
<1>1. CASE BeginPass(w)
  <2>1. FirstAt(cursor) \in 1 .. Len(chain) + 1
    BY <1>t, FirstAtCut
  <2>2. /\ loc'[w].pages = 0 /\ loc'[w].retries = 0 /\ loc'[w].next = FirstAt(cursor)
        /\ pc'[w] = "page"
    BY <1>1, <1>t DEF BeginPass, Goto, Idle
  <2>3. 0 * PageLimit = 0 /\ 0 * MaxEntries = 0
    BY Bounds
  <2> QED BY <2>1, <2>2, <2>3, <1>d, Bounds DEF PageBudget
<1>2. CASE ReadPage(w)
  <2> DEFINE end == next + PageLimit - 1
             to == IF end < Len(chain) THEN end ELSE Len(chain)
  <2>1. /\ pc[w] = "page" /\ pc'[w] = "persist"
        /\ loc'[w].pages = pages /\ loc'[w].retries = retries
        /\ loc'[w].last = to /\ loc'[w].more = (to < Len(chain))
    BY <1>2, <1>t DEF ReadPage, Goto, Locals
  <2>2. pages * PageLimit <= retries * MaxEntries + (next - 1) /\ retries <= MaxPrunedRetries
    BY <2>1 DEF PageBudget
  <2>3. pages * PageLimit \in Nat /\ retries * MaxEntries \in Nat
    BY <1>l, Bounds
  <2>4. to < Len(chain) => /\ pages * PageLimit + PageLimit <= retries * MaxEntries + to
                           /\ to < MaxEntries
    <3>1. SUFFICES ASSUME to < Len(chain)
                   PROVE  /\ pages * PageLimit + PageLimit <= retries * MaxEntries + to
                          /\ to < MaxEntries
      OBVIOUS
    <3>2. to = next + PageLimit - 1
      BY <3>1, <1>d
    <3> HIDE DEF pages, retries, next, to
    <3> QED BY <2>2, <2>3, <3>1, <3>2, <1>d, <1>m, Bounds
  <2> QED BY <2>1, <2>2, <2>4 DEF PageBudget
<1>3. CASE ClampToFloor(w)
  <2> DEFINE from == Larger(floor, loc[w].from + 1)
  <2>1. from \in Nat
    BY <1>t, <1>l DEF Larger
  <2>2. FirstAt(from) \in 1 .. Len(chain) + 1
    BY <2>1, FirstAtCut
  <2>3. /\ pc[w] = "page" /\ pc'[w] = "page" /\ retries < MaxPrunedRetries
        /\ loc'[w].pages = pages /\ loc'[w].retries = retries + 1
        /\ loc'[w].next = FirstAt(from)
    BY <1>3, <1>t DEF ClampToFloor, Locals
  <2>4. pages * PageLimit <= retries * MaxEntries + (next - 1)
    BY <2>3 DEF PageBudget
  <2>5. (retries + 1) * MaxEntries = retries * MaxEntries + MaxEntries
    BY <1>l, Bounds
  <2>6. next - 1 <= MaxEntries
    <3>1. next <= Len(chain) + 1
      BY <2>3 DEF Ordered, Scanning
    <3> HIDE DEF next
    <3> QED BY <3>1, <1>d, <1>m, Bounds
  <2>7. pages * PageLimit \in Nat /\ retries * MaxEntries \in Nat
    BY <1>l, Bounds
  <2>8. pages * PageLimit <= (retries + 1) * MaxEntries + (FirstAt(from) - 1)
    <3> DEFINE read == pages * PageLimit  behind == retries * MaxEntries
               first == FirstAt(from)
    <3>1. read <= behind + (next - 1) /\ read \in Nat /\ behind \in Nat
      BY <2>4, <2>7
    <3>2. first \in Nat /\ first >= 1
      BY <2>2, <1>d
    <3>3. (retries + 1) * MaxEntries = behind + MaxEntries
      BY <2>5
    <3> HIDE DEF read, behind, first, next
    <3>4. read <= (behind + MaxEntries) + (first - 1)
      BY <2>6, <3>1, <3>2, <1>m, Bounds
    <3> QED BY <3>3, <3>4 DEF read, first
  <2> QED BY <2>3, <2>8, <1>l, Bounds DEF PageBudget
<1>4. CASE PersistNext(w)
  <2>1. /\ pc[w] = "persist" /\ pc'[w] = "persist"
        /\ loc'[w].pages = pages /\ loc'[w].retries = retries
        /\ loc'[w].last = last /\ loc'[w].more = loc[w].more
    BY <1>4, <1>t DEF PersistNext, Locals
  <2> QED BY <2>1 DEF PageBudget
<1>5. CASE EndPage(w)
  <2>1. /\ pc[w] = "persist" /\ next > last /\ pc'[w] # "persist"
        /\ pc'[w] = "page" => loc[w].more
        /\ loc'[w].pages = pages + 1 /\ loc'[w].retries = retries /\ loc'[w].next = next
    BY <1>5, <1>t DEF EndPage, Goto, Locals
  <2>2. retries <= MaxPrunedRetries
    BY <2>1 DEF PageBudget
  <2>3. CASE pc'[w] = "page"
    <3>1. pages * PageLimit + PageLimit <= retries * MaxEntries + last
      BY <2>1, <2>3 DEF PageBudget
    <3>2. (pages + 1) * PageLimit = pages * PageLimit + PageLimit
      BY <1>l, Bounds
    <3>3. retries * MaxEntries \in Nat /\ pages * PageLimit \in Nat
      BY <1>l, Bounds
    <3>4. (pages + 1) * PageLimit <= retries * MaxEntries + (next - 1)
      <4> HIDE DEF pages, retries, next, last
      <4> QED BY <2>1, <3>1, <3>2, <3>3, <1>m, Bounds
    <3> QED BY <2>1, <2>2, <2>3, <3>4 DEF PageBudget
  <2> QED BY <2>1, <2>2, <2>3 DEF PageBudget
<1>6. CASE WriteCursor(w)
  BY <1>6, <1>t DEF WriteCursor, Goto, PageBudget
<1>7. CASE Apart(w)
  BY <1>7, ApartFromScan DEF PageBudget, Scanning
<1> QED BY <1>1, <1>2, <1>3, <1>4, <1>5, <1>6, <1>7
        DEF Moves, WorkerSteps, ScanSteps, Apart

\* A pass that has room never ends on a page with more to come.
LEMMA RoomLeft ==
  ASSUME TypeOK, Roomy, NEW w \in Workers, PageBudget(w),
         pc[w] = "persist", loc[w].more
  PROVE  loc[w].pages + 1 < MaxPages
<1>l. /\ loc[w].pages \in Nat /\ loc[w].retries \in Nat /\ loc[w].last \in Nat
  BY LocalTypes DEF Locals
<1> DEFINE pages == loc[w].pages  retries == loc[w].retries
<1>1. /\ pages * PageLimit + PageLimit <= retries * MaxEntries + loc[w].last
      /\ loc[w].last < MaxEntries /\ retries <= MaxPrunedRetries
  BY DEF PageBudget
<1>2. SUFFICES ASSUME MaxPages <= pages + 1
               PROVE  FALSE
  BY <1>l, Bounds
<1>3. MaxPages * PageLimit <= (pages + 1) * PageLimit
  BY <1>2, <1>l, Bounds, ProductMonotone
<1>4. (retries + 1) * MaxEntries <= (MaxPrunedRetries + 1) * MaxEntries
  BY <1>1, <1>l, Bounds, ProductMonotone
<1>5. /\ (pages + 1) * PageLimit = pages * PageLimit + PageLimit
      /\ (retries + 1) * MaxEntries = retries * MaxEntries + MaxEntries
      /\ PageLimit * MaxPages = MaxPages * PageLimit
  BY <1>l, Bounds
<1>6. /\ MaxPages * PageLimit \in Nat /\ pages * PageLimit \in Nat
      /\ retries * MaxEntries \in Nat /\ (MaxPrunedRetries + 1) * MaxEntries \in Nat
  BY <1>l, Bounds
<1> HIDE DEF pages, retries
<1>7. (MaxPrunedRetries + 1) * MaxEntries <= MaxPages * PageLimit
  BY <1>5 DEF Roomy
<1> QED BY <1>1, <1>3, <1>4, <1>5, <1>6, <1>7, <1>l, Bounds

\* What is on the ledger when a pass begins is handled when it verifies.
LEMMA SeenStep ==
  ASSUME TypeOK, ScanInv, Roomy, NEW w \in Workers, PageBudget(w), SeenFromBegin(w),
         Moves(w)
  PROVE  SeenFromBegin(w)'
<1>t. /\ loc \in [Workers -> Locals] /\ pc \in [Workers -> Steps] /\ loc[w] \in Locals
      /\ tip \in Nat /\ floor \in Nat
  BY LocalTypes
<1>l. loc[w].began \in Nat /\ loc[w].last \in Nat /\ loc[w].next \in Nat
      /\ loc[w].more \in BOOLEAN
  BY <1>t DEF Locals
<1>d. DOMAIN chain = 1 .. Len(chain) /\ Len(chain) \in Nat
  BY PositionsBound
<1>1. CASE BeginPass(w)
  <2>1. pc'[w] = "page" /\ loc'[w].began = tip /\ tip' = tip
    BY <1>1, <1>t DEF BeginPass, Goto, Idle
  <2> QED BY <2>1, <1>t, Bounds DEF SeenFromBegin
<1>2. CASE ReadPage(w)
  <2> DEFINE end == loc[w].next + PageLimit - 1
             to == IF end < Len(chain) THEN end ELSE Len(chain)
  <2>1. /\ pc[w] = "page" /\ pc'[w] = "persist" /\ UNCHANGED <<tip, chain>>
        /\ loc'[w].began = loc[w].began
        /\ loc'[w].last = to /\ loc'[w].more = (to < Len(chain))
    BY <1>2, <1>t DEF ReadPage, Goto, Locals
  <2>2. ~(to < Len(chain)) => to = Len(chain)
    BY <1>l, <1>d, Bounds
  <2>3. ~loc'[w].more => loc'[w].last = Len(chain)
    BY <2>1, <2>2
  <2> HIDE DEF to
  <2> QED BY <2>1, <2>3, <1>d DEF SeenFromBegin
<1>3. CASE ClampToFloor(w)
  BY <1>3, <1>t DEF ClampToFloor, Locals, SeenFromBegin
<1>4. CASE PersistNext(w)
  <2>1. /\ pc[w] = "persist" /\ pc'[w] = "persist" /\ UNCHANGED <<tip, chain>>
        /\ loc'[w].began = loc[w].began /\ loc'[w].last = loc[w].last
        /\ loc'[w].more = loc[w].more
    BY <1>4, <1>t DEF PersistNext, Locals
  <2> QED BY <2>1 DEF SeenFromBegin
<1>5. CASE EndPage(w)
  <2>1. /\ pc[w] = "persist" /\ loc[w].next > loc[w].last
        /\ pc'[w] \in {"page", "cursor"} /\ loc'[w].began = loc[w].began
        /\ pc'[w] = "cursor" => ~(loc[w].more /\ loc[w].pages + 1 < MaxPages)
        /\ UNCHANGED <<chain, tip, floor, stored, announced>>
    BY <1>5, <1>t DEF EndPage, Goto, Locals
  <2>2. CASE pc'[w] = "page"
    BY <2>1, <2>2 DEF SeenFromBegin
  <2>3. CASE pc'[w] = "cursor"
    <3>1. ~loc[w].more
      BY <2>1, <2>3, RoomLeft
    <3>2. \A n \in DOMAIN chain : chain[n].ledger <= loc[w].began => n < loc[w].next
      BY <2>1, <3>1, <1>d, <1>l DEF SeenFromBegin
    <3>3. \A n \in DOMAIN chain :
            (chain[n].ledger <= loc[w].began /\ chain[n].ledger >= floor) => Handled(n)
      BY <2>1, <3>2 DEF ScanInv, NothingBehind, Scanning
    <3> QED BY <2>1, <2>3, <3>3 DEF SeenFromBegin, Handled
  <2> QED BY <2>1, <2>2, <2>3
<1>6. CASE WriteCursor(w)
  <2>1. /\ pc[w] = "cursor" /\ pc'[w] = "verify"
        /\ UNCHANGED <<chain, tip, floor, stored, announced, loc>>
    BY <1>6, <1>t DEF WriteCursor, Goto
  <2> QED BY <2>1 DEF SeenFromBegin, Handled
<1>7. CASE Apart(w)
  <2>1. /\ UNCHANGED <<chain, tip, floor, announced, stored>> /\ pc'[w] \notin Scanning
    BY <1>7, ApartFromScan
  <2>2. \/ pc'[w] = "idle"
        \/ /\ pc[w] \notin {"idle", "page", "persist"}
           /\ loc'[w].began = loc[w].began
    <3> USE <1>t DEF Goto, Forget, Locals
    <3>1. CASE VerifySteps(w)
      <4>1. CASE ListActive(w) \/ UpsertOutcomes(w) \/ EndVerification(w)
        BY <4>1 DEF ListActive, UpsertOutcomes, EndVerification
      <4>2. CASE \E r \in Rounds : LoadRound(w, r)
        BY <4>2 DEF LoadRound
      <4> QED BY <3>1, <4>1, <4>2 DEF VerifySteps
    <3>2. CASE ListDue(w) \/ PinReport(w) \/ InsertReport(w) \/ LoseInsertRace(w)
      BY <3>2 DEF ListDue, PinReport, InsertReport, LoseInsertRace
    <3>3. CASE SubmitAnchor(w) \/ SetAnchorTx(w)
      BY <3>3 DEF SubmitAnchor, SetAnchorTx
    <3>4. CASE \E r \in Rounds : SkipAnchored(w, r) \/ RetryAnchor(w, r) \/ AssembleReport(w, r)
      BY <3>4 DEF SkipAnchored, RetryAnchor, AssembleReport
    <3>5. CASE EndPass(w) \/ RecordRefused(w) \/ AbortPass(w)
      BY <3>5 DEF EndPass, RecordRefused, AbortPass
    <3>6. CASE VerificationFails(w) \/ PinOrAnchorFails(w)
      BY <3>6 DEF VerificationFails, PinOrAnchorFails
    <3> QED BY <1>7, <3>1, <3>2, <3>3, <3>4, <3>5, <3>6 DEF Apart, SealSteps
  <2>3. CASE pc'[w] = "idle"
    BY <2>3 DEF SeenFromBegin
  <2>4. CASE pc'[w] # "idle"
    BY <2>1, <2>2, <2>4 DEF SeenFromBegin, Scanning, Handled
  <2> QED BY <2>3, <2>4
<1> QED BY <1>1, <1>2, <1>3, <1>4, <1>5, <1>6, <1>7
        DEF Moves, WorkerSteps, ScanSteps, Apart

-----------------------------------------------------------------------------
(* Judging.                                                                *)

LEMMA SameRows ==
  ASSUME UNCHANGED <<chain, stored, announced>>
  PROVE  /\ \A r \in Rounds : Submissions(r)' = Submissions(r)
         /\ Active' = {r \in Rounds : announced[r] # None /\ HasCommit(r) /\ r \notin sealed'}
BY DEF Submissions, Active, HasCommit

\* A verification that ends without a failure has judged every active round on
\* all its rows.
LEMMA JudgedStep ==
  ASSUME TypeOK, LocalFacts, NEW w \in Workers, JudgedFully(w), Moves(w), failures' = 0
  PROVE  JudgedFully(w)'
<1>t. /\ loc \in [Workers -> Locals] /\ pc \in [Workers -> Steps] /\ loc[w] \in Locals
      /\ failures \in Nat
  BY LocalTypes
<1>o. outcomes \in [Rounds -> SUBSET Positions]
  BY DEF TypeOK
<1>1. CASE ScanSteps(w)
  <2>1. pc'[w] \in {"page", "persist", "cursor", "verify"}
    BY <1>1, <1>t DEF ScanSteps, BeginPass, ReadPage, ClampToFloor, PersistNext, EndPage,
       WriteCursor, Goto
  <2> QED BY <2>1 DEF JudgedFully, Judging, Closing
<1>2. CASE Apart(w)
  <2>u. UNCHANGED <<chain, stored, announced>>
    BY <1>2, ApartFromScan
  <2>s. /\ \A r \in Rounds : Submissions(r)' = Submissions(r)
        /\ sealed' = sealed => Active' = Active
        /\ sealed \subseteq sealed' => Active' \subseteq Active
        /\ Active \subseteq Rounds /\ Active' \subseteq Rounds
    BY <2>u, SameRows DEF Active
  <2>1. CASE ListActive(w)
    <3>1. pc'[w] = "load" /\ loc'[w].queue = Active /\ sealed' = sealed
      BY <2>1, <1>t DEF ListActive, Goto, Locals
    <3> QED BY <3>1, <2>s DEF JudgedFully, Judging, Closing
  <2>2. ASSUME NEW r \in Rounds, LoadRound(w, r)
        PROVE  JudgedFully(w)'
    <3>1. /\ pc[w] = "load" /\ pc'[w] = "upsert"
          /\ loc'[w].queue = loc[w].queue \ {r} /\ loc'[w].rnd = r
          /\ loc'[w].snap = Submissions(r)
          /\ UNCHANGED <<sealed, outcomes>>
      BY <2>2, <1>t DEF LoadRound, Goto, Locals
    <3>2. \A q \in Active : q \in loc[w].queue \/ UpToDate(q)
      BY <3>1 DEF JudgedFully, Judging
    <3> QED BY <3>1, <3>2, <2>s DEF JudgedFully, Judging, Closing, UpToDate
  <2>3. CASE UpsertOutcomes(w)
    <3>1. /\ pc[w] = "upsert" /\ pc'[w] = "load" /\ loc[w].rnd \in Rounds
          /\ outcomes' = [outcomes EXCEPT ![loc[w].rnd] = loc[w].snap]
          /\ UNCHANGED <<sealed, loc>>
      BY <2>3, <1>t DEF UpsertOutcomes, Goto, LocalFacts
    <3>2. /\ loc[w].snap = Submissions(loc[w].rnd)
          /\ \A q \in Active : q \in loc[w].queue \/ q = loc[w].rnd \/ UpToDate(q)
      BY <3>1 DEF JudgedFully, Judging
    <3>3. \A q \in Active : q \in loc[w].queue \/ UpToDate(q)'
      BY <3>1, <3>2, <2>s, <1>o DEF UpToDate
    <3> QED BY <3>1, <3>3, <2>s DEF JudgedFully, Judging, Closing
  <2>4. CASE EndVerification(w)
    <3>1. /\ pc[w] = "load" /\ loc[w].queue = {} /\ pc'[w] = "clock"
          /\ UNCHANGED <<sealed, outcomes>>
      BY <2>4, <1>t DEF EndVerification, Goto
    <3>2. \A q \in Active : UpToDate(q)
      BY <3>1 DEF JudgedFully, Judging
    <3> QED BY <3>1, <3>2, <2>s DEF JudgedFully, Judging, Closing, UpToDate
  <2>5. CASE SealSteps(w)
    <3>1. pc[w] \in Closing /\ pc'[w] \in Closing
      <4> USE <1>t DEF Goto, Closing
      <4>1. CASE ListDue(w) \/ PinReport(w) \/ InsertReport(w) \/ LoseInsertRace(w)
        BY <4>1 DEF ListDue, PinReport, InsertReport, LoseInsertRace
      <4>2. CASE SubmitAnchor(w) \/ SetAnchorTx(w)
        BY <4>2 DEF SubmitAnchor, SetAnchorTx
      <4>3. CASE \E r \in Rounds : SkipAnchored(w, r) \/ RetryAnchor(w, r) \/ AssembleReport(w, r)
        BY <4>3 DEF SkipAnchored, RetryAnchor, AssembleReport
      <4> QED BY <2>5, <4>1, <4>2, <4>3 DEF SealSteps
    <3>2. sealed \subseteq sealed' /\ outcomes' = outcomes
      <4>1. CASE ListDue(w) \/ PinReport(w) \/ InsertReport(w) \/ LoseInsertRace(w)
        BY <4>1 DEF ListDue, PinReport, InsertReport, LoseInsertRace
      <4>2. CASE SubmitAnchor(w) \/ SetAnchorTx(w)
        BY <4>2 DEF SubmitAnchor, SetAnchorTx
      <4>3. CASE \E r \in Rounds : SkipAnchored(w, r) \/ RetryAnchor(w, r) \/ AssembleReport(w, r)
        BY <4>3 DEF SkipAnchored, RetryAnchor, AssembleReport
      <4> QED BY <2>5, <4>1, <4>2, <4>3 DEF SealSteps
    <3>3. \A q \in Active : UpToDate(q)
      BY <3>1 DEF JudgedFully
    <3>4. pc'[w] \notin Judging /\ pc'[w] # "upsert"
      BY <3>1 DEF Closing, Judging
    <3> QED BY <3>1, <3>2, <3>3, <3>4, <2>s DEF JudgedFully, UpToDate
  <2>6. CASE EndPass(w) \/ RecordRefused(w)
    <3>1. pc'[w] = "idle"
      BY <2>6, <1>t DEF EndPass, RecordRefused, Forget, Goto
    <3> QED BY <3>1 DEF JudgedFully, Judging, Closing
  <2>7. ~(VerificationFails(w) \/ PinOrAnchorFails(w) \/ AbortPass(w))
    BY <1>t DEF VerificationFails, PinOrAnchorFails, AbortPass
  <2> QED BY <1>2, <2>1, <2>2, <2>3, <2>4, <2>5, <2>6, <2>7 DEF Apart, VerifySteps
<1> QED BY <1>1, <1>2 DEF Moves, WorkerSteps, Apart

-----------------------------------------------------------------------------
(* Sealing.                                                                *)

\* A round that is due when it is sealed has a report of all its records: the
\* pass began when the window was over.
LEMMA DueIsCovered ==
  ASSUME TypeOK, MaxPass <= Grace + 1, NEW w \in Workers, SeenFromBegin(w),
         JudgedFully(w), pc[w] = "seal", NEW r \in Rounds, Overdue(r)
  PROVE  Covers(r, outcomes[r])
<1>1. r \in Active /\ tip >= announced[r] + RevealWindow + Grace
  BY DEF Overdue, SealDeadline
<1>2. announced[r] \in Nat /\ loc[w].began \in Nat /\ tip \in Nat
  BY <1>1, LocalTypes DEF Active, TypeOK, Locals
<1>3. tip <= loc[w].began + MaxPass
  BY DEF SeenFromBegin
<1>4. ASSUME NEW n \in DOMAIN chain, chain[n].kind \in {"commit", "reveal"},
             chain[n].round = r, chain[n].ledger < announced[r] + RevealWindow,
             chain[n].ledger >= floor
      PROVE  n \in outcomes[r]
  <2>1. chain[n].ledger \in Nat
    BY EntryTypes DEF Entries
  <2>2. chain[n].ledger <= loc[w].began
    BY <1>1, <1>2, <1>3, <1>4, <2>1, Bounds
  <2>3. Handled(n)
    BY <1>4, <2>2 DEF SeenFromBegin
  <2>4. n \in Submissions(r)
    BY <1>4, <2>3 DEF Handled, Submissions
  <2>5. UpToDate(r)
    BY <1>1 DEF JudgedFully, Closing
  <2> QED BY <2>4, <2>5 DEF UpToDate
<1>5. tip >= announced[r] + RevealWindow /\ announced[r] # None
  BY <1>1, <1>2, Bounds DEF Active
<1> QED BY <1>4, <1>5 DEF Covers

\* Whatever a worker does without a failure, reports cover their windows.
LEMMA SealsStep ==
  ASSUME TypeOK, LocalFacts, MaxPass <= Grace + 1, NEW w \in Workers, SeenFromBegin(w),
         JudgedFully(w), SealsFully(w), \A r \in sealed : Covers(r, report[r]),
         Moves(w), failures' = 0
  PROVE  SealsFully(w)' /\ \A r \in sealed' : Covers(r, report[r])'
<1>t. /\ loc \in [Workers -> Locals] /\ pc \in [Workers -> Steps] /\ loc[w] \in Locals
      /\ failures \in Nat
  BY LocalTypes
<1>o. /\ report \in [Rounds -> SUBSET Positions] /\ sealed \subseteq Rounds
      /\ announced \in [Rounds -> Nat \cup {None}]
  BY DEF TypeOK
<1>1. CASE ScanSteps(w)
  <2>1. pc'[w] \in {"page", "persist", "cursor", "verify"}
    BY <1>1, <1>t DEF ScanSteps, BeginPass, ReadPage, ClampToFloor, PersistNext, EndPage,
       WriteCursor, Goto
  <2>2. UNCHANGED <<chain, tip, floor, sealed, report>>
    BY <1>1 DEF ScanSteps, BeginPass, ReadPage, ClampToFloor, PersistNext, EndPage,
       WriteCursor
  <2>3. \A r \in Rounds : announced[r] # None => announced'[r] = announced[r]
    <3>1. CASE PersistNext(w)
      BY <3>1, <1>o DEF PersistNext, StoreAnnouncement
    <3>2. CASE ~PersistNext(w)
      BY <1>1, <3>2 DEF ScanSteps, BeginPass, ReadPage, ClampToFloor, EndPage, WriteCursor
    <3> QED BY <3>1, <3>2
  <2>4. SealsFully(w)'
    BY <2>1 DEF SealsFully, Closing
  <2>5. \A r \in sealed' : Covers(r, report[r])'
    BY <2>2, <2>3, <1>o DEF Covers
  <2> QED BY <2>4, <2>5
<1>2. CASE Apart(w)
  <2>u. UNCHANGED <<chain, tip, floor, stored, announced>>
    BY <1>2, ApartFromScan
  <2>a. ASSUME NEW r \in Rounds, Overdue(r), r \notin sealed', sealed \subseteq sealed'
        PROVE  Overdue(r)'
    BY <2>u, <2>a, SameRows DEF Overdue, Active, SealDeadline
  <2>b. ASSUME UNCHANGED <<sealed, report>>
        PROVE  \A r \in sealed' : Covers(r, report[r])'
    BY <2>u, <2>b, <1>o DEF Covers
  \* A step within sealing that leaves the rest of the queue to be handled.
  <2>q. ASSUME UNCHANGED <<sealed, report>>, pc[w] \in Closing \ {"clock"},
               loc'[w].queue \subseteq loc[w].queue, pc'[w] \notin {"pin", "insert"}
        PROVE  SealsFully(w)'
    <3>1. \A r \in loc'[w].queue \ sealed' : r \in Rounds /\ Overdue(r)
      BY <2>q, <1>t DEF SealsFully, Locals
    <3>2. \A r \in loc'[w].queue \ sealed' : Overdue(r)'
      BY <2>q, <2>a, <3>1
    <3> QED BY <2>q, <3>2 DEF SealsFully
  <2>1. CASE VerifySteps(w) \/ EndPass(w) \/ RecordRefused(w)
    <3>1. pc'[w] \in {"load", "upsert", "clock", "idle"} /\ UNCHANGED <<sealed, report>>
      <4> USE <1>t DEF Goto, Forget
      <4>1. CASE ListActive(w) \/ UpsertOutcomes(w) \/ EndVerification(w)
        BY <4>1 DEF ListActive, UpsertOutcomes, EndVerification
      <4>2. CASE \E r \in Rounds : LoadRound(w, r)
        BY <4>2 DEF LoadRound
      <4>3. CASE EndPass(w) \/ RecordRefused(w)
        BY <4>3 DEF EndPass, RecordRefused
      <4> QED BY <2>1, <4>1, <4>2, <4>3 DEF VerifySteps
    <3>2. SealsFully(w)'
      BY <3>1 DEF SealsFully, Closing
    <3> QED BY <2>b, <3>1, <3>2
  <2>2. CASE ListDue(w)
    <3>1. /\ pc'[w] = "seal" /\ UNCHANGED <<sealed, report>>
          /\ loc'[w].queue = {r \in Active : tip >= SealDeadline(r)} \cup Unanchored
      BY <2>2, <1>t DEF ListDue, Goto, Locals
    <3>2. \A r \in loc'[w].queue \ sealed' : r \in Rounds /\ Overdue(r)
      BY <3>1 DEF Overdue, Unanchored, Active
    <3>3. \A r \in loc'[w].queue \ sealed' : Overdue(r)'
      BY <2>a, <3>1, <3>2
    <3>4. SealsFully(w)'
      BY <3>1, <3>3 DEF SealsFully
    <3> QED BY <2>b, <3>1, <3>4
  <2>3. CASE PinReport(w)
    <3>1. /\ pc[w] = "pin" /\ pc'[w] = "insert" /\ UNCHANGED <<sealed, report, loc>>
      BY <2>3, <1>t DEF PinReport, Goto
    <3>2. Covers(loc[w].rnd, loc[w].snap) /\ loc[w].rnd \in Rounds
      BY <3>1 DEF SealsFully, LocalFacts
    <3>3. Covers(loc[w].rnd, loc[w].snap)'
      BY <2>u, <3>1, <3>2 DEF Covers
    <3>4. \A r \in loc'[w].queue \ sealed' : r \in Rounds /\ Overdue(r)
      BY <3>1, <1>t DEF SealsFully, Closing, Locals
    <3>5. \A r \in loc'[w].queue \ sealed' : Overdue(r)'
      BY <2>a, <3>1, <3>4
    <3>6. SealsFully(w)'
      BY <3>1, <3>3, <3>5 DEF SealsFully
    <3> QED BY <2>b, <3>1, <3>6
  <2>4. CASE InsertReport(w)
    <3>1. /\ pc[w] = "insert" /\ pc'[w] = "anchor" /\ loc' = loc
          /\ sealed' = sealed \cup {loc[w].rnd}
          /\ report' = [report EXCEPT ![loc[w].rnd] = loc[w].snap]
      BY <2>4, <1>t DEF InsertReport, Goto
    <3>2. Covers(loc[w].rnd, loc[w].snap) /\ loc[w].rnd \in Rounds
      BY <3>1 DEF SealsFully, LocalFacts
    <3>3. \A r \in sealed' : Covers(r, report'[r])
      BY <3>1, <3>2, <1>o
    <3>4. \A r \in sealed' : Covers(r, report[r])'
      BY <2>u, <3>3 DEF Covers
    <3>5. \A r \in loc'[w].queue \ sealed' : r \in Rounds /\ Overdue(r)
      BY <3>1, <1>t DEF SealsFully, Closing, Locals
    <3>6. \A r \in loc'[w].queue \ sealed' : Overdue(r)'
      BY <2>a, <3>1, <3>5
    <3>7. SealsFully(w)'
      BY <3>1, <3>6 DEF SealsFully
    <3> QED BY <3>4, <3>7
  <2>5. CASE \/ LoseInsertRace(w) \/ SubmitAnchor(w) \/ SetAnchorTx(w)
             \/ \E r \in Rounds : SkipAnchored(w, r) \/ RetryAnchor(w, r)
    <3>1. /\ pc[w] \in Closing \ {"clock"} /\ pc'[w] \notin {"pin", "insert"}
          /\ loc'[w].queue \subseteq loc[w].queue /\ UNCHANGED <<sealed, report>>
      <4> USE <1>t DEF Goto, Closing, Locals
      <4>1. CASE LoseInsertRace(w)
        BY <4>1 DEF LoseInsertRace
      <4>2. CASE SubmitAnchor(w)
        <5> DEFINE t == Len(anchors) + 1
        <5>1. loc' = [loc EXCEPT ![w].tx = t]
          BY <4>2 DEF SubmitAnchor
        <5> HIDE DEF t
        <5>2. loc'[w].queue = loc[w].queue
          BY <5>1
        <5> QED BY <4>2, <5>2 DEF SubmitAnchor
      <4>3. CASE SetAnchorTx(w)
        BY <4>3 DEF SetAnchorTx
      <4>4. CASE \E r \in Rounds : SkipAnchored(w, r) \/ RetryAnchor(w, r)
        BY <4>4 DEF SkipAnchored, RetryAnchor
      <4> QED BY <2>5, <4>1, <4>2, <4>3, <4>4
    <3> QED BY <2>b, <2>q, <3>1
  <2>6. ASSUME NEW r \in Rounds, AssembleReport(w, r)
        PROVE  SealsFully(w)' /\ \A q \in sealed' : Covers(q, report[q])'
    <3>1. /\ pc[w] = "seal" /\ pc'[w] = "pin" /\ UNCHANGED <<sealed, report>>
          /\ r \in loc[w].queue /\ r \notin sealed
          /\ loc'[w].queue = loc[w].queue \ {r}
          /\ loc'[w].rnd = r /\ loc'[w].snap = outcomes[r]
      BY <2>6, <1>t DEF AssembleReport, Goto, Locals
    <3>2. Covers(r, outcomes[r])
      BY <3>1, DueIsCovered DEF SealsFully, Closing
    <3>3. Covers(loc[w].rnd, loc[w].snap)'
      BY <2>u, <3>1, <3>2 DEF Covers
    <3>4. \A q \in loc'[w].queue \ sealed' : q \in Rounds /\ Overdue(q)
      BY <3>1, <1>t DEF SealsFully, Closing, Locals
    <3>5. \A q \in loc'[w].queue \ sealed' : Overdue(q)'
      BY <2>a, <3>1, <3>4
    <3>6. SealsFully(w)'
      BY <3>1, <3>3, <3>5 DEF SealsFully
    <3> QED BY <2>b, <3>1, <3>6
  <2>7. ~(VerificationFails(w) \/ PinOrAnchorFails(w) \/ AbortPass(w))
    BY <1>t DEF VerificationFails, PinOrAnchorFails, AbortPass
  <2> QED BY <1>2, <2>1, <2>2, <2>3, <2>4, <2>5, <2>6, <2>7 DEF Apart, SealSteps
<1> QED BY <1>1, <1>2 DEF Moves, WorkerSteps, Apart

-----------------------------------------------------------------------------
(* The ledger.                                                             *)

\* A ledger that closes is later than every window that is over and than the
\* beginning of every pass, and no row changes.
LEMMA CountLedger ==
  ASSUME TypeOK, LocalFacts, ScanInv, CountInv, LedgerCloses
  PROVE  CountInv'
<1>1. /\ Len(chain) <= Len(chain') /\ Len(chain) \in Nat /\ Len(chain') \in Nat
      /\ DOMAIN chain = 1 .. Len(chain) /\ DOMAIN chain' = 1 .. Len(chain')
      /\ \A n \in DOMAIN chain : chain'[n] = chain[n]
      /\ \A n \in DOMAIN chain' \ DOMAIN chain : chain'[n].ledger = tip + 1
      /\ tip' = tip + 1
  BY ChainGrows
<1>2. /\ UNCHANGED <<floor, announced, stored, outcomes, sealed, report, pc, loc, failures>>
      /\ \A w \in Workers : pc[w] # "idle" => tip < loc[w].began + MaxPass
  BY DEF LedgerCloses, CloseLedger
<1>t. /\ tip \in Nat /\ floor \in Nat /\ \A w \in Workers : loc[w] \in Locals
      /\ announced \in [Rounds -> Nat \cup {None}] /\ sealed \subseteq Rounds
  BY LocalTypes DEF TypeOK
<1>s. \A r \in Rounds : Submissions(r)' = Submissions(r)
  BY <1>1, <1>2 DEF Submissions, TypeOK
<1>a. Active' = Active
  <2>1. \A r \in Rounds : HasCommit(r)' <=> HasCommit(r)
    <3>1. \A r \in Rounds : Submissions(r) \subseteq DOMAIN chain
      BY DEF Submissions, TypeOK
    <3> QED BY <1>1, <1>s, <3>1 DEF HasCommit
  <2> QED BY <1>2, <2>1 DEF Active
<1>3. ASSUME NEW r \in Rounds, NEW S, NEW T, Covers(r, S), T = S
      PROVE  /\ tip' >= announced'[r] + RevealWindow /\ announced'[r] # None
             /\ \A n \in DOMAIN chain' :
                  (/\ chain'[n].kind \in {"commit", "reveal"} /\ chain'[n].round = r
                   /\ chain'[n].ledger < announced'[r] + RevealWindow
                   /\ chain'[n].ledger >= floor') => n \in T
  <2>1. announced[r] \in Nat /\ tip >= announced[r] + RevealWindow
    BY <1>t, <1>3 DEF Covers
  <2>2. \A n \in DOMAIN chain' :
          chain'[n].ledger < announced[r] + RevealWindow => n \in DOMAIN chain
    BY <1>1, <1>t, <2>1, Bounds
  <2>3. tip + 1 >= announced[r] + RevealWindow
    BY <1>t, <2>1, Bounds
  <2> QED BY <1>1, <1>2, <1>3, <2>2, <2>3 DEF Covers
<1>4. ASSUME NEW w \in Workers
      PROVE  PageBudget(w)' /\ SeenFromBegin(w)'
  <2>1. PageBudget(w) /\ SeenFromBegin(w) /\ loc[w].began \in Nat
    BY <1>t, <1>4 DEF CountInv, Locals
  <2>2. PageBudget(w)'
    BY <1>2, <2>1 DEF PageBudget
  <2>3. pc[w] # "idle" => loc[w].began <= tip + 1 /\ tip + 1 <= loc[w].began + MaxPass
    BY <1>t, <1>2, <2>1, Bounds DEF SeenFromBegin
  <2>4. \A n \in DOMAIN chain' :
          (pc[w] # "idle" /\ chain'[n].ledger <= loc[w].began) => n \in DOMAIN chain
    BY <1>1, <1>t, <2>1 DEF SeenFromBegin
  <2>5. \A n \in DOMAIN chain : Handled(n) => Handled(n)'
    BY <1>1, <1>2 DEF Handled
  <2>6. SeenFromBegin(w)'
    BY <1>1, <1>2, <2>1, <2>3, <2>4, <2>5 DEF SeenFromBegin
  <2> QED BY <2>2, <2>6
<1>5. ASSUME NEW w \in Workers, JudgedFully(w), SealsFully(w)
      PROVE  JudgedFully(w)' /\ SealsFully(w)'
  <2>1. pc[w] \in {"upsert", "pin", "insert"} => loc[w].rnd \in Rounds
    BY DEF LocalFacts
  <2>2. \A r \in Active : UpToDate(r)' <=> UpToDate(r)
    BY <1>2, <1>s DEF UpToDate, Active
  <2>3. JudgedFully(w)'
    BY <1>2, <1>5, <1>a, <1>s, <2>1, <2>2 DEF JudgedFully
  <2>4. \A r : Overdue(r) => Overdue(r)'
    <3> SUFFICES ASSUME NEW r, Overdue(r)
                 PROVE  Overdue(r)'
      OBVIOUS
    <3>1. r \in Active /\ announced[r] \in Nat /\ tip >= SealDeadline(r)
      BY <1>t DEF Overdue, Active
    <3>2. tip + 1 >= SealDeadline(r)
      BY <1>t, <3>1, Bounds DEF SealDeadline
    <3> QED BY <1>1, <1>2, <1>a, <3>1, <3>2 DEF Overdue, SealDeadline
  <2>5. pc[w] \in {"pin", "insert"} => Covers(loc[w].rnd, loc[w].snap)'
    BY <1>2, <1>3, <1>5, <2>1 DEF SealsFully, Covers
  <2>6. SealsFully(w)'
    BY <1>2, <1>5, <2>4, <2>5 DEF SealsFully
  <2> QED BY <2>3, <2>6
<1>6. ASSUME NEW r \in sealed, Covers(r, report[r])
      PROVE  Covers(r, report[r])'
  BY <1>2, <1>3, <1>6, <1>t DEF Covers
<1> QED BY <1>2, <1>4, <1>5, <1>6 DEF CountInv

\* What the node drops no longer has to be stored or counted.
LEMMA CountPrune ==
  ASSUME TypeOK, CountInv, Prune
  PROVE  CountInv'
<1>1. /\ UNCHANGED <<chain, tip, announced, stored, outcomes, sealed, report, pc, loc,
                     failures>>
      /\ floor' = floor + 1 /\ floor \in Nat
  BY DEF Prune, TypeOK
<1>2. \A n \in DOMAIN chain : chain[n].ledger \in Nat
  BY EntryTypes DEF Entries
<1>3. \A n \in DOMAIN chain : chain[n].ledger >= floor' => chain[n].ledger >= floor
  BY <1>1, <1>2
<1>4. \A w \in Workers : PageBudget(w)' /\ SeenFromBegin(w)'
  BY <1>1, <1>3 DEF CountInv, PageBudget, SeenFromBegin, Handled
<1>5. ASSUME NEW w \in Workers, JudgedFully(w), SealsFully(w)
      PROVE  JudgedFully(w)' /\ SealsFully(w)'
  <2>1. JudgedFully(w)'
    BY <1>1, <1>5 DEF JudgedFully, UpToDate, Active, HasCommit, Submissions
  <2>2. SealsFully(w)'
    BY <1>1, <1>3, <1>5 DEF SealsFully, Covers, Overdue, SealDeadline, Active, HasCommit,
       Submissions
  <2> QED BY <2>1, <2>2
<1>6. ASSUME NEW r \in sealed, Covers(r, report[r])
      PROVE  Covers(r, report[r])'
  BY <1>1, <1>3, <1>6 DEF Covers
<1> QED BY <1>1, <1>4, <1>5, <1>6 DEF CountInv

-----------------------------------------------------------------------------
(* The theorem.                                                            *)

\* A worker's move keeps the facts of that worker and of the idle others.
LEMMA CountMove ==
  ASSUME MaxPass <= Grace + 1, Roomy, IInv, LoneInv, CountInv,
         NEW w \in Workers, Moves(w)
  PROVE  CountInv'
<1>i. TypeOK /\ LocalFacts /\ ScanInv /\ PageBudget(w) /\ SeenFromBegin(w)
  BY DEF IInv, CountInv
<1>1. PageBudget(w)' /\ SeenFromBegin(w)'
  BY <1>i, BudgetStep, SeenStep DEF ScanInv
<1>2. \A v \in Workers \ {w} : PageBudget(v)' /\ SeenFromBegin(v)'
  BY <1>i, OthersIdle DEF PageBudget, SeenFromBegin
<1>3. ASSUME failures' = 0
      PROVE  /\ \A v \in Workers : JudgedFully(v)' /\ SealsFully(v)'
             /\ \A r \in sealed' : Covers(r, report[r])'
  <2>1. failures = 0
    <3>1. failures \in Nat
      BY <1>i, LocalTypes
    <3>2. failures' = failures \/ failures' = failures + 1
      <4>1. CASE ScanSteps(w) \/ VerifySteps(w)
        BY <4>1 DEF ScanSteps, BeginPass, ReadPage, ClampToFloor, PersistNext, EndPage,
           WriteCursor, VerifySteps, ListActive, LoadRound, UpsertOutcomes, EndVerification
      <4>2. CASE SealSteps(w)
        BY <4>2 DEF SealSteps, ListDue, PinReport, InsertReport, LoseInsertRace,
           SubmitAnchor, SetAnchorTx, SkipAnchored, RetryAnchor, AssembleReport
      <4>3. CASE \/ EndPass(w) \/ RecordRefused(w) \/ VerificationFails(w)
                 \/ PinOrAnchorFails(w) \/ AbortPass(w)
        BY <4>3 DEF EndPass, RecordRefused, VerificationFails, PinOrAnchorFails, AbortPass
      <4> QED BY <4>1, <4>2, <4>3 DEF Moves, WorkerSteps
    <3> QED BY <1>3, <3>1, <3>2
  <2>2. JudgedFully(w) /\ SealsFully(w) /\ \A r \in sealed : Covers(r, report[r])
    BY <2>1 DEF CountInv
  <2>3. JudgedFully(w)' /\ SealsFully(w)' /\ \A r \in sealed' : Covers(r, report[r])'
    BY <1>3, <1>i, <2>2, JudgedStep, SealsStep
  <2>4. \A v \in Workers \ {w} : JudgedFully(v)' /\ SealsFully(v)'
    BY <1>i, OthersIdle DEF JudgedFully, SealsFully, Judging, Closing
  <2> QED BY <2>3, <2>4
<1> QED BY <1>1, <1>2, <1>3 DEF CountInv

LEMMA CountStep ==
  ASSUME MaxLosses = 0, MaxPass <= Grace + 1, Roomy, IInv, LoneInv, CountInv,
         [Next]_vars
  PROVE  CountInv'
<1>1. CASE UNCHANGED vars
  <2>1. \A w \in Workers : PageBudget(w)' /\ SeenFromBegin(w)'
    BY <1>1 DEF vars, CountInv, PageBudget, SeenFromBegin, Handled
  <2>2. failures = 0 => \A w \in Workers : JudgedFully(w)' /\ SealsFully(w)'
    BY <1>1 DEF vars, CountInv, JudgedFully, UpToDate, SealsFully, Covers, Overdue,
       SealDeadline, Active, HasCommit, Submissions
  <2>3. failures = 0 => \A r \in sealed : Covers(r, report[r])'
    BY <1>1 DEF vars, CountInv, Covers
  <2> QED BY <1>1, <2>1, <2>2, <2>3 DEF vars, CountInv
<1>2. ~LoseSession
  BY DEF LoseSession, IInv, TypeOK
<1>3. CASE LedgerCloses \/ Prune
  BY <1>3, CountLedger, CountPrune DEF IInv
<1>4. ASSUME NEW w \in Workers, Moves(w)
      PROVE  CountInv'
  BY <1>4, CountMove
<1> QED BY <1>1, <1>2, <1>3, <1>4 DEF Next, Faults, Moves

LEMMA CountInit ==
  ASSUME Init
  PROVE  CountInv
<1>1. \A w \in Workers : PageBudget(w) /\ SeenFromBegin(w) /\ JudgedFully(w) /\ SealsFully(w)
  BY DEF Init, PageBudget, SeenFromBegin, JudgedFully, SealsFully, Judging, Closing
<1> QED BY <1>1 DEF Init, CountInv

\* While no session is lost and the grace outlasts a pass, a report sealed
\* without a failed call holds every commit and reveal of its window
\* (seal_due_rounds after run_ingestion_pass and verify_active_rounds).
THEOREM WindowCounted ==
  ASSUME MaxLosses = 0, MaxPass <= Grace + 1
  PROVE  Spec => []InWindowRecordsCounted
<1>1. CASE Roomy
  <2>1. Init => LoneInv /\ CountInv
    BY Initially, CountInit
  <2>2. IInv /\ LoneInv /\ [Next]_vars => LoneInv'
    <3>1. ASSUME LoneInv, UNCHANGED vars
          PROVE  LoneInv'
      BY <3>1 DEF LoneInv, vars
    <3> QED BY <3>1, LoneStep DEF IInv
  <2>3. IInv /\ LoneInv /\ CountInv /\ [Next]_vars => CountInv'
    BY <1>1, CountStep
  <2>4. CountInv => InWindowRecordsCounted
    BY DEF CountInv, InWindowRecordsCounted, Covers
  <2> QED BY <2>1, <2>2, <2>3, <2>4, Invariance, PTL DEF Spec
<1>2. CASE ~Roomy
  <2>1. IInv => InWindowRecordsCounted
    BY <1>2 DEF InWindowRecordsCounted
  <2> QED BY <2>1, Invariance, PTL
<1> QED BY <1>1, <1>2

=============================================================================
