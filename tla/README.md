# Dynamic UNL scoring: TLA+ models, model checking and proofs

The scoring service runs scoring rounds on a cadence. A round collects data on
validators, freezes it as an input package, has a model score it, selects a
UNL (unique node list), signs it as a VL (validator list) with the next
sequence number, holds it until the commit window of the commit-reveal
protocol closes, and then publishes it: audit bundle on IPFS, VL on GitHub
Pages, memo on the PFT ledger. Foundation operators can publish override
lists. Validators replay rounds and anchor commits and reveals on the ledger,
which the service ingests, verifies and seals into convergence reports.

## Inventory

| Component | State | Operations | Interacts with |
|---|---|---|---|
| Round orchestrator (`services/orchestrator.py`) | `scoring_rounds`, `scoring_round_publication_artifacts` | `run_round`, `publish_due_rounds`, `publish_held_round`, `run_override_round`, `run_dry_run` | every other service; called by scheduler and API |
| VL sequence register (`services/vl_sequence.py`) | singleton row `vl_sequence`: confirmed, reserved, stored VL | reserve, confirm, release, store | orchestrator, `/vl.json` |
| Audit bundle publisher (`services/ipfs_publisher.py`) | `audit_trail_files`, `input_package_files`, IPFS pins | `publish_input_package`, `publish`, `publish_override`, convergence report | orchestrator, convergence, read API |
| GitHub Pages client (`clients/github_pages.py`) | the published file | fetch SHA, PUT, retry | orchestrator |
| On-chain publisher (`services/onchain_publisher.py`, `clients/pftl.py`) | memos on the ledger | round memo, announcement, report anchor | orchestrator, convergence |
| Scheduler (`services/scheduler.py`) | `round_schedule.next_due_at`, advisory lock 99001 | seed, advance, reanchor, tick | orchestrator, API triggers |
| Trigger and override API (`api/scoring.py`, `api/admin.py`, `api/_helpers.py`) | advisory lock 99001 held across a background task | trigger, custom UNL, rollback | scheduler, orchestrator |
| Read API (`api/vl.py`, `api/audit_trail.py`, `api/convergence.py`) | none | reads; output gate `round_outputs_available` | all tables |
| Commit-reveal records (`services/commit_reveal.py`) | none | parse, canonicalise, classify against windows | ingestion, verification |
| Convergence ingestion (`services/convergence_ingestion.py`) | announcements, commits, reveals, ingestion cursor, lock 99002 | backfill pages, insert | ledger, verification |
| Convergence verification (`services/convergence_verification.py`) | verdicts, report, seal, anchor | verify, recompute, seal, publish, anchor | ingestion, publishers |
| UNL selection (`services/unl_selector.py`) | none | `select_unl` with cutoff, churn gap | orchestrator |
| Score and diversity formulas | none | `apply_formula`, `apply_diversity_formula` | orchestrator |
| Dry runs (`services/dry_runs.py`) | `dry_runs` | private lifecycle | orchestrator, admin API |
| Manifest store (`services/manifest_store.py`) | `validator_manifests` | refresh, resolve | orchestrator |
| VL generator (`services/vl_generator.py`) | none | sign, re-sign | orchestrator |
| Collection, prompts, parsing, HTTP clients | none | pure I/O and text | orchestrator |

Hard behaviours: the service may die between any two commits; a round is held
for hours while the lock is free and other rounds run; all rounds share one
reservation; an external write may land although the client sees an error;
publication resumes from four states and must be idempotent in each; a
background thread may outlive the coroutine that holds the lock; ingestion
pages, late records and sealing race with each other.

What makes the components correct: list numbers are handed out once and in
round order; what is public, what is bundled and what is served agree; nothing
leaves before its window closes; a held round always finishes; terminal rounds
stay as they ended; at most one round runs; a slot is consumed at most once; a
sealed report never changes and counts every record of the window; an answer is
accepted only if it was fixed before others were visible; seats follow merit
and churn control; a manifest once found is neither lost nor rolled back.

## Modules

The order is that in which they were written, the most important behaviour
first. Each module runs under TLC straight from its `.cfg` or through an MC
module that defines the instance; each `...Proofs` module holds the theorems of
one component.

| | Module | Builds on | Contents | Proved in |
|---|---|---|---|---|
| 1 | `ScoringRounds` | | rows, artifacts, register, Pages, memos, the lock holder | `ScoringRoundsInv` (inductive invariant), `ScoringRoundsProofs` |
| | `VLHistory` | | abstract specification of the register, implemented by `ScoringRounds` | |
| 2 | `RoundSchedule` | | tick, triggers, lock, schedule, shutdown and restart | `RoundScheduleProofs` |
| 3 | `CommitReveal`, `MCCommitReveal` | | judgement of one validator's memos in one round | `CommitRevealProofs` |
| 4 | `Convergence`, `MCConvergence` | | ingestion passes, verification of all rounds, sealing, anchoring | `ConvergenceProofs`, `ConvergenceCountProofs` |
| | `SealedReports` | | abstract specification of write-once reports, implemented by `Convergence` | |
| 5 | `PublicationHold` | | announcement, deadlines, gate, resumed publication on two clocks | `PublicationHoldProofs` |
| 6 | `ScoreFormula` | | final score, diversity score, provider families (pure) | `SelectionProofs` |
| | `UnlSelection` | | `select_unl`, a loop over the ranked challengers (pure) | `SelectionProofs` |
| | `ScoringPipeline`, `MCScoringPipeline` | `ScoreFormula`, `UnlSelection` | collection to signature, manifest store, dry runs, overrides | `ScoringPipelineProofs` |

How they fit together: `ScoringRounds` takes the exclusion that `RoundSchedule`
establishes as given, and so does `ScoringPipeline`. `PublicationHold` looks
closely at the deadlines that `ScoringRounds` reduces to one flag (`due`), and
`ScoringPipeline` at the data it reduces to a round and a number. `Convergence`
treats the judgement of a round as the set of records it was computed from;
`CommitReveal` says what is computed. `ScoringPipeline` composes the formulas
and the selection with the rounds that use them, so both are checked on the
inputs rounds give them.

A definition that starts with "Faulty:" in its comment is a plausible bug in
the definition it precedes; it is used by no specification and exists so that
each property can be shown to reject it.

## ScoringRounds

### State and actions

One worker (`pc`, with the locals `rnd`, `seq`, `vl`, `queue`) stands for
whoever holds advisory lock 99001. An action is one database commit or one
external call; between any two of them `Abort` may take the worker's locals and
free the lock, while what was committed stays. `Abort` also stands for an
exception that leaves the handler, for instance a database error inside an
`except` branch, which fails again because the transaction is aborted.

| Code | Model |
|---|---|
| `scoring_rounds` | `status`, `kind`, `vlSeq`, `due`, `baseline` |
| `scoring_round_publication_artifacts` | `artifacts` |
| final bundle (IPFS and `audit_trail_files`) | `bundle` |
| `vl_sequence` | `confirmed`, `reserved`, `served` |
| every commit to the Pages repository; memos on the ledger | `public`, `memoed` |
| `_cleanup_stale_rounds`, `_create_round`, `_create_override_round` | `CleanupStaleRounds`, `CreateRound` |
| stages of `run_round` up to selection, `_fail_round` | `Collect`, `FreezeInput`, `Score`, `Select`, `StageFails` |
| `reserve_next_sequence`, signing, `_store_pending_publication`, the hold | `ReserveNextSequence`, `SignVL`, `SignOrStoreFails`, `StorePendingPublication`, `HoldForCommitClose` |
| `publish_due_rounds`, `_load_publication_round` | `PublishDueRounds`, `LoadHeldRound`, `ResumeAt` |
| `_refresh_stale_vl_activation` | `KeepActivation`, `RefreshStaleActivation` |
| pin, distribute, confirm, memo, complete of `publish_held_round` and `run_override_round` | `PinBundle` ... `DeletePendingPublication` |
| `release_sequence` then `_fail_round` (two commits) | `ReleaseSequence`, `FailRound` |

A normal round walks collect ... hold and is resumed by later publication
passes from any of four states; an override goes from signing straight on to
the same publication steps. A list is a record of its round, its number and
the signing (`stamp`): a re-sign of a held list keeps the first two.

Abstractions: a list's content, evidence and files are data no property looks
at; retries inside the Pages and PFT clients are inside one step whose outcome
is success, failure, or success seen as failure (`LostAcks`); `due` becomes
true once, when `output_publication_due_at` passes. A pin is one step with the
storing of its files; a pin that fails half way (`PinFails`) leaves content
behind that nothing refers to.

### Runs

| Run | Question | Instance |
|---|---|---|
| `rounds` | safety, the refinement, and do held rounds finish | 3 rounds, 1 re-sign, 2 aborts, both answers may be lost, fairness |
| `sequence` | docs/CurrentRoadmap.md:957, expected to fail | 2 rounds, no fault at all |
| `cleanup` | orchestrator.py:106, expected to fail | 2 rounds, 1 abort |

Three rounds are the smallest number at which a held round, a later one and an
override between them contend for one reservation while an older list is being
served; two aborts let a resumed publication be interrupted again. The proofs
remove the bounds; they are needed only for TLC.

What the run's properties say: a held round always has what it resumes from
(`HeldHasArtifacts`); public, bundled and served lists agree (`PublicIsBundled`,
`ServedIsConfirmedAndPublic`); numbers are neither burned nor shared among
distributed rounds and follow the round numbers (`SequencesInRoundOrder`,
`ReservationIsNext`); terminal rounds stay as they ended (`RoundFinality`); the
register implements `VLHistory` (`ImplementsHistory`); every held round ends
(`HeldRoundsFinish`). Four more are proved and not run: nothing leaves early
(`WithheldUntilDue`); the previous UNL a round freezes is the one served unless
its publisher is still finishing (`BaselineIsServed`); a memo is on chain only
for a distributed round (`MemoFollowsConfirmation`); only the newest row is
before its hold (`OnlyNewestInPipeline`). Some of them say little beyond the
guards of single actions; the proofs of the others rest on all of them.

Fairness (for `HeldRoundsFinish` only): the worker's steps are weakly fair because a thread
with the lock runs on or aborts, and aborts are bounded; `PublishDueRounds` is
weakly fair because the scheduler ticks every few minutes; `PublicationDue` is
weakly fair because time passes. Nothing obliges a new round to start.

### Proofs

All safety properties of run `rounds`, and the four that are not run, are theorems for any number of rounds,
re-signs and aborts. `IInv` strengthens them with what the worker's position
says about its row and its list (`WorkerRow`, `WorkerVL`), what ties artifacts
to rows (`ArtifactsMatchRows`) and where the numbers stand
(`NumbersInRoundOrder`, `DistributedNumbers`, `PublicLists`).

The argument for the order of the numbers: a number is always reserved as
`confirmed + 1` by the newest row, so the numbers in rows never decrease with
the round number even when several rounds hold the same one. A round confirms
only when its number is still `confirmed + 1`, so every distributed round has a
smaller number; since numbers do not decrease with the round number, every
distributed round is an older one. Hence no held round can overtake a newer
distributed one, and of the rounds that share a number exactly one is ever
distributed. From this each number has exactly one publisher
(`UniquePublishers`), so the refinement mapping, which picks the publisher of
each number with `CHOOSE`, is well defined; a confirmation is a `Publish` step
and every other step keeps the publishers (`HistoryKept`) and stutters.

There is one lemma per conjunct of `IInv` with a step per action. Liveness and
the two failing runs are for TLC alone.

### Findings

- `sequence`: a round keeps its reservation while it is held, the register
  hands the same number to a later override, and `publish_held_round` commits
  to Pages before the register is asked. Two different lists are published
  under one number, without any fault; the second fails to confirm and its
  round ends FAILED with its list public. `SequencesInRoundOrder` shows what
  does hold: among confirmed rounds numbers are unique.
- `cleanup`: an override cut short in a resumable state is skipped by the
  cleanup and never resumed, so it stays active for ever.

## RoundSchedule

### State and actions

| Code | Model |
|---|---|
| `round_schedule.next_due_at` | `nextDue` (`Never` without a row) |
| newest normal round, as the seed query sees it | `newest` |
| advisory lock 99001 and the session that owns it | `owner` |
| process: serving, in lifespan shutdown, gone | `service` |
| `scheduler_loop` coroutine, and the thread it awaits | `tick`, `job` |
| API request and its background thread | `api`, `apiKind` |
| `ensure_schedule_seeded`, `_is_round_due` | `SeededDue`, `IsRoundDue` |
| `_advance_schedule`, `reanchor_schedule` | `AdvanceSchedule`, `ReanchorSchedule` |
| body of the loop, its `except` and `finally` | `BeginTick`, `SkipTick`, `PublicationReturns`, `PublicationRaises`, `TickRaises`, `RunScheduledRound`, `RoundReturns`, `EndTick` |
| `acquire_round_lock` and `trigger_round`, override endpoints | `TriggerRound`, `StartBackgroundRound`, `TriggerFails`, `BackgroundRoundEnds` |
| lifespan shutdown, interpreter exit, kill, container start | `Stop`, `Exit`, `Kill`, `Restart` |

The coroutine can be cancelled only where it awaits: asleep, or while a thread
publishes or runs a round. Its `finally` clause then releases the lock, but the
thread works on and the interpreter joins it at exit; daemon threads of the API
die at exit. `service` no longer takes requests then, and the deployment starts
the next process only after the old one has gone, which is why the early
release is harmless (`RoundsExclusive`; the faulty `StopStaysUp` shows that it
is the only reason). Rounds, overrides and publication passes are single units
of work here; a clock tick is one hour of the cadence. The clock does not run
backwards and the cadence setting does not change.

### Runs

| Run | Question | Instance |
|---|---|---|
| `schedule` | slot properties, also when a lock session is lost | cadence 2, clock to 6 (three slots), 2 requests, 2 stops or kills, 1 loss |
| `lock` | exclusion, a reanchor meeting a tick, are due slots consumed, is the lock freed | cadence 2, clock to 5, 2 requests, 2 stops or kills, no loss, fairness |
| `lost_session` | docs/CurrentRoadmap.md:1111 when the database drops the lock's session, expected to fail | 1 request, 1 loss |

A cadence of 2 distinguishes the due moment, the moment between slots and a
missed slot; three slots let an outage miss two of them. Fairness: steps of the
coroutine, the API threads and the exit are weakly fair because nothing in them
waits for anything else; the container is restarted by its policy; and
publication passes return infinitely often if they start infinitely often. The
last is needed: a pass that raises ends its tick before the schedule is looked
at, so a publication pass that failed for ever would keep rounds from starting.

### Proofs

`Calendar` is inductive for every cadence and every bound, whatever happens to
the lock. Each slot consumed has moved `nextDue` on by at least a cadence and
nothing moves it back (`ScheduleMovesForward`, because a schedule is never more
than a cadence ahead and a reanchor sets exactly that), so
`consumed * Cadence <= nextDue <= now + Cadence` bounds the rounds
(`NoRoundStorm`). That the schedule never moves back and is never more than a
cadence ahead (`ScheduleMovesForward`, `DueWithinCadence`) are theorems without
a run. `CatchUpOnce` follows from `nextDue > lastAdvance`.
`Locking` is inductive as long as no session is lost (`MaxLosses = 0`, an
assumption of the theorems `LockExcludes` and `AnchorHonoured`); run
`lost_session` shows that it is needed.

### Finding

- `lost_session`: the lock's session is idle for the whole round and never
  looked at again, so a round goes on after the database has dropped it and a
  second one starts.

## CommitReveal

### State and actions

| Code | Model |
|---|---|
| memos in a validator's name on the ledger | `ledger`, positions are (ledger_index, transaction_index) |
| `validator_commits`, `validator_reveals`; how far the watcher is | `stored`, `scanned` |
| `verification_hashes.json` of the published round | `foundation` |
| `validator_round_outcomes` | `verdict` (outcome, accepted rows, levels, conflict flags) |
| `compute_round_windows`, half-open tests | `CommitOpens` ... `RevealCloses`, `Within` |
| `first_by_ledger_order`, `reveal_matches_commit`, `classify_validator`, `compare_levels` | `AcceptedCommit`, `RevealMatchesCommit`, `ClassifyValidator`, `LevelsMatched` |
| `persist_submission`, `verify_round` | `Store`, `VerifyRound` |

Everybody can write memos with the validator's key in them, so `Submit` is
free: signed or not, for this announcement or another, with any answer, with or
without a date. The watcher may miss memos for good (a pruning node) and a
verification may run at any moment. An answer is one value that stands for the
output hashes and the salt; a commitment is the answer it was computed from,
because SHA-256 of canonical JSON is taken as injective. A payload that fails
field validation fails every check and is an unsigned memo here.

### Run and properties

`commit_reveal`: all histories of 3 memos over 3 time steps, windows of length 1
with no gap between them, emission after the freeze; two submitted answers and
three of which the foundation may publish one, one of which differs from a submission only
in the selected UNL (which is reported and does not decide acceptance). Three memos are a commit, the
reveal that opens it and one that interferes; windows without a gap make one
date the end of one window and the beginning of the next.

An accepted answer was on the ledger as a commitment before any memo of the
reveal window (`AnswerFixedBeforeReveals`); whoever commits first and opens
that commit is accepted whatever else bears the name (`HonestIsAccepted`);
later passes over a growing table never displace an accepted commit or reveal,
and a divergence stays (`AcceptedIsFinal`); after the close of the reveal window
only the kind of failure can still change (`ClosedWindowIsFinal`).

### Proofs

`IInv` adds that close times do not decrease along the ledger (`TimesOrdered`),
that every set of stored rows has a first one (`RowsOrdered`) and that what the
last verdict accepted is still what the rows select (`Kept`). The argument: a
stored row never changes and a new one comes after all others, so the minimum
of a set of accepted rows stays the minimum (`FirstStays`). A commit in the
commit window is dated before `CommitCloses`, a memo of the reveal window not
before `RevealOpens`, and `WindowsOrdered` shows the first is at most the
second for any configured durations. `TypeCorrect`, `AnswerFixed`,
`HonestAccepted` and `AcceptanceFinal` hold for any number of memos, any
answers and any windows. `ClosedIsFinal` needs one invariant more, `Explained`:
the verdict is explained by the rows that were stored when it was made
(`Explains(verdict, 1 .. judged)`). Memos that close after the window add to no
set of rows a window selects (`ClosedStep`), so only the rows that tell a late
or badly signed reveal from none can still change the explanation.

## Convergence

### State and actions

| Code | Model |
|---|---|
| account history of the publisher, validated ledger, earliest ledger of the node | `chain`, `tip`, `floor` |
| `round_announcements`, `validator_commits` and `validator_reveals`, cursor, outcomes | `announced`, `stored`, `cursor`, `outcomes` |
| `convergence_reports` (content, anchor hash); report memos on the ledger | `sealed`, `report`, `anchorTx`, `anchors` |
| advisory lock 99002; the pass a worker is in | `lock`; `pc`, `loc` |
| `convergence_ingestion_loop`, `run_ingestion_pass` | `BeginPass`, `ReadPage`, `ClampToFloor`, `PersistNext`, `EndPage`, `WriteCursor`, `EndPass` |
| `verify_active_rounds` | `ListActive`, `LoadRound`, `UpsertOutcomes`, `EndVerification`, `VerificationFails` |
| `seal_due_rounds`, `seal_round`, `_anchor_report`, `_set_anchor_tx` | `ListDue`, `SkipAnchored`, `RetryAnchor`, `AssembleReport`, `PinReport`, `InsertReport`, `LoseInsertRace`, `SubmitAnchor`, `SetAnchorTx`, `PinOrAnchorFails` |
| a record the database refuses; a crash; a dropped session | `RecordRefused`, `AbortPass`, `LoseSession` |

An action is one call of the node, one committed statement or one read. The
index of a ledger is also its close time. An outcome is the set of submissions
it was computed from, so a report that misses a record is a report with a
smaller set. The page marker is the position the next page starts at; the clamp
restarts from the earliest ledger the node retains, as the code does.

### Runs

| Run | Question | Instance |
|---|---|---|
| `convergence` | do records arrive, do reports get sealed and anchored, are they complete and final | 1 worker, 1 round, 3 entries of 3 kinds, pages of 2 entries and 3 pages a pass, a node that prunes 1 ledger, 5 ledgers, 1 failure, fairness |
| `convergence_workers` | gaps, first announcement, write-once reports | 2 interchangeable workers, 1 lost session, pages of 1 and 2 pages a pass (a pass is cut short), a node that prunes 2 ledgers, records the database refuses, 1 failure |

Nothing is skipped behind the cursor (`NothingSkipped`), which is why the
cursor is inclusive; the windows are those of the first announcement the node
still had (`WindowsOfFirstAnnouncement`); sealing implements `SealedReports`
(`SealsOnce`): a report is inserted once, every anchor memo names it, the
database knows only of anchors that exist. Outcomes are frozen by sealing
(`OutcomesFrozen`). A report counts every record of its window if no call
failed and a pass has pages for all there is (`InWindowRecordsCounted`). Records arrive and due
rounds get sealed and anchored in the end (`RecordsArrive`,
`SealedAndAnchored`).

Fairness: the worker's steps are weakly fair because the loop sleeps and starts
over whatever a pass did and every call has a timeout; ledgers go on closing.
Faults are bounded and never fair. `MaxPass`, the number of ledgers validated
during a pass, is the grace plus one in both runs, the most for which a pass
that seals a round began with the whole reveal window on the ledger: the grace
(`_seal_grace`, with the configured floor) is meant to outlast a pass.

What the conditions in the properties stand for can be seen by taking them
away: with two workers and a lost session a worker that listed a round before
it was sealed overwrites its outcomes (`OutcomesFrozen` needs `MaxLosses = 0`);
if one ledger holds as many entries as a pass reads, the inclusive cursor stays
on it and later records never arrive (`RecordsArrive`); a capped pass or a
failed verification leaves records out of a report, because sealing looks at
the ledger's clock and not at the cursor (`InWindowRecordsCounted`), and a
clamp to the node's oldest ledger restarts the scan but not the count of pages,
so a pass needs pages for one whole history per restart (`Roomy`); a record
the database refuses ends every later pass before it verifies or seals
(`SealedAndAnchored`). A lost answer leads to a second anchor memo with the same
report.

### Proofs

For any number of rounds, workers, lost sessions and failures and any page size:
`TypeCorrect`, `NoGaps`, `FirstAnnouncementWins` and the refinement of
`SealedReports`; and `OutcomesFrozen` as long as no session is lost. `ScanInv`
strengthens `NothingSkipped` to each worker: behind its position in the history,
and below the ledger it may make the cursor, nothing the node retains is
missing (`NothingBehind`), which makes writing
`highest` as the cursor safe even when two workers interleave. `SealInv` ties
what a worker is about to anchor to the stored report: between the insert and
the mark, `snap` is the report of a sealed round. `LoneInv` (no losses) says
that at most the lock holder is in a pass and that its queue holds no sealed
round. The steps fall into those that touch only scanning, only verification
or only seals (`ApartFromScan`, `HarmlessToSeals`), so each part of the
invariant is argued over its own steps.

`WindowCounted` (in `ConvergenceCountProofs`) proves `InWindowRecordsCounted`
for every instance with `MaxLosses = 0` and `MaxPass <= Grace + 1`. Its
invariant, `CountInv`, follows one pass. `PageBudget`: every page but the last
moves the scan on by `PageLimit` entries and every clamp costs at most one
history, so with `Roomy` no pass ends on a page that has a successor.
`SeenFromBegin`: what was on the ledger when the pass began is therefore stored
before it verifies. `JudgedFully`: without a failed call every active round has
been judged on all its rows by then. `SealsFully`: a round in the sealing queue
is past its deadline, so its window was over when the pass began
(`DueIsCovered`), and what is pinned and inserted covers that window. A ledger
that closes later adds nothing to a window that is over (`CountLedger`).
Liveness is model-checked only.

## PublicationHold

### State and actions

| Code | Model |
|---|---|
| close time of the last validated ledger; the service's UTC clock | `ledger`, `clock`, at most `Skew` apart |
| announcement on the ledger; its row in `round_announcements` | `memo`, `ingested` |
| `scoring_rounds`: status, commit close, publication due, CID | `status`, `closesAt`, `dueAt`, `recorded` |
| held signed list (its activation time); pinned bundles; stored files; Pages | `pending`, `pinned`, `files`, `pages` |
| `publish_input_package`, `_validated_ledger_close_time_or_now`, `publish_round_announcement` | `FreezeInput`, `RecordInput`, `ReadAnchor`, `Announce` |
| `_publication_deadlines`, the planned activation | `CommitClosesAt`, `PublicationDueAt`, `Sign` |
| `_store_pending_publication`, the hold | `StorePending`, `Hold` |
| `publish_due_rounds`, `publish_held_round` | `PublishHeld`, `PinBundle`, `StoreFiles`, `MarkPinned`, `Distribute`, `ConfirmPublic` and their failures |
| `_refresh_stale_vl_activation` | `KeepActivation`, `RefreshActivation`, `RefreshFails`, `RefreshNotStored` |
| `round_outputs_available` and the file endpoint | `RoundOutputsAvailable`, `Served` |
| process death; next start with cleanup | `Crash`, `Restart` |

Every commit and every external call is a step of its own, and a crash may fall
between any two. An attempt builds a bundle of its own (`published_at`
differs). What happens from the final memo on is in `ScoringRounds`.

### Runs

| Run | Question | Instance |
|---|---|---|
| `hold` | is anything public while commits are accepted; do bundle, files and list agree; is a list still to activate | window 2, delay 1, lookahead 3, margin 2, skew 1, clock to 10, 2 crashes |
| `lost_announcement` | docs/phase2/CommitRevealProtocol.md:128, expected to fail | the same, answer of the announcement lost |

The clock runs far enough for a publication delayed beyond the activation time,
so that re-signing occurs, and two crashes let a resumed publication be cut
again. `HeldUntilClose` covers IPFS, HTTPS and Pages at once. Two assumptions on
the configuration are needed: the publication delay covers the skew of the
clocks and the lookahead covers the margin.

### Proofs

All three properties are theorems for every window, delay, skew and number of
crashes. `IDeadlines` is the heart: the deadlines in the row come from the same
two instants as the announced window (`ISources`) unless an answer was lost,
`dueAt = closesAt + Delay`, and publication begins only when `dueAt <= clock`;
with `clock <= ledger + Skew` and `Skew <= Delay` the ledger has then passed the
announced close. `IBundles` follows one bundle from the pin to the row.

### Finding and observations

- `lost_announcement`: a lost answer looks like a round that was never
  announced; deadlines then count from the freeze while the window on the
  ledger counts from the anchor, and outputs become public inside it.
- The activation check is made before the pin. A publication that is cut after
  the pin and resumed late distributes its list without another check, possibly
  after its activation (`ActivatesInUnison` is about lists that were checked).
- A round that fails after its files were stored still serves them once the
  boundary has passed.
- docs/phase2/CommitRevealProtocol.md:162-165 wants the withheld outputs of a
  round superseded by an override to stay unpublished; `publish_due_rounds`
  publishes them (the situation of run `sequence`).
- `GET /rounds` and `/rounds/{id}` (api/scoring.py:224 and :286) return
  `scores_hash` and, during the hold, `vl_sequence`; the audit of public fields
  in the same document lists neither.
- A sealed convergence view is sent as immutable (api/convergence.py:34) while
  its anchor hash may still be empty.

## ScoreFormula, UnlSelection, ScoringPipeline

### State and actions

| Code | Model |
|---|---|
| manifests on the network, at the RPC node, in `validator_manifests` | `current`, `node`, `store` (a manifest is its version) |
| keys a manifest was ever found for; versions in signed lists | `found`, `signed` (history) |
| newest published round and its UNL; rounds in AWAITING_COMMIT_CLOSE | `latest`, `held` |
| what the lock holder works on | `run` |
| `collect`, `refresh_manifest_store`, `publish_input_package` | `Collect`, `RefreshManifests`, `Freeze` |
| scoring and parsing; `apply_diversity_formula`, `apply_formula`, `select_unl` | `Judge`; `Select` |
| `resolve_manifests`, `remember_manifests`, signing | `ResolveManifests`, `ResolveFails`, `Sign` |
| hold, `publish_due_rounds`, `run_override_round`, `run_dry_run` | `Hold`, `PublishHeld`, `StartOverride` ... `PublishOverride`, `StartDryRun` ... `StoreReview` |
| key rotation, a node that forgets or learns | `Rotate`, `Forget`, `Learn` |

The formulas are the code's integer arithmetic. `Family` follows
`family_for` in words: noise words go, the first rule that applies wins, a
name of nothing else is its own family. The selection works on sets, since
every list in the code is sorted by rank; a master key is its place in the
order of strings. Assumed of the node: it returns a validator's current
manifest or one it learnt earlier, never one older than it returned before
(the upsert compares no versions, so the promise below rests on this).

### Run and properties

`pipeline`: four validators for two seats, cutoff 40, gap 3, two snapshots
(with a shared provider under two names, and an unresolved and a missing
validator), three verdicts that put validators above the gate, one gap apart
and offline with perfect secondary scores, two overrides, three rounds and any
number of dry runs, one key that is new, rotates and may be forgotten. Two seats
and four keys are the smallest at which the cap, an alternate and a displaced
incumbent occur together; three rounds let a held round, an override and a
round that selects against it overlap.

The lists partition the qualified, and a seat is withheld from a higher score
only where the gap protects an incumbent (`SeatsByMerit`); a published member
that still qualifies loses its seat only to a newcomer ahead by the gap or to
the cap, also when rounds are held (`ChurnIsEarned`); nobody more than the
margin below the cutoff in consensus is seated (`OnlyConsensusSeats`); a key
found once is never missing at signing (`FoundStaysSignable`); no list carries
an older manifest than a list before it (`ManifestsNeverRollBack`).

### Proofs

`SelectionProofs` goes from the judgement to the seat. For every judgement and
every count it proves what docs/DeterministicFinalScore.md and
docs/DeterministicDiversity.md promise: both scores lie in 0..100, a judgement
at least as good everywhere never scores lower, the gate bounds the final score
by consensus plus margin, more company on an axis never raises the diversity
score and one more sharer lowers it while the axis has points left and fewer
than 121 endpoints are resolved.

For all scores and every previous UNL it then proves that `select_unl` seats by
merit (`SelectionByMerit`), that a member's loss is earned (`SelectionChurn`),
that selecting again on the same scores moves nobody while the gap is above 0
(`SelectionStable`), and that consensus cannot be made up for
(`ConsensusSeats`). The first two come from the invariant of its loop,
`LoopInv`: the lists hold everyone placed so far within the cap (`Placed`), a
lower score keeps a seat only as an incumbent short of the gap (`ByMerit`), and
every incumbent without a seat has a newcomer or `MaxSize` better members
against it (`Earned`). It is inductive because challengers come in the order of
rank: whoever is turned away later scores no more than those placed before, and
a challenger that displaces the weakest leads everybody who is out (step `<3>5`
of `ChallengeKeeps`). The inductions are arguments from a smallest
counterexample: over the rounds of the loop by the least number
(`LeastNumber`), for the size of a cut list and the validator at each rank by a
smallest subset (`SmallestSubset`). `SeatingSteps` shows that the loop, a
recursive function, exists and has the value each round gives it.

`ScoringPipelineProofs` proves all the module's properties, for every network,
any number of validators, rounds, overrides and dry runs. For the two promises
about manifests, `IInv`: the store is never ahead of the node
(`StoreBehindNode`), every signed version is in the store (`SignedFromStore`)
and manifests in hand lie between the two (`InHand`). For the types, `DataInv`:
what can become a held or published list has a row (`KindInHand`), and from
freezing to selecting the counts and the previous UNL a normal round has frozen
are those of the place it collected and of the published list (`InputsInHand`;
nothing publishes while a run is under way, since `PublishHeld` needs the lock
and a held round only waits). So a `Select` step selects from inputs to which
the theorems above apply (`SelectStep`), and no other step leaves a selection
behind that is not the one before it (`OtherSteps`), which gives
`SeatedByMerit`, `ChurnEarned` and `ConsensusOnly`. Assumed are only
`PipelineAssumption`, `SelectionAssumption` and that `Unknown` is no number
(`UnknownAssumption`), which TLC evaluates on the run.

Observations: among equal lowest scores `min(unl, key=...)` displaces the
best-ranked member, while docs/DeterministicFinalScore.md:92 speaks of
"(score desc, master_key asc)"; the docstring of the selector says a challenger
must exceed the gap, the code takes `>=`; a list keeps the manifests of the time
it was signed, also when it is signed again; the interrupted row of a dry run
stays active, and no code reads it; `publish_from_round` accepts any round with
stored files, a FAILED one included.

## What stays with TLC

Every invariant and every safety property a run checks is also a theorem, the
two refinements included. Liveness under fairness (`HeldRoundsFinish`,
`DueSlotIsConsumed`, `LockIsFreed`, `RecordsArrive`, `SealedAndAnchored`) and
everything about ENABLED is beyond TLAPS and stays with TLC. The library's
induction theorems cannot be used either, which is why the proofs about the
selection argue from smallest counterexamples. No module declares a RECURSIVE operator. The four runs that are expected to fail are
for TLC alone.

## Not modelled

- HTTP and RPC collection, prompt construction, JSON and text parsing: an
  external answer is a choice among what later steps tell apart, or a failure.
- Cryptography, binary codecs, wallets: signatures verify or not, hashes are
  injective.
- Rows and artifacts of dry runs and the execution manifests inside bundles: no
  step reads them.
- Lists of rounds, health and the convergence views of the API: they read only.
- Configuration and logging, migrations; deployment of the model endpoint and
  the research scripts: no state the service's correctness rests on.
- Publication and sealing are not composed: a round sealed before its hashes
  are public is never compared with them, `CommitReveal` only lets the hashes
  appear at any time.
