----------------------------- MODULE PublicationHold -----------------------------
(***************************************************************************)
(* One normal round between the freeze of its input and the public list:   *)
(* services/orchestrator.py withholds the outputs until the commit window  *)
(* the round announced on the ledger has closed, services/ipfs_publisher   *)
(* pins and stores the bundle, and api/_helpers.py decides whether HTTPS   *)
(* serves it.                                                              *)
(*                                                                         *)
(* Validators read the window off the ledger's clock (the close time of    *)
(* the last validated ledger), the scheduler and the API read their own;   *)
(* the two are at most Skew apart.  loc is what run_round or               *)
(* publish_held_round keep in local variables, lost by Crash.              *)
(***************************************************************************)
EXTENDS Integers

CONSTANTS CommitWindow, \* announcement_commit_window_seconds
          Delay,        \* output_publication_delay_seconds
          Lookahead,    \* vl_effective_lookahead_hours
          MinFuture,    \* _VL_ACTIVATION_MIN_FUTURE_SECONDS
          Skew,         \* between the service's clock and the ledger's
          MaxTime, MaxCrashes, \* model bounds
          None

\* The content of a bundle differs from attempt to attempt (published_at).
Bundles == [attempt : Nat, list : Int]

\* output_publication_delay_seconds is the margin for the clocks, and the
\* comment on _VL_ACTIVATION_MIN_FUTURE_SECONDS names the second condition.
HoldAssumption ==
  /\ CommitWindow \in Nat \ {0}
  /\ {Delay, Lookahead, MinFuture, Skew, MaxTime, MaxCrashes} \subseteq Nat
  /\ Skew <= Delay /\ MinFuture <= Lookahead
  /\ None \notin Int /\ None \notin Bundles
ASSUME HoldAssumption

VARIABLES ledger,    \* close time of the last validated ledger
          clock,     \* the service's UTC clock
          memo,      \* commit_closes_at announced on the ledger, or None
          ingested,  \* commit_closes_at in round_announcements, or None
          status,    \* scoring_rounds.status
          closesAt, dueAt, \* output_publication_commit_closes_at, ..._due_at
          recorded,  \* final_bundle_cid, or None
          pending,   \* activation time of the held signed list, or None
          pinned,    \* final bundles on IPFS or Pinata
          files,     \* bundle whose files are in audit_trail_files, or None
          pages,     \* activation time of the list on GitHub Pages, or None
          pc, loc,
          lostAnswer, crashes \* did an announcement's answer get lost; crashes so far

clockVars == <<ledger, clock>>
chainVars == <<memo, ingested, lostAnswer>>
rowVars == <<status, closesAt, dueAt, recorded, pending>>
outputVars == <<pinned, files, pages>>
vars == <<clockVars, chainVars, rowVars, outputVars, pc, loc, crashes>>

NoLocals == [frozen |-> None, anchor |-> None, announced |-> FALSE,
             attempt |-> 0, list |-> None, bundle |-> None, checked |-> None]

TypeOK ==
  /\ ledger \in Nat /\ clock \in Int
  /\ {memo, ingested, closesAt, dueAt, pending, pages} \subseteq Int \union {None}
  /\ lostAnswer \in BOOLEAN /\ crashes \in Nat
  /\ status \in {"COLLECTING", "INPUT_FROZEN", "VL_SIGNED", "AWAITING_COMMIT_CLOSE",
                 "IPFS_PUBLISHED", "VL_DISTRIBUTED", "FAILED"}
  /\ pc \in {"freeze", "anchor", "announce", "stages", "store", "hold", "idle",
             "refresh", "pin", "files", "mark", "distribute", "confirm", "down"}
  /\ pinned \subseteq Bundles
  /\ {recorded, files, loc.bundle} \subseteq Bundles \union {None}
  /\ {loc.frozen, loc.anchor, loc.list, loc.checked} \subseteq Int \union {None}
  /\ loc.announced \in BOOLEAN /\ loc.attempt \in Nat
  /\ (status \in {"IPFS_PUBLISHED", "VL_DISTRIBUTED"}) <=> (recorded # None /\ status # "FAILED")
  /\ status = "AWAITING_COMMIT_CLOSE" => {pending, closesAt, dueAt} \subseteq Int
  /\ pinned # {} => dueAt # None

Init ==
  /\ ledger = 1 /\ clock = 1
  /\ memo = None /\ ingested = None /\ lostAnswer = FALSE
  /\ status = "COLLECTING"
  /\ closesAt = None /\ dueAt = None /\ recorded = None /\ pending = None
  /\ pinned = {} /\ files = None /\ pages = None
  /\ pc = "freeze" /\ loc = NoLocals
  /\ crashes = 0

-----------------------------------------------------------------------------
(* Time.                                                                   *)

LedgerCloses ==
  /\ ledger < MaxTime /\ ledger < clock + Skew
  /\ ledger' = ledger + 1
  /\ UNCHANGED <<clock, chainVars, rowVars, outputVars, pc, loc, crashes>>

ClockAdvances ==
  /\ clock < MaxTime /\ clock < ledger + Skew
  /\ clock' = clock + 1
  /\ UNCHANGED <<ledger, chainVars, rowVars, outputVars, pc, loc, crashes>>

-----------------------------------------------------------------------------
(* run_round: from the frozen input to the held outputs.                   *)

Later(a, b) == IF a > b THEN a ELSE b

Goto(step) == pc' = step

\* What a handler catches ends the round.
Fail ==
  /\ status' = "FAILED" /\ Goto("idle") /\ loc' = NoLocals
  /\ UNCHANGED <<clockVars, chainVars, closesAt, dueAt, recorded, pending, crashes>>

\* frozen_at is read when publish_input_package begins; pinning and recording
\* the package take time after it.
FreezeInput ==
  /\ pc = "freeze" /\ loc.frozen = None
  /\ loc' = [loc EXCEPT !.frozen = clock]
  /\ UNCHANGED <<clockVars, chainVars, rowVars, outputVars, pc, crashes>>

RecordInput ==
  /\ pc = "freeze" /\ loc.frozen # None
  /\ status' = "INPUT_FROZEN" /\ Goto("anchor")
  /\ UNCHANGED <<clockVars, chainVars, closesAt, dueAt, recorded, pending, outputVars, loc,
                 crashes>>

\* The close time of the last validated ledger, or the clock if the node does
\* not answer.
ReadAnchor ==
  /\ pc = "anchor" /\ Goto("announce")
  /\ \E t \in {ledger, clock} : loc' = [loc EXCEPT !.anchor = t]
  /\ UNCHANGED <<clockVars, chainVars, rowVars, outputVars, crashes>>

\* The close of the commit window publish_round_announcement puts on the ledger.
AnnouncedClose == Later(loc.frozen, loc.anchor) + CommitWindow

\* The announcement lands or does not; the service may miss the answer to one
\* that landed.
Announce ==
  /\ pc = "announce" /\ Goto("stages")
  /\ \E landed, answered \in BOOLEAN :
       /\ answered => landed
       /\ memo' = IF landed THEN AnnouncedClose ELSE None
       /\ lostAnswer' = (landed /\ ~answered)
       /\ loc' = [loc EXCEPT !.announced = answered]
  /\ UNCHANGED <<clockVars, ingested, rowVars, outputVars, crashes>>

\* Faulty: the window is counted from the freeze in every case.
CommitClosesAtFromFreeze == loc.frozen + CommitWindow

CommitClosesAt ==
  (IF loc.announced THEN Later(loc.frozen, loc.anchor) ELSE loc.frozen) + CommitWindow

PublicationDueAt == CommitClosesAt + Delay

\* Scoring, selection and signing, ScoringRounds' and ScoringPipeline's
\* subject; the list is to activate Lookahead after its publication.
Sign ==
  /\ pc = "stages" /\ Goto("store")
  /\ status' = "VL_SIGNED"
  /\ loc' = [loc EXCEPT !.list = PublicationDueAt + Lookahead]
  /\ UNCHANGED <<clockVars, chainVars, closesAt, dueAt, recorded, pending, outputVars, crashes>>

StorePending ==
  /\ pc = "store" /\ Goto("hold")
  /\ pending' = loc.list
  /\ UNCHANGED <<clockVars, chainVars, status, closesAt, dueAt, recorded, outputVars, loc, crashes>>

\* Faulty: the deadlines are not written to the row.
HoldWithoutDeadlines ==
  /\ pc = "hold" /\ Goto("idle")
  /\ status' = "AWAITING_COMMIT_CLOSE"
  /\ loc' = NoLocals
  /\ UNCHANGED <<clockVars, chainVars, closesAt, dueAt, recorded, pending, outputVars, crashes>>

Hold ==
  /\ pc = "hold" /\ Goto("idle")
  /\ status' = "AWAITING_COMMIT_CLOSE"
  /\ closesAt' = CommitClosesAt /\ dueAt' = PublicationDueAt
  /\ loc' = NoLocals
  /\ UNCHANGED <<clockVars, chainVars, recorded, pending, outputVars, crashes>>

StageFails ==
  /\ pc \in {"freeze", "stages", "store", "hold"}
  /\ Fail /\ UNCHANGED outputVars

-----------------------------------------------------------------------------
(* publish_due_rounds and publish_held_round.                              *)

NextAttempt == 1 + crashes

Due == dueAt <= clock

\* The scheduler's tick resumes the round where its status says.
PublishHeld ==
  /\ pc = "idle" /\ dueAt # None /\ Due
  /\ \/ status = "AWAITING_COMMIT_CLOSE" /\ Goto("refresh")
     \/ status = "IPFS_PUBLISHED" /\ Goto("distribute")
  /\ loc' = [NoLocals EXCEPT !.list = pending, !.bundle = recorded, !.attempt = NextAttempt]
  /\ UNCHANGED <<clockVars, chainVars, rowVars, outputVars, crashes>>

\* Faulty: a list is stale when its activation has passed.
StaleWhenPassed(effective) == effective <= clock

Stale(effective) == effective <= clock + MinFuture

KeepActivation ==
  /\ pc = "refresh" /\ Goto("pin")
  /\ Lookahead > 0 => ~Stale(loc.list)
  /\ loc' = [loc EXCEPT !.checked = IF Lookahead > 0 THEN clock ELSE None]
  /\ UNCHANGED <<clockVars, chainVars, rowVars, outputVars, crashes>>

\* A list that would not lie far enough ahead is signed again and stored
\* before anything is published.
RefreshActivation ==
  /\ pc = "refresh" /\ Goto("pin")
  /\ Lookahead > 0 /\ Stale(loc.list)
  /\ pending' = clock + Lookahead
  /\ loc' = [loc EXCEPT !.list = clock + Lookahead, !.checked = clock]
  /\ UNCHANGED <<clockVars, chainVars, status, closesAt, dueAt, recorded, outputVars, crashes>>

\* The list cannot be read or signed: it is published as it is.
RefreshFails ==
  /\ pc = "refresh" /\ Lookahead > 0 /\ Goto("pin")
  /\ UNCHANGED <<clockVars, chainVars, rowVars, outputVars, loc, crashes>>

\* The new list cannot be stored: the pass is over and the round still held.
RefreshNotStored ==
  /\ pc = "refresh" /\ Goto("idle")
  /\ Lookahead > 0 /\ Stale(loc.list)
  /\ loc' = NoLocals
  /\ UNCHANGED <<clockVars, chainVars, rowVars, outputVars, crashes>>

NewBundle == [attempt |-> loc.attempt, list |-> loc.list]

\* The primary node or, if it fails, Pinata holds the bundle.
PinBundle ==
  /\ pc = "pin" /\ Goto("files")
  /\ pinned' = pinned \union {NewBundle}
  /\ loc' = [loc EXCEPT !.bundle = NewBundle]
  /\ UNCHANGED <<clockVars, chainVars, rowVars, files, pages, crashes>>

\* Neither answers, although one may hold it.
PinFails ==
  /\ pc = "pin"
  /\ pinned' \in {pinned, pinned \union {NewBundle}}
  /\ Fail /\ UNCHANGED <<files, pages>>

\* Faulty: files that are there already are kept.
StoreFilesOnce ==
  /\ pc = "files" /\ Goto("mark")
  /\ files' = IF files = None THEN loc.bundle ELSE files
  /\ UNCHANGED <<clockVars, chainVars, rowVars, pinned, pages, loc, crashes>>

\* _store_audit_trail_files replaces the files of an earlier attempt.
StoreFiles ==
  /\ pc = "files" /\ Goto("mark")
  /\ files' = loc.bundle
  /\ UNCHANGED <<clockVars, chainVars, rowVars, pinned, pages, loc, crashes>>

MarkPinned ==
  /\ pc = "mark" /\ Goto("distribute")
  /\ status' = "IPFS_PUBLISHED" /\ recorded' = loc.bundle
  /\ UNCHANGED <<clockVars, chainVars, closesAt, dueAt, pending, outputVars, loc, crashes>>

\* The PUT to GitHub Pages lands.
Distribute ==
  /\ pc = "distribute" /\ Goto("confirm")
  /\ pages' = loc.list
  /\ UNCHANGED <<clockVars, chainVars, rowVars, pinned, files, loc, crashes>>

DistributeFails ==
  /\ pc = "distribute"
  /\ pages' \in {pages, loc.list}
  /\ Fail /\ UNCHANGED <<pinned, files>>

\* The rest of the round, from the final memo on, is ScoringRounds' subject.
ConfirmPublic ==
  /\ pc = "confirm" /\ Goto("idle")
  /\ status' = "VL_DISTRIBUTED" /\ loc' = NoLocals
  /\ UNCHANGED <<clockVars, chainVars, closesAt, dueAt, recorded, pending, outputVars, crashes>>

PublicationFails ==
  /\ pc \in {"files", "mark", "confirm"}
  /\ Fail /\ UNCHANGED outputVars

-----------------------------------------------------------------------------
(* Ingestion, serving, crashes.                                            *)

\* The watcher stores the announcement at some time after it landed.
Ingest ==
  /\ memo # None /\ ingested = None
  /\ ingested' = memo
  /\ UNCHANGED <<clockVars, memo, lostAnswer, rowVars, outputVars, pc, loc, crashes>>

\* COALESCE of the two columns; None when there is no boundary at all.
ServingBoundary == IF ingested # None THEN ingested ELSE closesAt

RoundOutputsAvailable == ServingBoundary # None /\ clock >= ServingBoundary

\* What serve_audit_trail_file answers to an output path.
Served == IF RoundOutputsAvailable THEN files ELSE None

\* The process dies; what was committed stays.
Crash ==
  /\ pc \notin {"idle", "down"} /\ crashes < MaxCrashes
  /\ crashes' = crashes + 1
  /\ Goto("down") /\ loc' = NoLocals
  /\ UNCHANGED <<clockVars, chainVars, rowVars, outputVars>>

\* status is not terminal and not resumable.
Abandoned == status \in {"COLLECTING", "INPUT_FROZEN", "VL_SIGNED"}

\* A round cut short before it was held is failed by the next round's cleanup,
\* a held one is resumed.
Restart ==
  /\ pc = "down" /\ Goto("idle")
  /\ status' = IF Abandoned THEN "FAILED" ELSE status
  /\ UNCHANGED <<clockVars, chainVars, closesAt, dueAt, recorded, pending, outputVars, loc,
                 crashes>>

RoundSteps ==
  FreezeInput \/ RecordInput \/ ReadAnchor \/ Announce \/ Sign \/ StorePending \/ Hold
    \/ StageFails

PublicationSteps ==
  PublishHeld \/ KeepActivation \/ RefreshActivation \/ RefreshFails \/ RefreshNotStored
    \/ PinBundle \/ PinFails \/ StoreFiles \/ MarkPinned \/ Distribute \/ DistributeFails \/ ConfirmPublic
    \/ PublicationFails

Next ==
  LedgerCloses \/ ClockAdvances \/ RoundSteps \/ PublicationSteps \/ Ingest \/ Crash \/ Restart

Spec == Init /\ [][Next]_vars

-----------------------------------------------------------------------------
(* Properties.                                                             *)

SomeOutputPublic == pinned # {} \/ Served # None \/ pages # None

\* No output (the bundle on IPFS, its files over HTTPS, the list on Pages) is
\* public while a ledger can still carry a commit of the announced window.
OutputsWithheld == memo # None /\ SomeOutputPublic => ledger >= memo

\* The same, unless the announcement landed and its answer was lost: deadlines
\* from the service's clocks, resumed publication and the serving gate all
\* respect the window of the ledger.
HeldUntilClose == lostAnswer \/ OutputsWithheld

\* Once the row carries a bundle's CID, HTTPS serves the files of that bundle
\* (when it serves any), the bundle is pinned, and the list on Pages is the one
\* in it, after any number of interrupted attempts.
RecordedBundleIsServed ==
  status \in {"IPFS_PUBLISHED", "VL_DISTRIBUTED"} =>
    /\ recorded \in pinned
    /\ Served \in {None, recorded}
    /\ pages \in {None, recorded.list}

\* A list distributed within MinFuture of the check of its activation is still
\* to become active, so that validators switch in unison.
ActivatesInUnison ==
  [][pages' # pages /\ loc.checked # None /\ clock < loc.checked + MinFuture
       => pages' > clock]_vars
=============================================================================
