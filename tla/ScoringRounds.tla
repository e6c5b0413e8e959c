--------------------------- MODULE ScoringRounds ---------------------------
(***************************************************************************)
(* The round orchestrator of the scoring service together with the VL      *)
(* sequence register it shares with every other round: full rounds, their  *)
(* held publication, foundation override rounds, and aborts between any    *)
(* two commits.                                                            *)
(*                                                                         *)
(* All work runs under PostgreSQL advisory lock 99001, so there is one     *)
(* worker: pc is "idle" exactly when the lock is free.  One action is one  *)
(* database commit or one external call of the handler; what the handler   *)
(* remembers in local variables (rnd, seq, vl, queue) is lost by Abort,    *)
(* what it committed is not.                                               *)
(***************************************************************************)
EXTENDS Integers, FiniteSets

CONSTANTS
    MaxRounds,   \* bound on the rows of scoring_rounds
    MaxResigns,  \* bound on the re-signs of held VLs, over the whole behaviour
    MaxAborts,   \* bound on crashes, restarts and escaping exceptions
    LostAcks     \* the external writes ("pages", "memo") that may land although
                 \* the client reports a failure

ASSUME BoundsAssumption ==
    /\ MaxRounds \in Nat \ {0}
    /\ MaxResigns \in Nat
    /\ MaxAborts \in Nat
    /\ LostAcks \subseteq {"pages", "memo"}

Rounds == 1..MaxRounds

-----------------------------------------------------------------------------
(* Round states. *)

Published == {"COMPLETE", "VL_PUBLISHED_MEMO_FAILED"}

Terminal == Published \union {"FAILED"}

Resumable == {"AWAITING_COMMIT_CLOSE", "IPFS_PUBLISHED", "VL_DISTRIBUTED",
              "ONCHAIN_PUBLISHED"}

InPipeline == {"COLLECTING", "INPUT_FROZEN", "SCORED", "SELECTED", "VL_SIGNED"}

Absent == "ABSENT"  \* no such row yet

Status == {Absent} \union InPipeline \union Resumable \union Terminal

\* The states a round reaches only through _confirm_public_vl.
Distributed == {"VL_DISTRIBUTED", "ONCHAIN_PUBLISHED"} \union Published

Kinds == {"normal", "override"}

-----------------------------------------------------------------------------
(* A signed list: who signed it, its sequence, and which signing it is (a  *)
(* re-sign of a held list keeps round and sequence and changes the stamp). *)

VL == [round : Rounds, seq : Nat, stamp : Nat]

NoVL == [round |-> 0, seq |-> 0, stamp |-> 0]

NoSeq == 0    \* SQL NULL in reserved_sequence and in the vl_sequence column

NoRound == 0

VARIABLES
    \* scoring_rounds
    status,     \* status of each row
    kind,       \* override_type IS NULL ("normal") or not ("override")
    vlSeq,      \* the vl_sequence column
    due,        \* output_publication_due_at <= now
    baseline,   \* the round whose UNL was frozen as the previous UNL
    \* scoring_round_publication_artifacts and the audit bundle
    artifacts,  \* signed_vl of the pending publication row, NoVL if no row
    bundle,     \* signed VL in the pinned and stored final bundle
    \* vl_sequence (the singleton row)
    confirmed, reserved, served,
    \* outside the service
    public,     \* every VL that has ever been committed to GitHub Pages
    memoed,     \* rounds whose final-bundle memo is on chain
    \* the lock holder
    pc, rnd, seq, vl, queue,
    \* bounds
    aborts, resigns

rowVars == <<status, kind, vlSeq, due, baseline>>
bundleVars == <<artifacts, bundle>>
registerVars == <<confirmed, reserved, served>>
worldVars == <<public, memoed>>
workerVars == <<pc, rnd, seq, vl, queue>>
boundVars == <<aborts, resigns>>

vars == <<rowVars, bundleVars, registerVars, worldVars, workerVars, boundVars>>

PCs == {"idle", "create", "collect", "freeze", "score", "select", "reserve",
        "sign", "store", "hold", "next", "refresh", "pin", "mark_pinned",
        "distribute", "confirm", "memo", "mark_memo", "complete",
        "mark_memo_failed", "delete", "release", "mark_failed"}

TypeOK ==
    /\ status \in [Rounds -> Status]
    /\ kind \in [Rounds -> Kinds]
    /\ vlSeq \in [Rounds -> Nat]
    /\ due \in [Rounds -> BOOLEAN]
    /\ baseline \in [Rounds -> Rounds \union {NoRound}]
    /\ artifacts \in [Rounds -> VL \union {NoVL}]
    /\ bundle \in [Rounds -> VL \union {NoVL}]
    /\ confirmed \in Nat
    /\ reserved \in Nat
    /\ served \in VL \union {NoVL}
    /\ public \subseteq VL
    /\ memoed \subseteq Rounds
    /\ pc \in PCs
    /\ rnd \in Rounds \union {NoRound}
    /\ seq \in Nat
    /\ vl \in VL \union {NoVL}
    /\ queue \subseteq Rounds
    /\ aborts \in Nat
    /\ resigns \in Nat

Init ==
    /\ status = [r \in Rounds |-> Absent]
    /\ kind = [r \in Rounds |-> "normal"]
    /\ vlSeq = [r \in Rounds |-> NoSeq]
    /\ due = [r \in Rounds |-> FALSE]
    /\ baseline = [r \in Rounds |-> NoRound]
    /\ artifacts = [r \in Rounds |-> NoVL]
    /\ bundle = [r \in Rounds |-> NoVL]
    /\ confirmed = 0
    /\ reserved = NoSeq
    /\ served = NoVL
    /\ public = {}
    /\ memoed = {}
    /\ pc = "idle" /\ rnd = NoRound /\ seq = NoSeq /\ vl = NoVL /\ queue = {}
    /\ aborts = 0
    /\ resigns = 0

-----------------------------------------------------------------------------
(* Helpers. *)

Existing == {r \in Rounds : status[r] # Absent}

\* The next row gets MAX(round_number) + 1.
IsNextRoundNumber(n) ==
    /\ n \in Rounds \ Existing
    /\ \A r \in Rounds : r < n <=> r \in Existing

IsHeld(r) == status[r] \in Resumable /\ kind[r] = "normal"

\* Faulty: only rounds that have not begun to publish are picked up.
DueRoundsAwaitingOnly ==
    {r \in Rounds : IsHeld(r) /\ due[r] /\ status[r] = "AWAITING_COMMIT_CLOSE"}

DueRounds == {r \in Rounds : IsHeld(r) /\ due[r]}

\* r is the last operationally published round, whose UNL feeds churn control.
IsPreviousUNL(r) ==
    \/ r = NoRound /\ \A q \in Rounds : status[q] \notin Published
    \/ /\ r \in Rounds /\ status[r] \in Published
       /\ \A q \in Rounds : status[q] \in Published => q <= r

SetStatus(s) == status' = [status EXCEPT ![rnd] = s]

Goto(label) ==
    /\ pc' = label
    /\ UNCHANGED <<rnd, seq, vl, queue>>

\* The handler of this round returns; a publication pass goes on to the next.
Finish ==
    /\ pc' = "next"
    /\ rnd' = NoRound /\ seq' = NoSeq /\ vl' = NoVL
    /\ UNCHANGED queue

StatusStep(from, to, s) ==
    /\ pc = from
    /\ SetStatus(s)
    /\ Goto(to)
    /\ UNCHANGED <<kind, vlSeq, due, baseline, bundleVars, registerVars, worldVars,
                   boundVars>>

-----------------------------------------------------------------------------
(* run_round and run_override_round: start, and the stages before signing. *)

\* Faulty: cleanup takes a confirmed round for an abandoned one.
AbandonedPublishing(r) ==
    status[r] \notin Terminal \union {Absent, "AWAITING_COMMIT_CLOSE"}

Abandoned(r) == status[r] \notin Terminal \union Resumable \union {Absent}

\* A run takes the lock and marks abandoned rounds as FAILED.
CleanupStaleRounds ==
    /\ pc = "idle"
    /\ Existing # Rounds
    /\ status' = [r \in Rounds |-> IF Abandoned(r) THEN "FAILED" ELSE status[r]]
    /\ Goto("create")
    /\ UNCHANGED <<kind, vlSeq, due, baseline, bundleVars, registerVars, worldVars,
                   boundVars>>

CreateRound(n, k) ==
    /\ pc = "create"
    /\ IsNextRoundNumber(n)
    /\ kind' = [kind EXCEPT ![n] = k]
    /\ rnd' = n
    /\ \/ /\ k = "normal"
          /\ status' = [status EXCEPT ![n] = "COLLECTING"]
          /\ pc' = "collect"
       \/ /\ k = "override"
          /\ status' = [status EXCEPT ![n] = "VL_SIGNED"]
          /\ pc' = "reserve"
    /\ UNCHANGED <<vlSeq, due, baseline, bundleVars, registerVars, worldVars, seq, vl,
                   queue, boundVars>>

Collect == StatusStep("collect", "freeze", "COLLECTING")

FreezeInput ==
    /\ pc = "freeze"
    /\ SetStatus("INPUT_FROZEN")
    /\ \E r \in Rounds \union {NoRound} :
          IsPreviousUNL(r) /\ baseline' = [baseline EXCEPT ![rnd] = r]
    /\ Goto("score")
    /\ UNCHANGED <<kind, vlSeq, due, bundleVars, registerVars, worldVars, boundVars>>

Score == StatusStep("score", "select", "SCORED")

Select == StatusStep("select", "reserve", "SELECTED")

\* Any stage before the reservation fails: the round is FAILED, nothing else.
StageFails ==
    /\ pc \in {"collect", "freeze", "score", "select", "reserve"}
    /\ SetStatus("FAILED")
    /\ Finish
    /\ UNCHANGED <<kind, vlSeq, due, baseline, bundleVars, registerVars, worldVars,
                   boundVars>>

-----------------------------------------------------------------------------
(* Signing. *)

\* Faulty: the next number is taken after a stale reservation, not replaced.
NextSequenceAfterReserved ==
    IF reserved = NoSeq THEN confirmed + 1 ELSE reserved + 1

NextSequence == confirmed + 1

ReserveNextSequence ==
    /\ pc = "reserve"
    /\ reserved' = NextSequence
    /\ seq' = NextSequence
    /\ pc' = "sign"
    /\ UNCHANGED <<rowVars, bundleVars, confirmed, served, worldVars, rnd, vl, queue,
                   boundVars>>

SignVL ==
    /\ pc = "sign"
    /\ vl' = [round |-> rnd, seq |-> seq, stamp |-> 0]
    /\ SetStatus("VL_SIGNED")
    /\ pc' = IF kind[rnd] = "normal" THEN "store" ELSE "pin"
    /\ UNCHANGED <<kind, vlSeq, due, baseline, bundleVars, registerVars, worldVars, rnd,
                   seq, queue, boundVars>>

\* A missing manifest, a signing error, or artifacts that cannot be stored.
SignOrStoreFails ==
    /\ pc \in {"sign", "store"}
    /\ Goto("release")
    /\ UNCHANGED <<rowVars, bundleVars, registerVars, worldVars, boundVars>>

StorePendingPublication ==
    /\ pc = "store"
    /\ artifacts' = [artifacts EXCEPT ![rnd] = vl]
    /\ Goto("hold")
    /\ UNCHANGED <<rowVars, bundle, registerVars, worldVars, boundVars>>

\* The round parks until the commit window closes; its handler returns and the
\* lock is freed while the reservation stays.
HoldForCommitClose ==
    /\ pc = "hold"
    /\ SetStatus("AWAITING_COMMIT_CLOSE")
    /\ vlSeq' = [vlSeq EXCEPT ![rnd] = seq]
    /\ Finish
    /\ UNCHANGED <<kind, due, baseline, bundleVars, registerVars, worldVars, boundVars>>

-----------------------------------------------------------------------------
(* publish_due_rounds and publish_held_round. *)

PublicationDue(r) ==
    /\ status[r] = "AWAITING_COMMIT_CLOSE"
    /\ ~due[r]
    /\ due' = [due EXCEPT ![r] = TRUE]
    /\ UNCHANGED <<status, kind, vlSeq, baseline, bundleVars, registerVars, worldVars,
                   workerVars, boundVars>>

\* A scheduler tick takes the lock and lists the rounds to publish.
PublishDueRounds ==
    /\ pc = "idle"
    /\ DueRounds # {}
    /\ queue' = DueRounds
    /\ pc' = "next"
    /\ UNCHANGED <<rowVars, bundleVars, registerVars, worldVars, rnd, seq, vl, boundVars>>

\* A tick that finds nothing to publish changes nothing.
TickWithNothingDue ==
    /\ pc = "idle"
    /\ DueRounds = {}
    /\ UNCHANGED vars

ResumeAt(s) ==
    CASE s = "AWAITING_COMMIT_CLOSE" -> "refresh"
      [] s = "IPFS_PUBLISHED" -> "distribute"
      [] s = "VL_DISTRIBUTED" -> "memo"
      [] s = "ONCHAIN_PUBLISHED" -> "complete"

\* Load the next round in ascending order; a row that is no longer resumable or
\* has no stored artifacts is passed over.
LoadHeldRound ==
    /\ pc = "next"
    /\ \E r \in queue :
          /\ \A q \in queue : r <= q
          /\ queue' = queue \ {r}
          /\ IF IsHeld(r) /\ artifacts[r] # NoVL
                THEN /\ rnd' = r
                     /\ seq' = vlSeq[r]
                     /\ vl' = artifacts[r]
                     /\ pc' = ResumeAt(status[r])
                ELSE UNCHANGED <<pc, rnd, seq, vl>>
    /\ UNCHANGED <<rowVars, bundleVars, registerVars, worldVars, boundVars>>

ReleaseLock ==
    /\ pc = "next"
    /\ queue = {}
    /\ Goto("idle")
    /\ UNCHANGED <<rowVars, bundleVars, registerVars, worldVars, boundVars>>

\* The activation stamp is still in the future, unreadable, or the re-sign
\* failed: the held VL is published as it is.
KeepActivation ==
    /\ pc = "refresh"
    /\ Goto("pin")
    /\ UNCHANGED <<rowVars, bundleVars, registerVars, worldVars, boundVars>>

\* Faulty: the re-signed list is used before it is persisted.
RefreshWithoutPersisting ==
    /\ pc = "refresh"
    /\ resigns < MaxResigns
    /\ resigns' = resigns + 1
    /\ vl' = [vl EXCEPT !.stamp = resigns + 1]
    /\ pc' = "pin"
    /\ UNCHANGED <<rowVars, bundleVars, registerVars, worldVars, rnd, seq, queue, aborts>>

\* The stamp is stale: sign again with a fresh one and persist it before use.
RefreshStaleActivation ==
    /\ pc = "refresh"
    /\ resigns < MaxResigns
    /\ resigns' = resigns + 1
    /\ vl' = [vl EXCEPT !.stamp = resigns + 1]
    /\ artifacts' = [artifacts EXCEPT ![rnd] = vl']
    /\ pc' = "pin"
    /\ UNCHANGED <<rowVars, bundle, registerVars, worldVars, rnd, seq, queue, aborts>>

-----------------------------------------------------------------------------
(* Publication steps shared by held rounds and overrides. *)

PinBundle ==
    /\ pc = "pin"
    /\ bundle' = [bundle EXCEPT ![rnd] = vl]
    /\ Goto("mark_pinned")
    /\ UNCHANGED <<rowVars, artifacts, registerVars, worldVars, boundVars>>

PinFails ==
    /\ pc = "pin"
    /\ Goto("release")
    /\ UNCHANGED <<rowVars, bundleVars, registerVars, worldVars, boundVars>>

MarkPinned == StatusStep("mark_pinned", "distribute", "IPFS_PUBLISHED")

\* GitHubPagesClient.publish returns a commit URL.
DistributeVL ==
    /\ pc = "distribute"
    /\ public' = public \union {vl}
    /\ Goto("confirm")
    /\ UNCHANGED <<rowVars, bundleVars, registerVars, memoed, boundVars>>

\* It raises: no write landed, or the last write landed and its answer was lost.
DistributeFails ==
    /\ pc = "distribute"
    /\ \/ UNCHANGED public
       \/ "pages" \in LostAcks /\ public' = public \union {vl}
    /\ Goto("release")
    /\ UNCHANGED <<rowVars, bundleVars, registerVars, memoed, boundVars>>

\* Faulty: the reservation is not checked before confirming.
CanConfirmUnchecked == seq <= confirmed + 1

CanConfirm == reserved = seq /\ seq > confirmed

\* Faulty: the counter advances and the new list is not stored.
ConfirmWithoutStoring ==
    /\ pc = "confirm"
    /\ CanConfirm
    /\ confirmed' = seq
    /\ reserved' = NoSeq
    /\ SetStatus("VL_DISTRIBUTED")
    /\ vlSeq' = [vlSeq EXCEPT ![rnd] = seq]
    /\ Goto("memo")
    /\ UNCHANGED <<kind, due, baseline, bundleVars, served, worldVars, boundVars>>

\* One transaction: the served VL, the counter and the row move together.
ConfirmPublicVL ==
    /\ pc = "confirm"
    /\ CanConfirm
    /\ served' = vl
    /\ confirmed' = seq
    /\ reserved' = NoSeq
    /\ SetStatus("VL_DISTRIBUTED")
    /\ vlSeq' = [vlSeq EXCEPT ![rnd] = seq]
    /\ Goto("memo")
    /\ UNCHANGED <<kind, due, baseline, bundleVars, worldVars, boundVars>>

\* Faulty: the stored list is committed although the counter refused.
ConfirmFailsKeepsVL ==
    /\ pc = "confirm"
    /\ ~CanConfirm
    /\ served' = vl
    /\ Goto("mark_failed")
    /\ UNCHANGED <<rowVars, bundleVars, confirmed, reserved, worldVars, boundVars>>

\* The reservation is not this round's any more: roll back, keep the register.
ConfirmFails ==
    /\ pc = "confirm"
    /\ ~CanConfirm
    /\ Goto("mark_failed")
    /\ UNCHANGED <<rowVars, bundleVars, registerVars, worldVars, boundVars>>

SubmitMemo ==
    /\ pc = "memo"
    /\ memoed' = memoed \union {rnd}
    /\ Goto("mark_memo")
    /\ UNCHANGED <<rowVars, bundleVars, registerVars, public, boundVars>>

MemoFails ==
    /\ pc = "memo"
    /\ \/ UNCHANGED memoed
       \/ "memo" \in LostAcks /\ memoed' = memoed \union {rnd}
    /\ Goto("mark_memo_failed")
    /\ UNCHANGED <<rowVars, bundleVars, registerVars, public, boundVars>>

\* Faulty: the pending artifacts go with the memo, before the round completes.
MarkMemoDropsArtifacts ==
    /\ pc = "mark_memo"
    /\ SetStatus("ONCHAIN_PUBLISHED")
    /\ artifacts' = [artifacts EXCEPT ![rnd] = NoVL]
    /\ Goto("complete")
    /\ UNCHANGED <<kind, vlSeq, due, baseline, bundle, registerVars, worldVars,
                   boundVars>>

MarkMemo == StatusStep("mark_memo", "complete", "ONCHAIN_PUBLISHED")

\* A terminal status; a held round then drops its pending artifacts.
EndPublication(from, s) ==
    /\ pc = from
    /\ SetStatus(s)
    /\ \/ kind[rnd] = "normal" /\ Goto("delete")
       \/ kind[rnd] = "override" /\ Finish
    /\ UNCHANGED <<kind, vlSeq, due, baseline, bundleVars, registerVars, worldVars,
                   boundVars>>

CompleteRound == EndPublication("complete", "COMPLETE")

MarkMemoFailed == EndPublication("mark_memo_failed", "VL_PUBLISHED_MEMO_FAILED")

DeletePendingPublication ==
    /\ pc = "delete"
    /\ artifacts' = [artifacts EXCEPT ![rnd] = NoVL]
    /\ Finish
    /\ UNCHANGED <<rowVars, bundle, registerVars, worldVars, boundVars>>

-----------------------------------------------------------------------------
(* Failure after the reservation: two commits, release then FAILED. *)

\* Faulty: releasing takes back the counter instead of the reservation.
ReleaseTakesBackCounter ==
    /\ pc = "release"
    /\ confirmed' = confirmed - 1
    /\ Goto("mark_failed")
    /\ UNCHANGED <<rowVars, bundleVars, reserved, served, worldVars, boundVars>>

ReleaseSequence ==
    /\ pc = "release"
    /\ reserved' = NoSeq
    /\ Goto("mark_failed")
    /\ UNCHANGED <<rowVars, bundleVars, confirmed, served, worldVars, boundVars>>

FailRound ==
    /\ pc = "mark_failed"
    /\ SetStatus("FAILED")
    /\ Finish
    /\ UNCHANGED <<kind, vlSeq, due, baseline, bundleVars, registerVars, worldVars,
                   boundVars>>

\* The process dies, or a database error escapes the handler: locals and lock
\* are gone, committed state stays.
Abort ==
    /\ pc # "idle"
    /\ aborts < MaxAborts
    /\ aborts' = aborts + 1
    /\ pc' = "idle" /\ rnd' = NoRound /\ seq' = NoSeq /\ vl' = NoVL /\ queue' = {}
    /\ UNCHANGED <<rowVars, bundleVars, registerVars, worldVars, resigns>>

-----------------------------------------------------------------------------

RunSteps ==
    \/ \E n \in Rounds, k \in Kinds : CreateRound(n, k)
    \/ Collect \/ FreezeInput \/ Score \/ Select \/ StageFails
    \/ ReserveNextSequence \/ SignVL \/ SignOrStoreFails
    \/ StorePendingPublication \/ HoldForCommitClose

PublicationSteps ==
    \/ LoadHeldRound \/ ReleaseLock
    \/ KeepActivation \/ RefreshStaleActivation
    \/ PinBundle \/ PinFails \/ MarkPinned
    \/ DistributeVL \/ DistributeFails \/ ConfirmPublicVL \/ ConfirmFails
    \/ SubmitMemo \/ MemoFails \/ MarkMemo \/ CompleteRound \/ MarkMemoFailed
    \/ DeletePendingPublication \/ ReleaseSequence \/ FailRound

Next ==
    \/ CleanupStaleRounds
    \/ PublishDueRounds
    \/ TickWithNothingDue
    \/ RunSteps
    \/ PublicationSteps
    \/ Abort
    \/ \E r \in Rounds : PublicationDue(r)

Spec == Init /\ [][Next]_vars

\* The lock holder runs on, time passes, and the scheduler keeps ticking.
Fairness ==
    /\ WF_vars(RunSteps \/ PublicationSteps)
    /\ WF_vars(PublishDueRounds)
    /\ \A r \in Rounds : WF_vars(PublicationDue(r))

FairSpec == Spec /\ Fairness
-----------------------------------------------------------------------------
(* Safety.  Every property relates what different rounds, the register and *)
(* the outside world hold after arbitrary failures and aborts.             *)

\* A held round always still has the artifacts its publication resumes from:
\* they are stored before the status says "held" and deleted only after the
\* round is terminal, so no abort can strand it as "missing_artifacts".
HeldHasArtifacts == \A r \in Rounds : IsHeld(r) => artifacts[r] # NoVL

\* Every list that ever reached GitHub Pages is byte for byte the one in its
\* round's final audit bundle, although a held list may be re-signed and
\* pinned again when an abort interrupts the publication.
PublicIsBundled == \A v \in public : bundle[v.round] = v

\* Nothing of a normal round leaves the service before its commit window has
\* closed: neither the final bundle nor the list, however often it resumes.
WithheldUntilDue ==
    \A r \in Rounds : kind[r] = "normal" /\ bundle[r] # NoVL => due[r]

\* The list behind /vl.json carries the confirmed sequence number and was
\* distributed on GitHub Pages before the service began to serve it.
ServedIsConfirmedAndPublic ==
    /\ served.seq = confirmed
    /\ served # NoVL => served \in public

\* Sequence numbers are neither burned nor shared: the rounds that count as
\* distributed carry exactly 1..confirmed, one number each, and in the order
\* of their round numbers, although rounds may hold the same reservation.
SequencesInRoundOrder ==
    LET distributed == {r \in Rounds : status[r] \in Distributed}
    IN  /\ {vlSeq[r] : r \in distributed} = 1..confirmed
        /\ \A p, q \in distributed : p < q => vlSeq[p] < vlSeq[q]

\* The reservation is absent or the successor of the confirmed number, for
\* any interleaving of reserve, release and confirm by different rounds.
ReservationIsNext == reserved \in {NoSeq, confirmed + 1}

\* At most one round is before its hold, and it is the newest row: no run that
\* was cut short survives next to a later one.
OnlyNewestInPipeline ==
    \A r \in Rounds : status[r] \in InPipeline => \A q \in Existing : q <= r

\* The previous UNL a round freezes is the UNL being served, unless the round
\* that published it has not reached its terminal status.
BaselineIsServed ==
    pc = "score" =>
        \/ baseline[rnd] = served.round
        \/ status[served.round] \in Distributed \ Published

\* A final-bundle memo is on chain only for a round whose list is confirmed.
MemoFollowsConfirmation == \A r \in memoed : status[r] \in Distributed

StatusIsFinal ==
    \A r \in Rounds :
        /\ status[r] \in Terminal => status'[r] = status[r]
        /\ status[r] \in Distributed => status'[r] \in Distributed

\* A terminal round stays as it ended, and a round whose list is confirmed is
\* never written off as FAILED afterwards, by cleanup or by a failure path.
RoundFinality == [][StatusIsFinal]_vars

-----------------------------------------------------------------------------
(* Liveness. *)

\* Once held, a normal round reaches a terminal status in spite of aborts.
HeldRoundsFinish ==
    \A r \in Rounds : IsHeld(r) ~> status[r] \in Terminal

-----------------------------------------------------------------------------
(* Refinement: the confirmed part of the register is a VLHistory. *)

PublisherOf(n) ==
    CHOOSE r \in Rounds : status[r] \in Distributed /\ vlSeq[r] = n

History == INSTANCE VLHistory WITH
    latest <- confirmed,
    publisher <- [n \in 1..confirmed |-> PublisherOf(n)],
    current <- [round |-> served.round, seq |-> served.seq]

\* Whatever rounds, overrides, failures and aborts do, the register moves only
\* as an append-only history of lists whose served list is the last one.
ImplementsHistory == History!HistorySpec

-----------------------------------------------------------------------------
(* What the documentation says and the code does not guarantee. *)

\* docs/CurrentRoadmap.md:957: "before publishing, verify new sequence > last
\* published sequence".  A list newly put on GitHub Pages would carry a number
\* above every list of another round that was public before.
PublishedSequenceIncreases ==
    [][\A v \in public' \ public, w \in public :
          v.round # w.round => v.seq > w.seq]_public

\* orchestrator.py:106: "Mark abandoned active rounds as FAILED".  After the
\* cleanup every row would be absent, terminal, or a held round the scheduler
\* resumes.
CleanupLeavesNoAbandoned ==
    pc = "create" =>
        \A r \in Rounds : IsHeld(r) \/ status[r] \in Terminal \union {Absent}
=============================================================================
