----------------------------- MODULE ScoringPipeline -----------------------------
(***************************************************************************)
(* What flows through a round: the validators services/collector.py        *)
(* collects, the input ipfs_publisher.py freezes, the judgement            *)
(* response_parser.py accepts, the scores and the selection computed from  *)
(* it, the manifests services/manifest_store.py finds for the selected     *)
(* keys and the list that is signed, held and published.  Normal rounds,   *)
(* overrides and dry runs share the database and the RPC node and exclude  *)
(* one another by the round lock (RoundSchedule); sequences, statuses and  *)
(* memos are ScoringRounds' subject, the hold's deadlines PublicationHold's. *)
(*                                                                         *)
(* A manifest is its version: a validator that rotates its signing key     *)
(* issues the next one, 0 stands for no manifest.                          *)
(***************************************************************************)
EXTENDS ScoreFormula, UnlSelection

CONSTANTS Keys,       \* master keys
          Fickle,     \* keys that are new, rotate and may be forgotten by the node
          Snapshots,  \* what a collection may find: the profile of each validator
          Verdicts,   \* judgements the model may give a validator
          Overrides,  \* lists an operator may publish
          MaxRounds, MaxVersion \* model bounds

PipelineAssumption ==
  /\ Keys \subseteq Nat /\ IsFiniteSet(Keys) /\ Fickle \subseteq Keys
  /\ \A snapshot \in Snapshots : DOMAIN snapshot \subseteq Keys
  /\ Verdicts \subseteq Judgements
  /\ Overrides \subseteq SUBSET Keys
  /\ MaxRounds \in Nat /\ MaxVersion \in Nat \ {0}
ASSUME PipelineAssumption

Versions == 0..MaxVersion

VARIABLES current,   \* the version of each validator's manifest on the network
          node,      \* the version the RPC node knows
          store,     \* validator_manifests
          found,     \* keys a manifest was ever found for
          signed,    \* version of each key in the last list signed with it
          latest,    \* the highest-numbered published round and its UNL
          held,      \* rounds in AWAITING_COMMIT_CLOSE with their UNL
          rounds,    \* scoring_rounds rows created
          run        \* what the lock holder has in hand

manifestVars == <<current, node, store, found, signed>>
roundVars == <<latest, held, rounds>>
vars == <<manifestVars, roundVars, run>>

Kinds == {"normal", "dry", "override"}

Idle == [kind |-> "none", at |-> "idle", id |-> 0, place |-> <<>>, inputs |-> <<>>,
         previous |-> {}, judged |-> <<>>, score |-> <<>>, unl |-> {}, alternates |-> {},
         manifests |-> <<>>, missing |-> {}]

TypeOK ==
  /\ current \in [Keys -> 1..MaxVersion]
  /\ node \in [Keys -> Versions] /\ store \in [Keys -> Versions]
  /\ signed \in [Keys -> 1..MaxVersion]
  /\ found \subseteq Keys
  /\ latest \in [number : 0..rounds, unl : SUBSET Keys]
  /\ held \subseteq [number : 1..rounds, unl : SUBSET Keys]
  /\ rounds \in 0..MaxRounds
  /\ run.kind \in Kinds \union {"none"}
  /\ run.at \in {"idle", "collect", "refresh", "freeze", "score", "select", "resolve",
                 "sign", "hold", "publish", "store"}
  /\ run.previous \subseteq Keys /\ run.unl \subseteq Keys /\ run.alternates \subseteq Keys
  /\ run.missing \subseteq run.unl
  /\ run.at = "sign" => DOMAIN run.manifests = run.unl \ run.missing

\* Earlier rounds have filled the store with everything but the fickle keys.
Init ==
  /\ current = [k \in Keys |-> 1] /\ node = [k \in Keys |-> 1]
  /\ store = [k \in Keys |-> IF k \in Fickle THEN 0 ELSE 1]
  /\ signed = [k \in Keys |-> 1] /\ found = Keys \ Fickle
  /\ latest = [number |-> 0, unl |-> {}] /\ held = {} /\ rounds = 0
  /\ run = Idle

-----------------------------------------------------------------------------
(* The network and its RPC node.                                           *)

Rotate(k) ==
  /\ current[k] < MaxVersion
  /\ current' = [current EXCEPT ![k] = @ + 1]
  /\ UNCHANGED <<node, store, found, signed, roundVars, run>>

\* The node keeps a bounded set of manifests and none over a restart.
Forget(k) ==
  /\ node[k] # 0
  /\ node' = [node EXCEPT ![k] = 0]
  /\ UNCHANGED <<current, store, found, signed, roundVars, run>>

Learn(k) ==
  /\ node[k] # current[k]
  /\ node' = [node EXCEPT ![k] = current[k]]
  /\ UNCHANGED <<current, store, found, signed, roundVars, run>>

\* The keys of wanted fetch_manifests may return: none from a node that is not
\* reachable, and any of the fickle ones may fail.
Answers(wanted) ==
  LET known == {k \in Keys : k \in wanted /\ node[k] # 0}
  IN  {known \ lost : lost \in SUBSET Fickle} \union {{}}

\* Faulty: ON CONFLICT DO NOTHING.
RememberOnce(fetched) ==
  [k \in Keys |-> IF k \in fetched /\ store[k] = 0 THEN node[k] ELSE store[k]]

\* The upsert of remember_manifests.
Remember(fetched) == [k \in Keys |-> IF k \in fetched THEN node[k] ELSE store[k]]

-----------------------------------------------------------------------------
(* Starting.                                                               *)

Begin(work) == run = Idle /\ run' = work

\* Held rounds leave the number and the previous UNL as they are.
StartRound ==
  /\ rounds < MaxRounds
  /\ Begin([Idle EXCEPT !.kind = "normal", !.at = "collect", !.id = rounds + 1])
  /\ rounds' = rounds + 1
  /\ UNCHANGED <<current, node, store, found, signed, latest, held>>

\* No step reads a row of dry_runs or an artifact stored for review, so they
\* are not modelled.  Dry runs are not counted; the bound ends them with the
\* last round they could affect.
StartDryRun ==
  /\ rounds < MaxRounds
  /\ Begin([Idle EXCEPT !.kind = "dry", !.at = "collect"])
  /\ UNCHANGED <<manifestVars, roundVars>>

\* run_override_round starts where a normal round has selected.
StartOverride(list) ==
  /\ rounds < MaxRounds
  /\ Begin([Idle EXCEPT !.kind = "override", !.at = "resolve", !.id = rounds + 1, !.unl = list])
  /\ rounds' = rounds + 1
  /\ UNCHANGED <<current, node, store, found, signed, latest, held>>

-----------------------------------------------------------------------------
(* Collecting and freezing.                                                *)

\* The eligible validators.  Of the country and the ASN name their endpoints
\* resolve to, later steps read what Located makes of them.
Collect(snapshot) ==
  /\ run.at = "collect"
  /\ run' = [run EXCEPT !.place = Located(snapshot), !.at = IF run.kind = "dry" THEN "score" ELSE "refresh"]
  /\ UNCHANGED <<manifestVars, roundVars>>

\* refresh_manifest_store asks for the keys the store does not know; a failure
\* is logged and the round goes on.
RefreshManifests ==
  /\ run.at = "refresh"
  /\ \E fetched \in Answers({k \in DOMAIN run.place : store[k] = 0}) :
       store' = Remember(fetched) /\ found' = found \union fetched
  /\ run' = [run EXCEPT !.at = "freeze"]
  /\ UNCHANGED <<current, node, signed, roundVars>>

\* Faulty: the UNL of the newest round that was selected, published or not.
PreviousUnlOfNewestRound ==
  IF \E h \in held : h.number > latest.number
  THEN (CHOOSE h \in held : \A g \in held : g.number <= h.number).unl ELSE latest.unl

\* The UNL of the highest-numbered published round, empty before the first.
PreviousUnl == latest.unl

Freeze ==
  /\ run.at = "freeze"
  /\ run' = [run EXCEPT !.previous = PreviousUnl, !.inputs = DiversityInputs(run.place),
                        !.at = "score"]
  /\ UNCHANGED <<manifestVars, roundVars>>

-----------------------------------------------------------------------------
(* Scoring and selecting.                                                  *)

\* The model answers for exactly the validators of the prompt, in range, or
\* the round fails (StageFails).
Judge(judged) ==
  /\ run.at = "score"
  /\ run' = [run EXCEPT !.judged = judged, !.at = "select"]
  /\ UNCHANGED <<manifestVars, roundVars>>

\* A normal round selects from what it has frozen, a dry run from what it
\* has collected and the live previous UNL.
Select ==
  /\ run.at = "select"
  /\ LET dry == run.kind = "dry"
         inputs == IF dry THEN DiversityInputs(run.place) ELSE run.inputs
         score == FinalScores(run.judged, inputs)
         previous == IF dry THEN PreviousUnl ELSE run.previous
         selection == SelectUnl(score, previous)
     IN  run' = [run EXCEPT !.previous = previous, !.score = score, !.unl = selection.unl,
                            !.alternates = selection.alternates, !.at = "resolve"]
  /\ UNCHANGED <<manifestVars, roundVars>>

-----------------------------------------------------------------------------
(* Manifests and signing.                                                  *)

\* Where a manifest is available, and which one is used: the node's before the
\* stored copy.
ManifestFrom(fetched, k) == IF k \in fetched THEN node[k] ELSE store[k]

\* Faulty: the store is asked only when the node answers nothing.
ResolveStoreAsLastResort(fetched) ==
  [k \in {k \in run.unl : k \in fetched \/ (fetched = {} /\ store[k] # 0)} |->
     ManifestFrom(fetched, k)]

Resolve(fetched) ==
  [k \in {k \in run.unl : k \in fetched \/ store[k] # 0} |-> ManifestFrom(fetched, k)]

\* Only the manifests, the list and the round are needed from here on.
Signing == [run EXCEPT !.place = <<>>, !.inputs = <<>>, !.previous = {}, !.judged = <<>>,
                       !.score = <<>>, !.alternates = {}]

ResolveManifests ==
  /\ run.at = "resolve"
  /\ \E fetched \in Answers(run.unl) :
       /\ store' = Remember(fetched) /\ found' = found \union fetched
       /\ run' = [Signing EXCEPT !.manifests = Resolve(fetched),
                                 !.missing = run.unl \ DOMAIN Resolve(fetched),
                                 !.at = IF run.kind = "dry" THEN "store" ELSE "sign"]
  /\ UNCHANGED <<current, node, signed, roundVars>>

\* The database fails, before or after what the node answered was committed; a
\* dry run goes on without the check.
ResolveFails ==
  /\ run.at = "resolve"
  /\ \E fetched \in Answers(run.unl) :
       store' = Remember(fetched) /\ found' = found \union fetched
  /\ run' = IF run.kind = "dry" THEN [Signing EXCEPT !.at = "store"] ELSE Idle
  /\ UNCHANGED <<current, node, signed, roundVars>>

\* With a manifest missing the stage fails instead (StageFails).
Sign ==
  /\ run.at = "sign" /\ run.missing = {}
  /\ signed' = [k \in Keys |-> IF k \in run.unl THEN run.manifests[k] ELSE signed[k]]
  /\ run' = [run EXCEPT !.manifests = <<>>,
                        !.at = IF run.kind = "override" THEN "publish" ELSE "hold"]
  /\ UNCHANGED <<current, node, store, found, roundVars>>

-----------------------------------------------------------------------------
(* Publishing, and the review of a dry run.                                *)

\* Faulty: the round leaves the pipeline without its row.
HoldUnnumbered ==
  /\ run.at = "hold"
  /\ held' = held \union {[number |-> 0, unl |-> run.unl]}
  /\ run' = Idle
  /\ UNCHANGED <<manifestVars, latest, rounds>>

Hold ==
  /\ run.at = "hold"
  /\ held' = held \union {[number |-> run.id, unl |-> run.unl]}
  /\ run' = Idle
  /\ UNCHANGED <<manifestVars, latest, rounds>>

\* ORDER BY round_number DESC LIMIT 1 over the published rounds.
Publishes(number, unl) ==
  latest' = IF number > latest.number THEN [number |-> number, unl |-> unl] ELSE latest

PublishOverride ==
  /\ run.at = "publish"
  /\ Publishes(run.id, run.unl)
  /\ run' = Idle
  /\ UNCHANGED <<manifestVars, held, rounds>>

\* publish_due_rounds, oldest first; the round is published or fails.
PublishHeld ==
  /\ run = Idle
  /\ \E h \in held :
       /\ \A g \in held : h.number <= g.number
       /\ held' = held \ {h}
       /\ Publishes(h.number, h.unl) \/ UNCHANGED latest
  /\ UNCHANGED <<manifestVars, rounds, run>>

\* The review artifacts are stored and the dry run is complete; the check of
\* its manifests, missing ones included, only informs.
StoreReview ==
  /\ run.at = "store"
  /\ run' = Idle
  /\ UNCHANGED <<manifestVars, roundVars>>

\* A stage raises: the row is FAILED.
StageFails ==
  /\ run.at \notin {"idle", "refresh", "resolve"}
  /\ run' = Idle
  /\ UNCHANGED <<manifestVars, roundVars>>

\* The process dies: a round is failed by the next cleanup, the row of a dry
\* run stays as it is.
Crash ==
  /\ run # Idle
  /\ run' = Idle
  /\ UNCHANGED <<manifestVars, roundVars>>

Network == \E k \in Fickle : Rotate(k) \/ Forget(k) \/ Learn(k)

Start ==
  \/ StartRound
  \/ StartDryRun
  \/ \E list \in Overrides : StartOverride(list)

Stages ==
  \/ \E snapshot \in Snapshots : Collect(snapshot)
  \/ RefreshManifests \/ Freeze
  \/ \E judged \in [DOMAIN run.place -> Verdicts] : Judge(judged)
  \/ Select \/ ResolveManifests \/ ResolveFails \/ Sign \/ Hold
  \/ PublishOverride \/ StoreReview \/ StageFails

Next == Network \/ Start \/ Stages \/ PublishHeld \/ Crash

Spec == Init /\ [][Next]_vars

-----------------------------------------------------------------------------
(* Properties.                                                             *)

JustSelected == run.at = "resolve" /\ run.kind # "override"

\* The two lists partition the qualified validators, no seat stays open while
\* there is an alternate, and a seat is withheld from a higher score only where
\* an incumbent is protected from a challenger short of the gap.
SeatsByMerit ==
  JustSelected =>
    LET score == run.score IN
    /\ run.unl \intersect run.alternates = {}
    /\ run.unl \union run.alternates = Qualified(score)
    /\ Cardinality(run.unl) <= MaxSize
    /\ run.alternates # {} => Cardinality(run.unl) = MaxSize
    /\ \A seated \in run.unl, out \in run.alternates :
         score[out] > score[seated] =>
           /\ seated \in run.previous /\ out \notin run.previous
           /\ score[out] < score[seated] + MinGap

\* A member of the published UNL that still qualifies loses its seat only to a
\* newcomer that leads it by the gap, or to the cap: MaxSize members score no
\* less.
ChurnIsEarned ==
  JustSelected =>
    LET score == run.score
        members == latest.unl \intersect Qualified(score)
    IN  \A member \in members \ run.unl :
          \/ \E newcomer \in run.unl \ latest.unl : score[newcomer] >= score[member] + MinGap
          \/ Cardinality({v \in members \ {member} : score[v] >= score[member]}) >= MaxSize

\* Secondary virtues do not substitute for consensus: from the model's answer to
\* the seat, nobody more than the margin below the cutoff in consensus gets one.
OnlyConsensusSeats ==
  JustSelected =>
    \A v \in run.unl : run.judged[v].consensus >= Cutoff - ConsensusGateMargin

\* A signed list never carries an older manifest of a key than a list signed
\* before it, whichever of node and store it came from.
ManifestsNeverRollBack == [][\A k \in Keys : signed'[k] >= signed[k]]_vars

\* A key a manifest was once found for is not missing later, whatever the node
\* forgets.
FoundStaysSignable == run.missing \intersect found = {}
=============================================================================
