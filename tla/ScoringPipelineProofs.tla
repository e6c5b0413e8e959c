-------------------------- MODULE ScoringPipelineProofs --------------------------
(***************************************************************************)
(* For any number of validators, rounds, overrides and dry runs: the two   *)
(* promises of the manifest store (IInv), the types of what a run has in   *)
(* hand (DataInv), and what a round has selected, from the theorems on the *)
(* selection in SelectionProofs.                                           *)
(***************************************************************************)
EXTENDS ScoringPipeline, SelectionProofs, TLAPS

Fields == {"kind", "at", "id", "place", "inputs", "score", "previous", "judged", "unl", "alternates",
           "manifests", "missing"}

ManifestTypes ==
  /\ current \in [Keys -> Nat] /\ node \in [Keys -> Nat]
  /\ store \in [Keys -> Nat] /\ signed \in [Keys -> Nat]
  /\ found \subseteq Keys
  /\ DOMAIN run = Fields

\* The node, when it knows a manifest, knows one at least as new as the store.
StoreBehindNode ==
  \A k \in Keys :
    /\ store[k] <= current[k]
    /\ node[k] # 0 => store[k] <= node[k] /\ node[k] <= current[k]

\* The store keeps up with the signed lists (1 stands for never signed).
SignedFromStore == \A k \in Keys : signed[k] = 1 \/ signed[k] <= store[k]

FoundIsStored == \A k \in found : store[k] # 0

\* The manifests in hand are no older than the signed ones, and stored.
InHand ==
  run.at = "sign" =>
    /\ DOMAIN run.manifests = run.unl \ run.missing
    /\ \A k \in Keys \intersect DOMAIN run.manifests :
         /\ run.manifests[k] \in Nat
         /\ signed[k] <= run.manifests[k] /\ run.manifests[k] <= store[k]

MissingNotFound ==
  /\ run.missing \intersect found = {}
  /\ run.missing # {} => run.at \in {"sign", "store"}

IInv == ManifestTypes /\ StoreBehindNode /\ SignedFromStore /\ FoundIsStored
          /\ InHand /\ MissingNotFound

-----------------------------------------------------------------------------

LEMMA IdleShape ==
  /\ DOMAIN Idle = Fields
  /\ Idle.at = "idle" /\ Idle.missing = {}
BY DEF Idle, Fields

LEMMA AnswersKnown ==
  ASSUME NEW wanted, NEW fetched \in Answers(wanted)
  PROVE  fetched \subseteq {k \in Keys : k \in wanted /\ node[k] # 0}
BY DEF Answers

LEMMA InitIInv == Init => IInv
<1> SUFFICES ASSUME Init PROVE IInv
  OBVIOUS
<1> USE DEF Init
<1>1. ManifestTypes
  BY IdleShape DEF ManifestTypes
<1>2. StoreBehindNode /\ SignedFromStore /\ FoundIsStored
  BY PipelineAssumption DEF StoreBehindNode, SignedFromStore, FoundIsStored, PipelineAssumption
<1>3. InHand /\ MissingNotFound
  BY IdleShape DEF InHand, MissingNotFound
<1> QED
  BY <1>1, <1>2, <1>3 DEF IInv

\* What the node answers is at least as new as the store and every signed list.
LEMMA RememberFacts ==
  ASSUME IInv, NEW wanted, NEW fetched \in Answers(wanted)
  PROVE  /\ Remember(fetched) \in [Keys -> Nat]
         /\ \A k \in Keys : /\ store[k] <= Remember(fetched)[k]
                            /\ Remember(fetched)[k] <= current[k]
                            /\ node[k] # 0 => Remember(fetched)[k] <= node[k]
         /\ \A k \in fetched : k \in Keys /\ node[k] # 0 /\ Remember(fetched)[k] = node[k]
<1>1. fetched \subseteq {k \in Keys : k \in wanted /\ node[k] # 0}
  BY AnswersKnown
<1>2. Remember(fetched) = [k \in Keys |-> IF k \in fetched THEN node[k] ELSE store[k]]
  BY DEF Remember
<1> QED
  BY <1>1, <1>2 DEF IInv, ManifestTypes, StoreBehindNode

\* A step that remembers what the node answered, in a run without missing keys
\* so far.
LEMMA Remembering ==
  ASSUME IInv, NEW wanted, NEW fetched \in Answers(wanted),
         store' = Remember(fetched), found' = found \union fetched,
         UNCHANGED <<current, node, signed>>,
         DOMAIN run' = Fields
  PROVE  /\ ManifestTypes' /\ StoreBehindNode' /\ SignedFromStore' /\ FoundIsStored'
<1>1. /\ store' \in [Keys -> Nat]
      /\ \A k \in Keys : /\ store[k] <= store'[k]
                         /\ store'[k] <= current[k]
                         /\ node[k] # 0 => store'[k] <= node[k]
      /\ \A k \in fetched : k \in Keys /\ node[k] # 0 /\ store'[k] = node[k]
  BY RememberFacts
<1>2. ManifestTypes'
  BY <1>1 DEF IInv, ManifestTypes
<1>3. StoreBehindNode'
  BY <1>1 DEF IInv, ManifestTypes, StoreBehindNode
<1>4. SignedFromStore'
  BY <1>1 DEF IInv, ManifestTypes, SignedFromStore
<1>5. FoundIsStored'
  BY <1>1 DEF IInv, ManifestTypes, FoundIsStored
<1> QED
  BY <1>2, <1>3, <1>4, <1>5

\* A step that leaves the manifests alone.
LEMMA HandsOff ==
  ASSUME IInv, UNCHANGED <<current, node, store, found, signed>>,
         DOMAIN run' = Fields, run'.missing = {}, run'.at # "sign"
  PROVE  IInv'
BY DEF IInv, ManifestTypes, StoreBehindNode, SignedFromStore, FoundIsStored, InHand,
       MissingNotFound

-----------------------------------------------------------------------------

LEMMA NextIInv == IInv /\ [Next]_vars => IInv'
<1> SUFFICES ASSUME IInv, [Next]_vars PROVE IInv'
  OBVIOUS
<1>0. DOMAIN run = Fields
  BY DEF IInv, ManifestTypes
<1>1. ASSUME NEW k \in Fickle, Rotate(k) PROVE IInv'
  <2>1. k \in Keys
    BY PipelineAssumption DEF PipelineAssumption
  <2>2. current' = [current EXCEPT ![k] = @ + 1]
        /\ UNCHANGED <<node, store, found, signed, run>>
    BY <1>1 DEF Rotate
  <2> QED
    BY <2>1, <2>2 DEF IInv, ManifestTypes, StoreBehindNode, SignedFromStore, FoundIsStored,
                      InHand, MissingNotFound
<1>2. ASSUME NEW k \in Fickle, Forget(k) \/ Learn(k) PROVE IInv'
  <2>1. k \in Keys
    BY PipelineAssumption DEF PipelineAssumption
  <2>2. \E version \in {0, current[k]} : node' = [node EXCEPT ![k] = version]
    BY <1>2 DEF Forget, Learn
  <2>3. UNCHANGED <<current, store, found, signed, run>>
    BY <1>2 DEF Forget, Learn
  <2> QED
    BY <2>1, <2>2, <2>3 DEF IInv, ManifestTypes, StoreBehindNode, SignedFromStore,
                            FoundIsStored, InHand, MissingNotFound
<1>3. ASSUME NEW work, Begin(work), work.missing = {}, work.at # "sign", DOMAIN work = Fields,
             UNCHANGED <<current, node, store, found, signed>>
      PROVE  IInv'
  BY <1>3, HandsOff DEF Begin
<1>4. CASE StartRound
  <2> DEFINE work == [Idle EXCEPT !.kind = "normal", !.at = "collect", !.id = rounds + 1]
  <2>1. DOMAIN work = Fields /\ work.missing = {} /\ work.at = "collect"
    BY IdleShape DEF Fields
  <2> QED
    BY <1>3, <1>4, <2>1 DEF StartRound
<1>5. CASE StartDryRun
  <2> DEFINE work == [Idle EXCEPT !.kind = "dry", !.at = "collect"]
  <2>1. DOMAIN work = Fields /\ work.missing = {} /\ work.at = "collect"
    BY IdleShape DEF Fields
  <2> QED
    BY <1>3, <1>5, <2>1 DEF StartDryRun, manifestVars
<1>6. ASSUME NEW list \in Overrides, StartOverride(list) PROVE IInv'
  <2> DEFINE work == [Idle EXCEPT !.kind = "override", !.at = "resolve", !.id = rounds + 1,
                                  !.unl = list]
  <2>1. DOMAIN work = Fields /\ work.missing = {} /\ work.at = "resolve"
    BY IdleShape DEF Fields
  <2> QED
    BY <1>3, <1>6, <2>1 DEF StartOverride
\* The steps that neither ask for manifests nor sign.
<1>7. ASSUME NEW snapshot \in Snapshots, Collect(snapshot) PROVE IInv'
  <2>1. DOMAIN run' = Fields /\ run'.missing = run.missing /\ run'.at # "sign"
    BY <1>0, <1>7 DEF Collect, Fields
  <2>2. run.missing = {}
    BY <1>7 DEF Collect, IInv, MissingNotFound
  <2> QED
    BY <1>7, <2>1, <2>2, HandsOff DEF Collect, manifestVars
<1>8. CASE Freeze
  <2>1. DOMAIN run' = Fields /\ run'.missing = run.missing /\ run'.at # "sign"
    BY <1>0, <1>8 DEF Freeze, Fields
  <2>2. run.missing = {}
    BY <1>8 DEF Freeze, IInv, MissingNotFound
  <2> QED
    BY <1>8, <2>1, <2>2, HandsOff DEF Freeze, manifestVars
<1>9. ASSUME NEW judged, Judge(judged) PROVE IInv'
  <2>1. DOMAIN run' = Fields /\ run'.missing = run.missing /\ run'.at # "sign"
    BY <1>0, <1>9 DEF Judge, Fields
  <2>2. run.missing = {}
    BY <1>9 DEF Judge, IInv, MissingNotFound
  <2> QED
    BY <1>9, <2>1, <2>2, HandsOff DEF Judge, manifestVars
<1>10. CASE Select
  <2>1. DOMAIN run' = Fields /\ run'.missing = run.missing /\ run'.at # "sign"
    BY <1>0, <1>10 DEF Select, Fields
  <2>2. run.missing = {}
    BY <1>10 DEF Select, IInv, MissingNotFound
  <2> QED
    BY <1>10, <2>1, <2>2, HandsOff DEF Select, manifestVars
<1>11. CASE RefreshManifests
  <2>1. PICK fetched \in Answers({k \in DOMAIN run.place : store[k] = 0}) :
          store' = Remember(fetched) /\ found' = found \union fetched
    BY <1>11 DEF RefreshManifests
  <2>2. DOMAIN run' = Fields /\ run'.missing = run.missing /\ run'.at = "freeze"
    BY <1>0, <1>11 DEF RefreshManifests, Fields
  <2>3. run.missing = {}
    BY <1>11 DEF RefreshManifests, IInv, MissingNotFound
  <2>4. ManifestTypes' /\ StoreBehindNode' /\ SignedFromStore' /\ FoundIsStored'
    BY <1>11, <2>1, <2>2, Remembering DEF RefreshManifests
  <2> QED
    BY <2>2, <2>3, <2>4 DEF IInv, InHand, MissingNotFound
<1>12. CASE ResolveManifests
  <2>1. PICK fetched \in Answers(run.unl) :
          /\ store' = Remember(fetched) /\ found' = found \union fetched
          /\ run' = [Signing EXCEPT !.manifests = Resolve(fetched),
                                    !.missing = run.unl \ DOMAIN Resolve(fetched),
                                    !.at = IF run.kind = "dry" THEN "store" ELSE "sign"]
    BY <1>12 DEF ResolveManifests
  <2>2. /\ DOMAIN run' = Fields /\ run'.unl = run.unl
        /\ run'.manifests = Resolve(fetched)
        /\ run'.missing = run.unl \ DOMAIN Resolve(fetched)
        /\ run'.at \in {"store", "sign"}
    BY <1>0, <2>1 DEF Signing, Fields
  <2>3. UNCHANGED <<current, node, signed>>
    BY <1>12 DEF ResolveManifests
  <2>4. ManifestTypes' /\ StoreBehindNode' /\ SignedFromStore' /\ FoundIsStored'
    BY <2>1, <2>2, <2>3, Remembering
  <2>5. /\ DOMAIN Resolve(fetched) = {k \in run.unl : k \in fetched \/ store[k] # 0}
        /\ \A k \in DOMAIN Resolve(fetched) :
             Resolve(fetched)[k] = IF k \in fetched THEN node[k] ELSE store[k]
    BY DEF Resolve, ManifestFrom
  <2>6. MissingNotFound'
    <3>1. \A k \in run'.missing : k \notin fetched /\ store[k] = 0
      BY <2>2, <2>5
    <3>2. \A k \in found : store[k] # 0
      BY DEF IInv, FoundIsStored
    <3> QED
      BY <2>1, <2>2, <3>1, <3>2 DEF MissingNotFound
  <2>7. InHand'
    <3> SUFFICES ASSUME NEW k \in Keys, k \in DOMAIN Resolve(fetched)
                 PROVE  /\ Resolve(fetched)[k] \in Nat
                        /\ signed[k] <= Resolve(fetched)[k]
                        /\ Resolve(fetched)[k] <= store'[k]
      BY <2>2, <2>3, <2>5 DEF InHand
    <3>1. store'[k] = IF k \in fetched THEN node[k] ELSE store[k]
      BY <2>1 DEF Remember
    <3>2. CASE k \in fetched
      <4>1. node[k] # 0
        BY <3>2, AnswersKnown
      <4> QED
        BY <2>5, <3>1, <3>2, <4>1 DEF IInv, ManifestTypes, StoreBehindNode, SignedFromStore
    <3>3. CASE k \notin fetched
      <4>1. store[k] # 0
        BY <2>5, <3>3
      <4> QED
        BY <2>5, <3>1, <3>3, <4>1 DEF IInv, ManifestTypes, SignedFromStore
    <3> QED
      BY <3>2, <3>3
  <2> QED
    BY <2>4, <2>6, <2>7 DEF IInv
<1>13. CASE ResolveFails
  <2>1. PICK fetched \in Answers(run.unl) :
          store' = Remember(fetched) /\ found' = found \union fetched
    BY <1>13 DEF ResolveFails
  <2>2. run.missing = {}
    BY <1>13 DEF ResolveFails, IInv, MissingNotFound
  <2>3. DOMAIN run' = Fields /\ run'.missing = {} /\ run'.at # "sign"
    <3>1. CASE run.kind = "dry"
      BY <1>0, <1>13, <2>2, <3>1 DEF ResolveFails, Signing, Fields
    <3>2. CASE run.kind # "dry"
      BY <1>13, <3>2, IdleShape DEF ResolveFails
    <3> QED
      BY <3>1, <3>2
  <2>4. ManifestTypes' /\ StoreBehindNode' /\ SignedFromStore' /\ FoundIsStored'
    BY <1>13, <2>1, <2>3, Remembering DEF ResolveFails
  <2> QED
    BY <2>3, <2>4 DEF IInv, InHand, MissingNotFound
<1>14. CASE Sign
  <2>1. /\ run.at = "sign" /\ run.missing = {}
        /\ signed' = [k \in Keys |-> IF k \in run.unl THEN run.manifests[k] ELSE signed[k]]
        /\ UNCHANGED <<current, node, store, found>>
    BY <1>14 DEF Sign
  <2>2. DOMAIN run' = Fields /\ run'.missing = {} /\ run'.at # "sign"
    BY <1>0, <1>14, <2>1 DEF Sign, Fields
  <2>3. \A k \in Keys : k \in run.unl => /\ run.manifests[k] \in Nat
                                         /\ run.manifests[k] <= store[k]
    BY <2>1 DEF IInv, InHand
  <2>4. ManifestTypes'
    BY <2>1, <2>2, <2>3 DEF IInv, ManifestTypes
  <2>5. SignedFromStore'
    BY <2>1, <2>3 DEF IInv, SignedFromStore
  <2>6. StoreBehindNode' /\ FoundIsStored' /\ InHand' /\ MissingNotFound'
    BY <2>1, <2>2 DEF IInv, StoreBehindNode, FoundIsStored, InHand, MissingNotFound
  <2> QED
    BY <2>4, <2>5, <2>6 DEF IInv
<1>15. CASE Hold \/ PublishOverride \/ StoreReview \/ StageFails \/ Crash
  <2>1. run' = Idle /\ UNCHANGED manifestVars
    BY <1>15 DEF Hold, PublishOverride, StoreReview, StageFails, Crash
  <2> QED
    BY <2>1, IdleShape, HandsOff DEF manifestVars
<1>16. CASE PublishHeld
  <2>1. UNCHANGED <<manifestVars, run>>
    BY <1>16 DEF PublishHeld
  <2> QED
    BY <2>1 DEF manifestVars, IInv, ManifestTypes, StoreBehindNode, SignedFromStore,
                FoundIsStored, InHand, MissingNotFound
<1>17. CASE UNCHANGED vars
  BY <1>17 DEF vars, manifestVars, IInv, ManifestTypes, StoreBehindNode, SignedFromStore,
               FoundIsStored, InHand, MissingNotFound
<1> QED
  BY <1>1, <1>2, <1>4, <1>5, <1>6, <1>7, <1>8, <1>9, <1>10, <1>11, <1>12, <1>13, <1>14,
     <1>15, <1>16, <1>17
     DEF Next, Network, Start, Stages

THEOREM Invariance == Spec => []IInv
<1>1. Init => IInv
  BY InitIInv
<1>2. IInv /\ [Next]_vars => IInv'
  BY NextIInv
<1> QED
  BY <1>1, <1>2, PTL DEF Spec

\* A key a manifest was once found for, by a refresh or a resolution of any kind
\* of run, never lacks one at signing, whatever the node forgets.
THEOREM StaysSignable == Spec => []FoundStaysSignable
<1>1. IInv => FoundStaysSignable
  BY DEF IInv, MissingNotFound, FoundStaysSignable
<1> QED
  BY <1>1, Invariance, PTL

\* No list is signed with an older manifest of a key than a list before it.
THEOREM NeverRollBack == Spec => ManifestsNeverRollBack
<1>1. IInv /\ [Next]_vars => [\A k \in Keys : signed'[k] >= signed[k]]_vars
  <2> SUFFICES ASSUME IInv, Next PROVE \A k \in Keys : signed'[k] >= signed[k]
    OBVIOUS
  <2>1. CASE Sign
    <3>1. /\ run.at = "sign" /\ run.missing = {}
          /\ signed' = [k \in Keys |-> IF k \in run.unl THEN run.manifests[k] ELSE signed[k]]
      BY <2>1 DEF Sign
    <3> QED
      BY <3>1 DEF IInv, ManifestTypes, InHand
  <2>2. CASE UNCHANGED signed
    BY <2>2 DEF IInv, ManifestTypes
  <2>3. Sign \/ UNCHANGED signed
    BY DEF Next, Network, Start, Stages, Rotate, Forget, Learn, StartRound, StartDryRun,
           StartOverride, Collect, RefreshManifests, Freeze, Judge, Select, ResolveManifests,
           ResolveFails, Hold, PublishOverride, StoreReview, StageFails, PublishHeld, Crash,
           manifestVars
  <2> QED
    BY <2>1, <2>2, <2>3
<1> QED
  BY <1>1, Invariance, PTL DEF Spec, ManifestsNeverRollBack

-----------------------------------------------------------------------------
(* What is in hand: the types, and that normal runs work on what they have *)
(* frozen.                                                                 *)

WorldTypes ==
  /\ current \in [Keys -> 1..MaxVersion]
  /\ node \in [Keys -> Versions] /\ store \in [Keys -> Versions]
  /\ signed \in [Keys -> 1..MaxVersion]
  /\ found \subseteq Keys
  /\ latest \in [number : 0..rounds, unl : SUBSET Keys]
  /\ held \subseteq [number : 1..rounds, unl : SUBSET Keys]
  /\ rounds \in 0..MaxRounds

RunTypes ==
  /\ run.kind \in Kinds \union {"none"}
  /\ run.at \in {"idle", "collect", "refresh", "freeze", "score", "select", "resolve",
                 "sign", "hold", "publish", "store"}
  /\ run.previous \subseteq Keys /\ run.unl \subseteq Keys /\ run.alternates \subseteq Keys
  /\ run.missing \subseteq run.unl
  /\ run.at = "sign" => DOMAIN run.manifests = run.unl \ run.missing

\* A run under way has a kind; what can become a row's list has a row.
KindInHand ==
  /\ run.at # "idle" => run.kind \in Kinds
  /\ run.kind \in {"normal", "override"} => run.id \in 1..rounds
  /\ run.at \in {"sign", "hold", "publish"} => run.kind \in {"normal", "override"}

\* From freezing to selecting, the previous UNL and the counts of a normal round
\* are the published UNL and the counts of the place it has collected.
InputsInHand ==
  /\ run.at \in {"refresh", "freeze", "score", "select"} => DOMAIN run.place \subseteq Keys
  /\ run.at \in {"score", "select"} /\ run.kind # "dry" =>
       run.inputs = DiversityInputs(run.place) /\ run.previous = latest.unl
  /\ run.at = "select" => run.judged \in [DOMAIN run.place -> Verdicts]

DataInv == WorldTypes /\ RunTypes /\ KindInHand /\ InputsInHand

LEMMA TypeParts == TypeOK <=> WorldTypes /\ RunTypes
BY DEF TypeOK, WorldTypes, RunTypes

LEMMA IdleFacts ==
  /\ Idle.kind = "none" /\ Idle.at = "idle" /\ Idle.previous = {} /\ Idle.unl = {}
  /\ Idle.alternates = {} /\ Idle.missing = {}
BY DEF Idle

LEMMA IdleInHand ==
  ASSUME run' = Idle
  PROVE  RunTypes' /\ KindInHand' /\ InputsInHand'
BY IdleFacts DEF RunTypes, KindInHand, InputsInHand, Kinds

LEMMA InitData == Init => DataInv
<1> SUFFICES ASSUME Init PROVE DataInv
  OBVIOUS
<1>1. WorldTypes
  BY PipelineAssumption DEF Init, WorldTypes, Versions, PipelineAssumption
<1>2. RunTypes /\ KindInHand /\ InputsInHand
  BY IdleFacts DEF Init, RunTypes, KindInHand, InputsInHand, Kinds
<1> QED
  BY <1>1, <1>2 DEF DataInv

\* The selection stays among the keys, and seats a list of the qualified.
LEMMA SelectFacts ==
  ASSUME InputsInHand, run.at = "select"
  PROVE  LET score == FinalScores(run.judged, DiversityInputs(run.place)) IN
         /\ DOMAIN score \subseteq Keys /\ Scored(score, Qualified(score))
         /\ \A previous : /\ SelectUnl(score, previous).unl \subseteq Keys
                          /\ SelectUnl(score, previous).alternates \subseteq Keys
<1> DEFINE score == FinalScores(run.judged, DiversityInputs(run.place))
<1>1. /\ DOMAIN run.place \subseteq Keys /\ IsFiniteSet(DOMAIN run.place)
      /\ Keys \subseteq Nat
      /\ run.judged \in [DOMAIN run.place -> Judgements]
  <2>1. /\ DOMAIN run.place \in SUBSET Keys
        /\ run.judged \in [DOMAIN run.place -> Verdicts]
    BY DEF InputsInHand
  <2>2. IsFiniteSet(Keys) /\ Keys \subseteq Nat /\ Verdicts \subseteq Judgements
    BY PipelineAssumption DEF PipelineAssumption
  <2>3. IsFiniteSet(DOMAIN run.place)
    BY <2>1, <2>2, FS_Subset
  <2> QED
    BY <2>1, <2>2, <2>3
<1>2. DOMAIN score = DOMAIN run.place /\ \A v \in DOMAIN run.place : score[v] \in Points
  BY <1>1, ScoresFacts
<1> HIDE DEF score
<1>3. Qualified(score) \in SUBSET (DOMAIN run.place)
  BY <1>2 DEF Qualified
<1>4. IsFiniteSet(Qualified(score))
  BY <1>1, <1>3, FS_Subset
<1>5. Scored(score, Qualified(score))
  <2>1. Qualified(score) \subseteq Nat
    BY <1>1, <1>3
  <2>2. \A v \in Qualified(score) : score[v] \in Int
    BY <1>2, <1>3 DEF Points
  <2> QED
    BY <1>4, <2>1, <2>2 DEF Scored
<1>6. ASSUME NEW previous
      PROVE  /\ SelectUnl(score, previous).unl \subseteq Keys
             /\ SelectUnl(score, previous).alternates \subseteq Keys
  <2>1. SelectUnl(score, previous).unl \union SelectUnl(score, previous).alternates
          = Qualified(score)
    BY <1>5, SelectionByMerit
  <2> QED
    BY <1>1, <1>3, <2>1
<1> QED
  BY <1>1, <1>2, <1>5, <1>6 DEF score

\* What the world holds keeps its types; the versions signed are those in hand.
LEMMA WorldStep ==
  ASSUME IInv, DataInv, [Next]_vars
  PROVE  WorldTypes'
<1>0. /\ WorldTypes /\ RunTypes /\ KindInHand
      /\ MaxRounds \in Nat /\ MaxVersion \in Nat /\ MaxVersion # 0 /\ Fickle \subseteq Keys
      /\ Overrides \subseteq SUBSET Keys
  BY PipelineAssumption DEF DataInv, PipelineAssumption
<1>1. CASE Network
  BY <1>0, <1>1 DEF Network, Rotate, Forget, Learn, roundVars, WorldTypes, Versions
<1>2. CASE Start
  <2>1. /\ UNCHANGED <<current, node, store, found, signed, latest, held>>
        /\ rounds' \in {rounds, rounds + 1} /\ rounds < MaxRounds
    BY <1>2 DEF Start, StartRound, StartDryRun, StartOverride, manifestVars, roundVars
  <2> QED
    BY <1>0, <2>1 DEF WorldTypes
<1>3. CASE RefreshManifests \/ ResolveManifests \/ ResolveFails
  <2>1. \E wanted : \E fetched \in Answers(wanted) :
          store' = Remember(fetched) /\ found' = found \union fetched
    <3>1. CASE RefreshManifests
      BY <3>1 DEF RefreshManifests
    <3>2. CASE ResolveManifests
      BY <3>2 DEF ResolveManifests
    <3>3. CASE ResolveFails
      BY <3>3 DEF ResolveFails
    <3> QED
      BY <1>3, <3>1, <3>2, <3>3
  <2>2. PICK wanted : \E fetched \in Answers(wanted) :
          store' = Remember(fetched) /\ found' = found \union fetched
    BY <2>1
  <2>3. PICK fetched \in Answers(wanted) :
          store' = Remember(fetched) /\ found' = found \union fetched
    BY <2>2
  <2>4. UNCHANGED <<current, node, signed, latest, held, rounds>>
    BY <1>3 DEF RefreshManifests, ResolveManifests, ResolveFails, roundVars
  <2>5. fetched \subseteq Keys
    BY AnswersKnown
  <2> QED
    BY <1>0, <2>3, <2>4, <2>5 DEF WorldTypes, Remember
<1>4. CASE Sign
  <2>1. /\ run.at = "sign" /\ run.missing = {}
        /\ signed' = [k \in Keys |-> IF k \in run.unl THEN run.manifests[k] ELSE signed[k]]
        /\ UNCHANGED <<current, node, store, found, latest, held, rounds>>
    BY <1>4 DEF Sign, roundVars
  <2>2. \A k \in Keys : k \in run.unl =>
          run.manifests[k] \in Nat /\ signed[k] <= run.manifests[k]
            /\ run.manifests[k] <= store[k]
    BY <2>1 DEF IInv, InHand
  <2>3. \A k \in Keys : signed[k] \in 1..MaxVersion /\ store[k] \in 0..MaxVersion
    BY <1>0 DEF WorldTypes, Versions
  <2>4. \A k \in Keys : k \in run.unl => run.manifests[k] \in 1..MaxVersion
    BY <1>0, <2>2, <2>3
  <2> QED
    BY <1>0, <2>1, <2>3, <2>4 DEF WorldTypes
<1>5. CASE Hold
  <2>1. /\ held' = held \union {[number |-> run.id, unl |-> run.unl]}
        /\ UNCHANGED <<current, node, store, found, signed, latest, rounds>>
    BY <1>5 DEF Hold, manifestVars
  <2>2. run.id \in 1..rounds /\ run.unl \subseteq Keys
    BY <1>0, <1>5 DEF Hold, KindInHand, RunTypes
  <2> QED
    BY <1>0, <2>1, <2>2 DEF WorldTypes
<1>6. CASE PublishOverride
  <2>1. /\ latest' \in {latest, [number |-> run.id, unl |-> run.unl]}
        /\ UNCHANGED <<current, node, store, found, signed, held, rounds>>
    BY <1>6 DEF PublishOverride, Publishes, manifestVars
  <2>2. run.id \in 1..rounds /\ run.unl \subseteq Keys
    BY <1>0, <1>6 DEF PublishOverride, KindInHand, RunTypes
  <2> QED
    BY <1>0, <2>1, <2>2 DEF WorldTypes
<1>7. CASE PublishHeld
  <2>1. PICK h \in held :
          held' = held \ {h} /\ latest' \in {latest, [number |-> h.number, unl |-> h.unl]}
    BY <1>7 DEF PublishHeld, Publishes
  <2>2. UNCHANGED <<current, node, store, found, signed, rounds>>
    BY <1>7 DEF PublishHeld, manifestVars
  <2>3. h.number \in 1..rounds /\ h.unl \subseteq Keys
    BY <1>0, <2>1 DEF WorldTypes
  <2> QED
    BY <1>0, <2>1, <2>2, <2>3 DEF WorldTypes
<1>8. CASE \/ \E snapshot \in Snapshots : Collect(snapshot)
           \/ \E judged \in [DOMAIN run.place -> Verdicts] : Judge(judged)
           \/ Freeze \/ Select \/ StoreReview \/ StageFails \/ Crash \/ UNCHANGED vars
  <2>1. UNCHANGED <<current, node, store, found, signed, latest, held, rounds>>
    BY <1>8 DEF Collect, Judge, Freeze, Select, StoreReview, StageFails, Crash, manifestVars,
                roundVars, vars
  <2> QED
    BY <1>0, <2>1 DEF WorldTypes
<1> QED
  BY <1>1, <1>2, <1>3, <1>4, <1>5, <1>6, <1>7, <1>8 DEF Next, Stages

\* What a run has in hand after a step follows from what it had before.
LEMMA RunStep ==
  ASSUME IInv, DataInv, [Next]_vars
  PROVE  RunTypes' /\ KindInHand' /\ InputsInHand'
<1>0. WorldTypes /\ RunTypes /\ KindInHand /\ InputsInHand /\ DOMAIN run = Fields
  BY DEF DataInv, IInv, ManifestTypes
<1>1. CASE Network \/ UNCHANGED vars
  <2>1. UNCHANGED <<run, latest, rounds>>
    BY <1>1 DEF Network, Rotate, Forget, Learn, roundVars, vars
  <2> QED
    BY <1>0, <2>1 DEF RunTypes, KindInHand, InputsInHand
<1>2. CASE PublishHeld
  <2>1. run' = Idle
    BY <1>2 DEF PublishHeld
  <2> QED
    BY <2>1, IdleInHand
<1>3. CASE Hold \/ PublishOverride \/ StoreReview \/ StageFails \/ Crash
  <2>1. run' = Idle
    BY <1>3 DEF Hold, PublishOverride, StoreReview, StageFails, Crash
  <2> QED
    BY <2>1, IdleInHand
<1>4. ASSUME NEW work, run' = work, work.kind \in Kinds,
             work.kind \in {"normal", "override"} => work.id \in 1..rounds',
             work.at \in {"collect", "resolve"},
             work.unl \subseteq Keys, work.previous = {}, work.alternates = {},
             work.missing = {}
      PROVE  RunTypes' /\ KindInHand' /\ InputsInHand'
  BY <1>4 DEF RunTypes, KindInHand, InputsInHand
<1>5. CASE Start
  <2>0. rounds \in Nat /\ \A list \in Overrides : list \subseteq Keys
    BY <1>0, PipelineAssumption DEF WorldTypes, PipelineAssumption
  <2>1. CASE StartRound
    <3> DEFINE work == [Idle EXCEPT !.kind = "normal", !.at = "collect", !.id = rounds + 1]
    <3>1. run' = work /\ rounds' = rounds + 1
      BY <2>1 DEF StartRound, Begin
    <3>2. /\ work.kind = "normal" /\ work.at = "collect" /\ work.id = rounds + 1
          /\ work.unl = {} /\ work.previous = {} /\ work.alternates = {} /\ work.missing = {}
      BY DEF Idle
    <3> HIDE DEF work
    <3> QED
      BY <1>4, <2>0, <3>1, <3>2 DEF Kinds
  <2>2. CASE StartDryRun
    <3> DEFINE work == [Idle EXCEPT !.kind = "dry", !.at = "collect"]
    <3>1. run' = work
      BY <2>2 DEF StartDryRun, Begin
    <3>2. /\ work.kind = "dry" /\ work.at = "collect"
          /\ work.unl = {} /\ work.previous = {} /\ work.alternates = {} /\ work.missing = {}
      BY DEF Idle
    <3> HIDE DEF work
    <3> QED
      BY <1>4, <3>1, <3>2 DEF Kinds
  <2>3. ASSUME NEW list \in Overrides, StartOverride(list)
        PROVE  RunTypes' /\ KindInHand' /\ InputsInHand'
    <3> DEFINE work == [Idle EXCEPT !.kind = "override", !.at = "resolve", !.id = rounds + 1,
                                    !.unl = list]
    <3>1. run' = work /\ rounds' = rounds + 1
      BY <2>3 DEF StartOverride, Begin
    <3>2. /\ work.kind = "override" /\ work.at = "resolve" /\ work.id = rounds + 1
          /\ work.unl = list /\ work.previous = {} /\ work.alternates = {} /\ work.missing = {}
      BY DEF Idle
    <3> HIDE DEF work
    <3> QED
      BY <1>4, <2>0, <3>1, <3>2 DEF Kinds
  <2> QED
    BY <1>5, <2>1, <2>2, <2>3 DEF Start
<1>6. ASSUME NEW snapshot \in Snapshots, Collect(snapshot)
      PROVE  RunTypes' /\ KindInHand' /\ InputsInHand'
  <2>1. /\ run.at = "collect" /\ UNCHANGED rounds
        /\ run'.at = IF run.kind = "dry" THEN "score" ELSE "refresh"
        /\ run'.place = Located(snapshot)
        /\ run'.kind = run.kind /\ run'.id = run.id /\ run'.previous = run.previous
        /\ run'.unl = run.unl /\ run'.alternates = run.alternates /\ run'.missing = run.missing
    BY <1>0, <1>6 DEF Collect, roundVars, Fields
  <2>2. DOMAIN Located(snapshot) \subseteq Keys
    BY PipelineAssumption DEF Located, PipelineAssumption
  <2> QED
    BY <1>0, <2>1, <2>2 DEF RunTypes, KindInHand, InputsInHand, Kinds
<1>7. CASE RefreshManifests
  <2>1. /\ run.at = "refresh" /\ UNCHANGED rounds /\ run'.at = "freeze"
        /\ run'.place = run.place
        /\ run'.kind = run.kind /\ run'.id = run.id /\ run'.previous = run.previous
        /\ run'.unl = run.unl /\ run'.alternates = run.alternates /\ run'.missing = run.missing
    BY <1>0, <1>7 DEF RefreshManifests, roundVars, Fields
  <2> QED
    BY <1>0, <2>1 DEF RunTypes, KindInHand, InputsInHand
<1>8. CASE Freeze
  <2>1. /\ run.at = "freeze" /\ UNCHANGED <<rounds, latest>> /\ run'.at = "score"
        /\ run'.previous = latest.unl /\ run'.inputs = DiversityInputs(run.place)
        /\ run'.place = run.place /\ run'.kind = run.kind /\ run'.id = run.id
        /\ run'.unl = run.unl /\ run'.alternates = run.alternates /\ run'.missing = run.missing
    BY <1>0, <1>8 DEF Freeze, PreviousUnl, roundVars, Fields
  <2>2. latest.unl \subseteq Keys
    BY <1>0 DEF WorldTypes
  <2> QED
    BY <1>0, <2>1, <2>2 DEF RunTypes, KindInHand, InputsInHand
<1>9. ASSUME NEW judged \in [DOMAIN run.place -> Verdicts], Judge(judged)
      PROVE  RunTypes' /\ KindInHand' /\ InputsInHand'
  <2>1. /\ run.at = "score" /\ UNCHANGED <<rounds, latest>> /\ run'.at = "select"
        /\ run'.judged = judged /\ run'.place = run.place /\ run'.inputs = run.inputs
        /\ run'.kind = run.kind /\ run'.id = run.id /\ run'.previous = run.previous
        /\ run'.unl = run.unl /\ run'.alternates = run.alternates /\ run'.missing = run.missing
    BY <1>0, <1>9 DEF Judge, roundVars, Fields
  <2>2. RunTypes' /\ KindInHand'
    BY <1>0, <2>1 DEF RunTypes, KindInHand
  <2>3. InputsInHand'
    BY <1>0, <2>1 DEF InputsInHand
  <2> QED
    BY <2>2, <2>3
<1>10. CASE Select
  <2> DEFINE inputs == IF run.kind = "dry" THEN DiversityInputs(run.place) ELSE run.inputs
             score == FinalScores(run.judged, inputs)
             previous == IF run.kind = "dry" THEN PreviousUnl ELSE run.previous
             selection == SelectUnl(score, previous)
  <2>1. /\ run.at = "select" /\ UNCHANGED rounds /\ run'.at = "resolve"
        /\ run'.previous = previous /\ run'.unl = selection.unl
        /\ run'.alternates = selection.alternates
        /\ run'.kind = run.kind /\ run'.id = run.id /\ run'.missing = run.missing
    BY <1>0, <1>10 DEF Select, roundVars, Fields
  <2>2. inputs = DiversityInputs(run.place) /\ previous \subseteq Keys
    BY <1>0, <2>1 DEF InputsInHand, RunTypes, WorldTypes, PreviousUnl
  <2>3. selection.unl \subseteq Keys /\ selection.alternates \subseteq Keys
    BY <1>0, <2>1, <2>2, SelectFacts
  <2>4. run.missing = {}
    BY <2>1 DEF IInv, MissingNotFound
  <2> HIDE DEF selection, previous
  <2> QED
    BY <1>0, <2>1, <2>2, <2>3, <2>4 DEF RunTypes, KindInHand, InputsInHand
<1>11. CASE ResolveManifests
  <2>1. PICK fetched \in Answers(run.unl) :
          run' = [Signing EXCEPT !.manifests = Resolve(fetched),
                                 !.missing = run.unl \ DOMAIN Resolve(fetched),
                                 !.at = IF run.kind = "dry" THEN "store" ELSE "sign"]
    BY <1>11 DEF ResolveManifests
  <2>2. /\ run.at = "resolve" /\ UNCHANGED rounds
        /\ run'.at = IF run.kind = "dry" THEN "store" ELSE "sign"
        /\ run'.manifests = Resolve(fetched)
        /\ run'.missing = run.unl \ DOMAIN Resolve(fetched)
        /\ run'.kind = run.kind /\ run'.id = run.id /\ run'.unl = run.unl
        /\ run'.previous = {} /\ run'.alternates = {}
    BY <1>0, <1>11, <2>1 DEF ResolveManifests, Signing, roundVars, Fields
  <2>3. DOMAIN Resolve(fetched) \subseteq run.unl
    BY DEF Resolve
  <2> QED
    BY <1>0, <2>2, <2>3 DEF RunTypes, KindInHand, InputsInHand, Kinds
<1>12. CASE ResolveFails
  <2>1. CASE run.kind = "dry"
    <3>1. /\ run.at = "resolve" /\ UNCHANGED rounds /\ run'.at = "store"
          /\ run'.kind = "dry" /\ run'.unl = run.unl /\ run'.missing = run.missing
          /\ run'.previous = {} /\ run'.alternates = {}
      BY <1>0, <1>12, <2>1 DEF ResolveFails, Signing, roundVars, Fields
    <3> QED
      BY <1>0, <3>1 DEF RunTypes, KindInHand, InputsInHand, Kinds
  <2>2. CASE run.kind # "dry"
    BY <1>12, <2>2, IdleInHand DEF ResolveFails
  <2> QED
    BY <2>1, <2>2
<1>13. CASE Sign
  <2>1. /\ run.at = "sign" /\ UNCHANGED rounds
        /\ run'.at = IF run.kind = "override" THEN "publish" ELSE "hold"
        /\ run'.kind = run.kind /\ run'.id = run.id /\ run'.previous = run.previous
        /\ run'.unl = run.unl /\ run'.alternates = run.alternates /\ run'.missing = run.missing
    BY <1>0, <1>13 DEF Sign, roundVars, Fields
  <2> QED
    BY <1>0, <2>1 DEF RunTypes, KindInHand, InputsInHand
<1> QED
  BY <1>1, <1>2, <1>3, <1>5, <1>6, <1>7, <1>8, <1>9, <1>10, <1>11, <1>12, <1>13
     DEF Next, Stages

THEOREM DataInvariance == Spec => [](IInv /\ DataInv)
<1>1. Init => IInv /\ DataInv
  BY InitIInv, InitData
<1>2. IInv /\ DataInv /\ [Next]_vars => (IInv /\ DataInv)'
  <2> SUFFICES ASSUME IInv, DataInv, [Next]_vars PROVE IInv' /\ DataInv'
    OBVIOUS
  <2>1. IInv'
    BY NextIInv
  <2>2. WorldTypes'
    BY WorldStep
  <2>3. RunTypes' /\ KindInHand' /\ InputsInHand'
    BY RunStep
  <2> QED
    BY <2>1, <2>2, <2>3 DEF DataInv
<1> QED
  BY <1>1, <1>2, PTL DEF Spec

\* Every variable keeps its type, through any number of rounds, dry runs and
\* overrides: no version beyond the newest, no held or published list without a
\* row, no list of keys nobody collected.
THEOREM TypeCorrect == Spec => []TypeOK
<1>1. DataInv => TypeOK
  BY TypeParts DEF DataInv
<1> QED
  BY <1>1, DataInvariance, PTL

-----------------------------------------------------------------------------
(* The selection: what Select leaves is what select_unl computes from the  *)
(* published UNL and the counts of the place the run has collected; what   *)
(* the promises speak of stays as it is until the run has resolved.        *)

SelectedLists == SeatsByMerit /\ ChurnIsEarned /\ OnlyConsensusSeats

LEMMA NotJustSelected == ~JustSelected => SelectedLists
BY DEF SelectedLists, SeatsByMerit, ChurnIsEarned, OnlyConsensusSeats

LEMMA SelectStep ==
  ASSUME IInv, DataInv, Select
  PROVE  SelectedLists'
<1> DEFINE inputs == IF run.kind = "dry" THEN DiversityInputs(run.place) ELSE run.inputs
           previous == IF run.kind = "dry" THEN PreviousUnl ELSE run.previous
           score == FinalScores(run.judged, DiversityInputs(run.place))
           lists == SelectUnl(score, latest.unl)
<1>0. DOMAIN run = Fields /\ InputsInHand /\ run.at = "select" /\ UNCHANGED latest
  BY DEF IInv, ManifestTypes, DataInv, Select, roundVars
<1>1. inputs = DiversityInputs(run.place) /\ previous = latest.unl
  BY <1>0 DEF InputsInHand, PreviousUnl
<1>2. /\ run'.previous = previous
      /\ run'.score = FinalScores(run.judged, inputs)
      /\ run'.unl = SelectUnl(FinalScores(run.judged, inputs), previous).unl
      /\ run'.alternates = SelectUnl(FinalScores(run.judged, inputs), previous).alternates
      /\ run'.judged = run.judged
  BY <1>0 DEF Select, Fields
<1>3. /\ run'.previous = latest.unl /\ run'.score = score /\ run'.judged = run.judged
      /\ run'.unl = lists.unl /\ run'.alternates = lists.alternates
  BY <1>1, <1>2
<1>4. Scored(score, Qualified(score))
  BY <1>0, SelectFacts
<1>5. /\ lists.unl \cap lists.alternates = {}
      /\ lists.unl \union lists.alternates = Qualified(score)
      /\ Cardinality(lists.unl) <= MaxSize
      /\ lists.alternates # {} => Cardinality(lists.unl) = MaxSize
      /\ \A seated \in lists.unl, out \in lists.alternates :
           score[out] > score[seated] =>
             /\ seated \in latest.unl /\ out \notin latest.unl
             /\ score[out] < score[seated] + MinGap
  <2> HIDE DEF score
  <2> QED
    BY <1>4, SelectionByMerit
<1>6. \A member \in (latest.unl \cap Qualified(score)) \ lists.unl :
        \/ \E newcomer \in lists.unl \ latest.unl :
             score[newcomer] >= score[member] + MinGap
        \/ Cardinality({v \in (latest.unl \cap Qualified(score)) \ {member} :
                          score[v] >= score[member]}) >= MaxSize
  <2> HIDE DEF score
  <2> QED
    BY <1>4, SelectionChurn
<1>7. \A v \in lists.unl : run.judged[v].consensus >= Cutoff - ConsensusGateMargin
  <2>1. /\ DOMAIN run.place \in SUBSET Keys
        /\ run.judged \in [DOMAIN run.place -> Verdicts]
    BY <1>0 DEF InputsInHand
  <2>2. IsFiniteSet(Keys) /\ Keys \subseteq Nat /\ Verdicts \subseteq Judgements
    BY PipelineAssumption DEF PipelineAssumption
  <2>3. IsFiniteSet(DOMAIN run.place)
    BY <2>1, <2>2, FS_Subset
  <2>4. DOMAIN run.place \subseteq Nat /\ run.judged \in [DOMAIN run.place -> Judgements]
    BY <2>1, <2>2
  <2> QED
    BY <2>3, <2>4, ConsensusSeats
<1> HIDE DEF score, lists
<1>8. SeatsByMerit'
  BY <1>3, <1>5 DEF SeatsByMerit, Qualified
<1>9. ChurnIsEarned'
  BY <1>0, <1>3, <1>6 DEF ChurnIsEarned, Qualified
<1>10. OnlyConsensusSeats'
  BY <1>3, <1>7 DEF OnlyConsensusSeats
<1> QED
  BY <1>8, <1>9, <1>10 DEF SelectedLists

\* No other step leaves a selection behind that is not the one before it.
LEMMA OtherSteps ==
  ASSUME IInv, DataInv, [Next]_vars, ~Select
  PROVE  ~JustSelected' \/ UNCHANGED <<run, latest>>
<1>0. DOMAIN run = Fields /\ KindInHand
  BY DEF IInv, ManifestTypes, DataInv
<1>1. CASE Network \/ UNCHANGED vars
  BY <1>1 DEF Network, Rotate, Forget, Learn, roundVars, vars
<1>2. CASE \/ PublishHeld \/ Hold \/ PublishOverride \/ StoreReview \/ StageFails \/ Crash
  <2>1. run' = Idle
    BY <1>2 DEF PublishHeld, Hold, PublishOverride, StoreReview, StageFails, Crash
  <2> QED
    BY <2>1, IdleFacts DEF JustSelected
<1>3. CASE StartRound \/ StartDryRun
  <2>1. run'.at = "collect"
    BY <1>3 DEF StartRound, StartDryRun, Begin, Idle
  <2> QED
    BY <2>1 DEF JustSelected
<1>4. CASE \E list \in Overrides : StartOverride(list)
  <2>1. run'.kind = "override"
    BY <1>4 DEF StartOverride, Begin, Idle
  <2> QED
    BY <2>1 DEF JustSelected
<1>5. CASE \/ \E snapshot \in Snapshots : Collect(snapshot)
           \/ RefreshManifests \/ Freeze
           \/ \E judged \in [DOMAIN run.place -> Verdicts] : Judge(judged)
           \/ ResolveManifests \/ ResolveFails \/ Sign
  <2>1. run'.at # "resolve"
    <3>1. CASE \E snapshot \in Snapshots : Collect(snapshot)
      BY <1>0, <3>1 DEF Collect, Fields
    <3>2. CASE RefreshManifests \/ Freeze
      BY <1>0, <3>2 DEF RefreshManifests, Freeze, Fields
    <3>3. CASE \E judged \in [DOMAIN run.place -> Verdicts] : Judge(judged)
      BY <1>0, <3>3 DEF Judge, Fields
    <3>4. CASE ResolveManifests
      BY <1>0, <3>4 DEF ResolveManifests, Signing, Fields
    <3>5. CASE ResolveFails
      BY <1>0, <3>5, IdleFacts DEF ResolveFails, Signing, Fields
    <3>6. CASE Sign
      BY <1>0, <3>6 DEF Sign, Fields
    <3> QED
      BY <1>5, <3>1, <3>2, <3>3, <3>4, <3>5, <3>6
  <2> QED
    BY <2>1 DEF JustSelected
<1> QED
  BY <1>1, <1>2, <1>3, <1>4, <1>5 DEF Next, Start, Stages

LEMMA SelectedStep ==
  ASSUME IInv, DataInv, SelectedLists, [Next]_vars
  PROVE  SelectedLists'
<1>1. CASE Select
  BY <1>1, SelectStep
<1>2. CASE ~Select /\ ~JustSelected'
  BY <1>2 DEF SelectedLists, SeatsByMerit, ChurnIsEarned, OnlyConsensusSeats
<1>3. CASE UNCHANGED <<run, latest>>
  BY <1>3 DEF SelectedLists, SeatsByMerit, ChurnIsEarned, OnlyConsensusSeats, JustSelected
<1> QED
  BY <1>1, <1>2, <1>3, OtherSteps

LEMMA Selected == Spec => []SelectedLists
<1>1. Init => SelectedLists
  BY IdleFacts, NotJustSelected DEF Init, JustSelected
<1>2. (IInv /\ DataInv) /\ SelectedLists /\ [Next]_vars => SelectedLists'
  BY SelectedStep
<1> QED
  BY <1>1, <1>2, DataInvariance, PTL DEF Spec

\* The list a normal or dry run has selected seats by merit: the qualified
\* validators are seated or alternates, the cap holds and no seat is left open,
\* and only an incumbent, and only within the gap, keeps a seat from a higher
\* score.
THEOREM SeatedByMerit == Spec => []SeatsByMerit
<1>1. SelectedLists => SeatsByMerit
  BY DEF SelectedLists
<1> QED
  BY <1>1, Selected, PTL

\* A member of the published UNL, whatever was published, held or failed since
\* the run began, loses its seat only to a newcomer that leads it by the gap, or
\* to the cap.
THEOREM ChurnEarned == Spec => []ChurnIsEarned
<1>1. SelectedLists => ChurnIsEarned
  BY DEF SelectedLists
<1> QED
  BY <1>1, Selected, PTL

\* From the model's answer through the frozen diversity counts and the churn
\* control, nobody more than the margin below the cutoff in consensus is seated.
THEOREM ConsensusOnly == Spec => []OnlyConsensusSeats
<1>1. SelectedLists => OnlyConsensusSeats
  BY DEF SelectedLists
<1> QED
  BY <1>1, Selected, PTL
=============================================================================
