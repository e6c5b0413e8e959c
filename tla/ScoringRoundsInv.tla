-------------------------- MODULE ScoringRoundsInv --------------------------
(***************************************************************************)
(* The inductive invariant of ScoringRounds: what the lock holder's        *)
(* position says about the row it works on and about its locals, and what  *)
(* ties the rows, the pending artifacts, the register and the public lists *)
(* together between runs.                                                  *)
(***************************************************************************)
EXTENDS ScoringRounds

Newest(r) == \A q \in Existing : q <= r

NoWork == {"idle", "create", "next"}

BeforeHold == {"collect", "freeze", "score", "select", "reserve", "sign", "store",
               "hold"}

BeforeConfirm == {"pin", "mark_pinned", "distribute", "confirm"}

AfterConfirm == {"memo", "mark_memo", "mark_memo_failed", "complete", "delete"}

\* The row under work is where the program counter says.
WorkerRow ==
    /\ pc \in NoWork <=> rnd = NoRound
    /\ pc \in BeforeHold => status[rnd] \in InPipeline
    /\ pc \in {"store", "hold", "refresh", "delete"} => kind[rnd] = "normal"
    /\ pc = "refresh" => status[rnd] = "AWAITING_COMMIT_CLOSE"
    /\ pc \in {"pin", "mark_pinned"} =>
          status[rnd] = IF kind[rnd] = "normal" THEN "AWAITING_COMMIT_CLOSE"
                                                ELSE "VL_SIGNED"
    /\ pc \in {"distribute", "confirm"} => status[rnd] = "IPFS_PUBLISHED"
    /\ pc \in {"memo", "mark_memo", "mark_memo_failed"} =>
          status[rnd] = "VL_DISTRIBUTED"
    /\ pc = "complete" => status[rnd] = "ONCHAIN_PUBLISHED"
    /\ pc = "delete" => status[rnd] \in Published
    /\ pc \in {"release", "mark_failed"} =>
          status[rnd] \in InPipeline \union {"AWAITING_COMMIT_CLOSE", "IPFS_PUBLISHED"}
    /\ pc = "create" => \A r \in Rounds : status[r] \notin InPipeline
    /\ queue # {} => pc \notin {"idle", "create"} \union BeforeHold
    /\ \A q \in queue : due[q] /\ status[q] # Absent

\* The signed list in hand is this round's, with the number it reserved; a
\* number reserved in this run is still the next one and its row the newest.
WorkerVL ==
    /\ pc \in {"store", "hold", "refresh"} \union BeforeConfirm =>
          vl \in VL /\ vl.round = rnd /\ vl.seq = seq
    /\ pc \in {"sign", "store", "hold"} => seq = confirmed + 1
    /\ pc \in {"refresh"} \union BeforeConfirm /\ kind[rnd] = "normal" =>
          seq = vlSeq[rnd] /\ due[rnd] /\ artifacts[rnd] = vl
    /\ pc \in BeforeConfirm /\ kind[rnd] = "override" =>
          seq = confirmed + 1 /\ Newest(rnd)
    /\ pc = "hold" => artifacts[rnd] = vl
    /\ pc \in AfterConfirm \ {"delete"} /\ kind[rnd] = "normal" =>
          artifacts[rnd] # NoVL

\* Pending artifacts belong to their row and carry its number.
ArtifactsMatchRows ==
    \A r \in Rounds :
        /\ artifacts[r] # NoVL => artifacts[r].round = r
        /\ IsHeld(r) => artifacts[r] # NoVL /\ artifacts[r].seq = vlSeq[r]
        /\ status[r] = Absent => bundle[r] = NoVL

\* Numbers in rows never decrease with the round number, whatever becomes of
\* the rounds; this is why a late held round cannot overtake a newer one.
NumbersInRoundOrder ==
    /\ \A r \in Rounds : vlSeq[r] <= confirmed + 1
    /\ \A r \in Rounds : status[r] = Absent => vlSeq[r] = NoSeq
    /\ \A p, q \in Rounds :
          p < q /\ vlSeq[p] # NoSeq /\ vlSeq[q] # NoSeq => vlSeq[p] <= vlSeq[q]

\* The distributed rounds carry 1..confirmed, strictly in round order.
DistributedNumbers ==
    /\ \A r \in Rounds : status[r] \in Distributed => vlSeq[r] \in 1..confirmed
    /\ \A p, q \in Rounds :
          p < q /\ status[p] \in Distributed /\ status[q] \in Distributed =>
              vlSeq[p] < vlSeq[q]
    /\ \A n \in 1..confirmed :
          \E r \in Rounds : status[r] \in Distributed /\ vlSeq[r] = n

\* What is bundled, public and served.
PublicLists ==
    /\ \A v \in public :
          /\ status[v.round] \in {"IPFS_PUBLISHED", "FAILED"} \union Distributed
          /\ bundle[v.round] = v
    /\ pc \in {"mark_pinned", "distribute", "confirm"} => bundle[rnd] = vl
    /\ pc = "confirm" => vl \in public
    /\ \A r \in Rounds :
          IsHeld(r) /\ status[r] = "IPFS_PUBLISHED" => bundle[r] = artifacts[r]
    /\ served.seq = confirmed
    /\ served # NoVL =>
          /\ served \in public
          /\ status[served.round] \in Distributed
          /\ vlSeq[served.round] = confirmed

IInv ==
    /\ TypeOK
    /\ ReservationIsNext
    /\ OnlyNewestInPipeline
    /\ WorkerRow
    /\ WorkerVL
    /\ ArtifactsMatchRows
    /\ NumbersInRoundOrder
    /\ DistributedNumbers
    /\ PublicLists
    /\ WithheldUntilDue
    /\ MemoFollowsConfirmation
    /\ BaselineIsServed

\* What every step but a confirmation leaves alone.
HistoryKept ==
    /\ UNCHANGED <<confirmed, served>>
    /\ \A r \in Rounds :
          /\ status'[r] \in Distributed <=> status[r] \in Distributed
          /\ status[r] \in Distributed => vlSeq'[r] = vlSeq[r]

\* Every number has a distributed row that PublisherOf names, and only one.
HasPublishers ==
    \A n \in 1..confirmed :
        /\ PublisherOf(n) \in Rounds
        /\ status[PublisherOf(n)] \in Distributed
        /\ vlSeq[PublisherOf(n)] = n

UniquePublishers ==
    \A p, q \in Rounds :
        /\ status[p] \in Distributed /\ status[q] \in Distributed
        /\ vlSeq[p] = vlSeq[q]
        => p = q
=============================================================================
