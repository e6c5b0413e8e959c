------------------------ MODULE ScoringRoundsProofs ------------------------
(***************************************************************************)
(* Proofs about ScoringRounds for every value of its constants.  IInv is   *)
(* inductive: one lemma per conjunct, one step per action.  The theorems   *)
(* at the end are its consequences.                                        *)
(***************************************************************************)
EXTENDS ScoringRoundsInv, TLAPS

\* The status literals that actions assign are members of Status.
LEMMA StatusValues ==
    /\ "COLLECTING" \in Status /\ "INPUT_FROZEN" \in Status /\ "SCORED" \in Status
    /\ "SELECTED" \in Status /\ "VL_SIGNED" \in Status
    /\ "AWAITING_COMMIT_CLOSE" \in Status /\ "IPFS_PUBLISHED" \in Status
    /\ "VL_DISTRIBUTED" \in Status /\ "ONCHAIN_PUBLISHED" \in Status
    /\ "COMPLETE" \in Status /\ "VL_PUBLISHED_MEMO_FAILED" \in Status
    /\ "FAILED" \in Status
BY DEF Status, InPipeline, Resumable, Terminal, Published

\* Every step keeps every variable in its type; SignVL, the resume and the
\* re-sign need the worker's row and list for it.
LEMMA TypeStep == IInv /\ Next => TypeOK'
<1> USE StatusValues DEF rowVars, bundleVars, registerVars, worldVars,
        workerVars, boundVars, Goto, Finish, SetStatus, TypeOK, NoSeq, PCs
<1> SUFFICES ASSUME IInv, Next PROVE TypeOK'
    OBVIOUS
<1>1. ASSUME CleanupStaleRounds PROVE TypeOK'
    BY <1>1 DEF IInv, CleanupStaleRounds
<1>2. ASSUME PublishDueRounds PROVE TypeOK'
    BY <1>2 DEF IInv, PublishDueRounds, DueRounds, IsHeld
<1>3. ASSUME TickWithNothingDue PROVE TypeOK'
    BY <1>3 DEF IInv, TickWithNothingDue, vars
<1>4. ASSUME NEW n \in Rounds, NEW k \in Kinds, CreateRound(n, k) PROVE TypeOK'
    BY <1>4 DEF IInv, Kinds, CreateRound, IsNextRoundNumber, Existing
<1>5. ASSUME Collect PROVE TypeOK'
    BY <1>5 DEF IInv, Collect, StatusStep
<1>6. ASSUME FreezeInput PROVE TypeOK'
    BY <1>6 DEF IInv, FreezeInput
<1>7. ASSUME Score PROVE TypeOK'
    BY <1>7 DEF IInv, Score, StatusStep
<1>8. ASSUME Select PROVE TypeOK'
    BY <1>8 DEF IInv, Select, StatusStep
<1>9. ASSUME StageFails PROVE TypeOK'
    BY <1>9 DEF IInv, StageFails
<1>10. ASSUME ReserveNextSequence PROVE TypeOK'
    BY <1>10 DEF IInv, ReserveNextSequence, NextSequence
<1>11. ASSUME SignVL PROVE TypeOK'
    BY <1>11 DEF IInv, WorkerRow, NoWork, VL, SignVL
<1>12. ASSUME SignOrStoreFails PROVE TypeOK'
    BY <1>12 DEF IInv, SignOrStoreFails
<1>13. ASSUME StorePendingPublication PROVE TypeOK'
    BY <1>13 DEF IInv, StorePendingPublication
<1>14. ASSUME HoldForCommitClose PROVE TypeOK'
    BY <1>14 DEF IInv, HoldForCommitClose
<1>15. ASSUME LoadHeldRound PROVE TypeOK'
    <2>1. PICK r \in queue :
             /\ queue' = queue \ {r}
             /\ IF IsHeld(r) /\ artifacts[r] # NoVL
                   THEN /\ rnd' = r
                        /\ seq' = vlSeq[r]
                        /\ vl' = artifacts[r]
                        /\ pc' = ResumeAt(status[r])
                   ELSE UNCHANGED <<pc, rnd, seq, vl>>
        BY <1>15 DEF LoadHeldRound
    <2>2. r \in Rounds /\ vlSeq[r] \in Nat /\ artifacts[r] \in VL \union {NoVL}
        BY <2>1 DEF IInv
    <2>3. IsHeld(r) => ResumeAt(status[r]) \in PCs
        BY DEF IsHeld, Resumable, ResumeAt
    <2>4. CASE IsHeld(r) /\ artifacts[r] # NoVL
        BY <1>15, <2>1, <2>2, <2>3, <2>4 DEF IInv, LoadHeldRound
    <2>5. CASE ~(IsHeld(r) /\ artifacts[r] # NoVL)
        BY <1>15, <2>1, <2>5 DEF IInv, LoadHeldRound
    <2>6. QED
        BY <2>4, <2>5
<1>16. ASSUME ReleaseLock PROVE TypeOK'
    BY <1>16 DEF IInv, ReleaseLock
<1>17. ASSUME KeepActivation PROVE TypeOK'
    BY <1>17 DEF IInv, KeepActivation
<1>18. ASSUME RefreshStaleActivation PROVE TypeOK'
    BY <1>18 DEF IInv, WorkerVL, BeforeConfirm, VL, RefreshStaleActivation
<1>19. ASSUME PinBundle PROVE TypeOK'
    BY <1>19 DEF IInv, PinBundle
<1>20. ASSUME PinFails PROVE TypeOK'
    BY <1>20 DEF IInv, PinFails
<1>21. ASSUME MarkPinned PROVE TypeOK'
    BY <1>21 DEF IInv, MarkPinned, StatusStep
<1>22. ASSUME DistributeVL PROVE TypeOK'
    BY <1>22 DEF IInv, WorkerVL, BeforeConfirm, DistributeVL
<1>23. ASSUME DistributeFails PROVE TypeOK'
    BY <1>23 DEF IInv, WorkerVL, BeforeConfirm, DistributeFails
<1>24. ASSUME ConfirmPublicVL PROVE TypeOK'
    BY <1>24 DEF IInv, ConfirmPublicVL, CanConfirm
<1>25. ASSUME ConfirmFails PROVE TypeOK'
    BY <1>25 DEF IInv, ConfirmFails, CanConfirm
<1>26. ASSUME SubmitMemo PROVE TypeOK'
    BY <1>26 DEF IInv, WorkerRow, NoWork, SubmitMemo
<1>27. ASSUME MemoFails PROVE TypeOK'
    BY <1>27 DEF IInv, WorkerRow, NoWork, MemoFails
<1>28. ASSUME MarkMemo PROVE TypeOK'
    BY <1>28 DEF IInv, MarkMemo, StatusStep
<1>29. ASSUME CompleteRound PROVE TypeOK'
    <2>1. CASE Goto("delete")
        BY <1>29, <2>1 DEF IInv, CompleteRound, EndPublication
    <2>2. CASE Finish
        BY <1>29, <2>2 DEF IInv, CompleteRound, EndPublication
    <2>3. QED
        BY <1>29, <2>1, <2>2 DEF CompleteRound, EndPublication
<1>30. ASSUME MarkMemoFailed PROVE TypeOK'
    <2>1. CASE Goto("delete")
        BY <1>30, <2>1 DEF IInv, MarkMemoFailed, EndPublication
    <2>2. CASE Finish
        BY <1>30, <2>2 DEF IInv, MarkMemoFailed, EndPublication
    <2>3. QED
        BY <1>30, <2>1, <2>2 DEF MarkMemoFailed, EndPublication
<1>31. ASSUME DeletePendingPublication PROVE TypeOK'
    BY <1>31 DEF IInv, DeletePendingPublication
<1>32. ASSUME ReleaseSequence PROVE TypeOK'
    BY <1>32 DEF IInv, ReleaseSequence
<1>33. ASSUME FailRound PROVE TypeOK'
    BY <1>33 DEF IInv, FailRound
<1>34. ASSUME Abort PROVE TypeOK'
    BY <1>34 DEF IInv, Abort
<1>35. ASSUME NEW r \in Rounds, PublicationDue(r) PROVE TypeOK'
    BY <1>35 DEF IInv, PublicationDue
<1> QED
    BY <1>1, <1>2, <1>3, <1>4, <1>5, <1>6, <1>7, <1>8, <1>9, <1>10, <1>11, <1>12, <1>13, <1>14, <1>15, <1>16, <1>17, <1>18, <1>19, <1>20, <1>21, <1>22, <1>23, <1>24, <1>25, <1>26, <1>27, <1>28, <1>29, <1>30, <1>31, <1>32, <1>33, <1>34, <1>35 DEF Next, RunSteps, PublicationSteps

\* The row under work stays where the program counter of the lock holder says,
\* through every commit, abort and start of a run.
LEMMA WorkerRowStep == IInv /\ Next => WorkerRow'
<1> USE DEF rowVars, bundleVars, registerVars, worldVars, workerVars, boundVars, Goto, Finish,
        SetStatus, IInv, TypeOK, WorkerRow, NoWork, BeforeHold, InPipeline, Resumable, Terminal, Published, Absent
<1> SUFFICES ASSUME IInv, Next PROVE WorkerRow'
    OBVIOUS
<1>0. NoRound \notin Rounds /\ (pc \notin NoWork => rnd \in Rounds)
    BY DEF Rounds, NoRound, NoWork
<1>1. ASSUME CleanupStaleRounds PROVE WorkerRow'
    BY <1>1, <1>0 DEF CleanupStaleRounds, Abandoned
<1>2. ASSUME PublishDueRounds PROVE WorkerRow'
    BY <1>2, <1>0 DEF PublishDueRounds, DueRounds, IsHeld
<1>3. ASSUME TickWithNothingDue PROVE WorkerRow'
    BY <1>3, <1>0 DEF TickWithNothingDue, vars
<1>4. ASSUME NEW n \in Rounds, NEW k \in Kinds, CreateRound(n, k) PROVE WorkerRow'
    BY <1>4, <1>0 DEF CreateRound, IsNextRoundNumber, Existing
<1>5. ASSUME Collect PROVE WorkerRow'
    BY <1>5, <1>0 DEF Collect, StatusStep
<1>6. ASSUME FreezeInput PROVE WorkerRow'
    BY <1>6, <1>0 DEF FreezeInput, IsPreviousUNL
<1>7. ASSUME Score PROVE WorkerRow'
    BY <1>7, <1>0 DEF Score, StatusStep
<1>8. ASSUME Select PROVE WorkerRow'
    BY <1>8, <1>0 DEF Select, StatusStep
<1>9. ASSUME StageFails PROVE WorkerRow'
    BY <1>9, <1>0 DEF StageFails
<1>10. ASSUME ReserveNextSequence PROVE WorkerRow'
    BY <1>10, <1>0 DEF ReserveNextSequence, NextSequence
<1>11. ASSUME SignVL PROVE WorkerRow'
    BY <1>11, <1>0 DEF SignVL
<1>12. ASSUME SignOrStoreFails PROVE WorkerRow'
    BY <1>12, <1>0 DEF SignOrStoreFails
<1>13. ASSUME StorePendingPublication PROVE WorkerRow'
    BY <1>13, <1>0 DEF StorePendingPublication
<1>14. ASSUME HoldForCommitClose PROVE WorkerRow'
    BY <1>14, <1>0 DEF HoldForCommitClose
<1>15. ASSUME LoadHeldRound PROVE WorkerRow'
    BY <1>15, <1>0 DEF LoadHeldRound, IsHeld, ResumeAt
<1>16. ASSUME ReleaseLock PROVE WorkerRow'
    BY <1>16, <1>0 DEF ReleaseLock
<1>17. ASSUME KeepActivation PROVE WorkerRow'
    BY <1>17, <1>0 DEF KeepActivation
<1>18. ASSUME RefreshStaleActivation PROVE WorkerRow'
    BY <1>18, <1>0 DEF RefreshStaleActivation
<1>19. ASSUME PinBundle PROVE WorkerRow'
    BY <1>19, <1>0 DEF PinBundle
<1>20. ASSUME PinFails PROVE WorkerRow'
    BY <1>20, <1>0 DEF PinFails
<1>21. ASSUME MarkPinned PROVE WorkerRow'
    BY <1>21, <1>0 DEF MarkPinned, StatusStep
<1>22. ASSUME DistributeVL PROVE WorkerRow'
    BY <1>22, <1>0 DEF DistributeVL
<1>23. ASSUME DistributeFails PROVE WorkerRow'
    BY <1>23, <1>0 DEF DistributeFails
<1>24. ASSUME ConfirmPublicVL PROVE WorkerRow'
    BY <1>24, <1>0 DEF ConfirmPublicVL, CanConfirm
<1>25. ASSUME ConfirmFails PROVE WorkerRow'
    BY <1>25, <1>0 DEF ConfirmFails, CanConfirm
<1>26. ASSUME SubmitMemo PROVE WorkerRow'
    BY <1>26, <1>0 DEF SubmitMemo
<1>27. ASSUME MemoFails PROVE WorkerRow'
    BY <1>27, <1>0 DEF MemoFails
<1>28. ASSUME MarkMemo PROVE WorkerRow'
    BY <1>28, <1>0 DEF MarkMemo, StatusStep
<1>29. ASSUME CompleteRound PROVE WorkerRow'
    BY <1>29, <1>0 DEF CompleteRound, EndPublication
<1>30. ASSUME MarkMemoFailed PROVE WorkerRow'
    BY <1>30, <1>0 DEF MarkMemoFailed, EndPublication
<1>31. ASSUME DeletePendingPublication PROVE WorkerRow'
    BY <1>31, <1>0 DEF DeletePendingPublication
<1>32. ASSUME ReleaseSequence PROVE WorkerRow'
    BY <1>32, <1>0 DEF ReleaseSequence
<1>33. ASSUME FailRound PROVE WorkerRow'
    BY <1>33, <1>0 DEF FailRound
<1>34. ASSUME Abort PROVE WorkerRow'
    BY <1>34, <1>0 DEF Abort
<1>35. ASSUME NEW r \in Rounds, PublicationDue(r) PROVE WorkerRow'
    BY <1>35, <1>0 DEF PublicationDue
<1> QED
    BY <1>1, <1>2, <1>3, <1>4, <1>5, <1>6, <1>7, <1>8, <1>9, <1>10, <1>11, <1>12, <1>13, <1>14, <1>15, <1>16, <1>17, <1>18, <1>19, <1>20, <1>21, <1>22, <1>23, <1>24, <1>25, <1>26, <1>27, <1>28, <1>29, <1>30, <1>31, <1>32, <1>33, <1>34, <1>35 DEF Next, RunSteps, PublicationSteps

\* Reserve, release and confirm leave the register with no reservation or with
\* the successor of the confirmed number.
LEMMA ReservationStep == IInv /\ Next => ReservationIsNext'
<1> USE DEF rowVars, bundleVars, registerVars, worldVars, workerVars, boundVars, Goto, Finish,
        SetStatus, IInv, TypeOK, ReservationIsNext, NoSeq
<1> SUFFICES ASSUME IInv, Next PROVE ReservationIsNext'
    OBVIOUS
<1>1. ASSUME CleanupStaleRounds PROVE ReservationIsNext'
    BY <1>1 DEF CleanupStaleRounds, Abandoned
<1>2. ASSUME PublishDueRounds PROVE ReservationIsNext'
    BY <1>2 DEF PublishDueRounds, DueRounds, IsHeld
<1>3. ASSUME TickWithNothingDue PROVE ReservationIsNext'
    BY <1>3 DEF TickWithNothingDue, vars
<1>4. ASSUME NEW n \in Rounds, NEW k \in Kinds, CreateRound(n, k) PROVE ReservationIsNext'
    BY <1>4 DEF CreateRound, IsNextRoundNumber, Existing
<1>5. ASSUME Collect PROVE ReservationIsNext'
    BY <1>5 DEF Collect, StatusStep
<1>6. ASSUME FreezeInput PROVE ReservationIsNext'
    BY <1>6 DEF FreezeInput, IsPreviousUNL
<1>7. ASSUME Score PROVE ReservationIsNext'
    BY <1>7 DEF Score, StatusStep
<1>8. ASSUME Select PROVE ReservationIsNext'
    BY <1>8 DEF Select, StatusStep
<1>9. ASSUME StageFails PROVE ReservationIsNext'
    BY <1>9 DEF StageFails
<1>10. ASSUME ReserveNextSequence PROVE ReservationIsNext'
    BY <1>10 DEF ReserveNextSequence, NextSequence
<1>11. ASSUME SignVL PROVE ReservationIsNext'
    BY <1>11 DEF SignVL
<1>12. ASSUME SignOrStoreFails PROVE ReservationIsNext'
    BY <1>12 DEF SignOrStoreFails
<1>13. ASSUME StorePendingPublication PROVE ReservationIsNext'
    BY <1>13 DEF StorePendingPublication
<1>14. ASSUME HoldForCommitClose PROVE ReservationIsNext'
    BY <1>14 DEF HoldForCommitClose
<1>15. ASSUME LoadHeldRound PROVE ReservationIsNext'
    BY <1>15 DEF LoadHeldRound, IsHeld, ResumeAt
<1>16. ASSUME ReleaseLock PROVE ReservationIsNext'
    BY <1>16 DEF ReleaseLock
<1>17. ASSUME KeepActivation PROVE ReservationIsNext'
    BY <1>17 DEF KeepActivation
<1>18. ASSUME RefreshStaleActivation PROVE ReservationIsNext'
    BY <1>18 DEF RefreshStaleActivation
<1>19. ASSUME PinBundle PROVE ReservationIsNext'
    BY <1>19 DEF PinBundle
<1>20. ASSUME PinFails PROVE ReservationIsNext'
    BY <1>20 DEF PinFails
<1>21. ASSUME MarkPinned PROVE ReservationIsNext'
    BY <1>21 DEF MarkPinned, StatusStep
<1>22. ASSUME DistributeVL PROVE ReservationIsNext'
    BY <1>22 DEF DistributeVL
<1>23. ASSUME DistributeFails PROVE ReservationIsNext'
    BY <1>23 DEF DistributeFails
<1>24. ASSUME ConfirmPublicVL PROVE ReservationIsNext'
    BY <1>24 DEF ConfirmPublicVL, CanConfirm
<1>25. ASSUME ConfirmFails PROVE ReservationIsNext'
    BY <1>25 DEF ConfirmFails, CanConfirm
<1>26. ASSUME SubmitMemo PROVE ReservationIsNext'
    BY <1>26 DEF SubmitMemo
<1>27. ASSUME MemoFails PROVE ReservationIsNext'
    BY <1>27 DEF MemoFails
<1>28. ASSUME MarkMemo PROVE ReservationIsNext'
    BY <1>28 DEF MarkMemo, StatusStep
<1>29. ASSUME CompleteRound PROVE ReservationIsNext'
    BY <1>29 DEF CompleteRound, EndPublication
<1>30. ASSUME MarkMemoFailed PROVE ReservationIsNext'
    BY <1>30 DEF MarkMemoFailed, EndPublication
<1>31. ASSUME DeletePendingPublication PROVE ReservationIsNext'
    BY <1>31 DEF DeletePendingPublication
<1>32. ASSUME ReleaseSequence PROVE ReservationIsNext'
    BY <1>32 DEF ReleaseSequence
<1>33. ASSUME FailRound PROVE ReservationIsNext'
    BY <1>33 DEF FailRound
<1>34. ASSUME Abort PROVE ReservationIsNext'
    BY <1>34 DEF Abort
<1>35. ASSUME NEW r \in Rounds, PublicationDue(r) PROVE ReservationIsNext'
    BY <1>35 DEF PublicationDue
<1> QED
    BY <1>1, <1>2, <1>3, <1>4, <1>5, <1>6, <1>7, <1>8, <1>9, <1>10, <1>11, <1>12, <1>13, <1>14, <1>15, <1>16, <1>17, <1>18, <1>19, <1>20, <1>21, <1>22, <1>23, <1>24, <1>25, <1>26, <1>27, <1>28, <1>29, <1>30, <1>31, <1>32, <1>33, <1>34, <1>35 DEF Next, RunSteps, PublicationSteps

\* Cleanup runs before a row is created, so only the newest row is ever in the
\* pipeline.
LEMMA NewestStep == IInv /\ Next => OnlyNewestInPipeline'
<1> USE DEF rowVars, bundleVars, registerVars, worldVars, workerVars, boundVars, Goto, Finish,
        SetStatus, IInv, TypeOK, OnlyNewestInPipeline, Existing, WorkerRow, NoWork, BeforeHold, InPipeline, Resumable, Terminal, Published, Distributed, Absent
<1> SUFFICES ASSUME IInv, Next PROVE OnlyNewestInPipeline'
    OBVIOUS
<1>0. NoRound \notin Rounds /\ (pc \notin NoWork => rnd \in Rounds)
    BY DEF Rounds, NoRound, NoWork
<1>1. ASSUME CleanupStaleRounds PROVE OnlyNewestInPipeline'
    BY <1>1, <1>0 DEF CleanupStaleRounds, Abandoned
<1>2. ASSUME PublishDueRounds PROVE OnlyNewestInPipeline'
    BY <1>2, <1>0 DEF PublishDueRounds, DueRounds, IsHeld
<1>3. ASSUME TickWithNothingDue PROVE OnlyNewestInPipeline'
    BY <1>3, <1>0 DEF TickWithNothingDue, vars
<1>4. ASSUME NEW n \in Rounds, NEW k \in Kinds, CreateRound(n, k) PROVE OnlyNewestInPipeline'
    <2>1. \A r \in Rounds : r # n => status'[r] = status[r]
        BY <1>4 DEF CreateRound
    <2>2. \A q \in Rounds : status'[q] # Absent => q <= n
        BY <1>4, <2>1, BoundsAssumption DEF CreateRound, IsNextRoundNumber, Rounds
    <2>3. \A r \in Rounds : status'[r] \in InPipeline => r = n
        BY <1>4, <2>1 DEF CreateRound
    <2>4. QED
        BY <2>2, <2>3
<1>5. ASSUME Collect PROVE OnlyNewestInPipeline'
    BY <1>5, <1>0 DEF Collect, StatusStep
<1>6. ASSUME FreezeInput PROVE OnlyNewestInPipeline'
    BY <1>6, <1>0 DEF FreezeInput, IsPreviousUNL
<1>7. ASSUME Score PROVE OnlyNewestInPipeline'
    BY <1>7, <1>0 DEF Score, StatusStep
<1>8. ASSUME Select PROVE OnlyNewestInPipeline'
    BY <1>8, <1>0 DEF Select, StatusStep
<1>9. ASSUME StageFails PROVE OnlyNewestInPipeline'
    BY <1>9, <1>0 DEF StageFails
<1>10. ASSUME ReserveNextSequence PROVE OnlyNewestInPipeline'
    BY <1>10, <1>0 DEF ReserveNextSequence, NextSequence
<1>11. ASSUME SignVL PROVE OnlyNewestInPipeline'
    BY <1>11, <1>0 DEF SignVL
<1>12. ASSUME SignOrStoreFails PROVE OnlyNewestInPipeline'
    BY <1>12, <1>0 DEF SignOrStoreFails
<1>13. ASSUME StorePendingPublication PROVE OnlyNewestInPipeline'
    BY <1>13, <1>0 DEF StorePendingPublication
<1>14. ASSUME HoldForCommitClose PROVE OnlyNewestInPipeline'
    BY <1>14, <1>0 DEF HoldForCommitClose
<1>15. ASSUME LoadHeldRound PROVE OnlyNewestInPipeline'
    BY <1>15, <1>0 DEF LoadHeldRound, IsHeld, ResumeAt
<1>16. ASSUME ReleaseLock PROVE OnlyNewestInPipeline'
    BY <1>16, <1>0 DEF ReleaseLock
<1>17. ASSUME KeepActivation PROVE OnlyNewestInPipeline'
    BY <1>17, <1>0 DEF KeepActivation
<1>18. ASSUME RefreshStaleActivation PROVE OnlyNewestInPipeline'
    BY <1>18, <1>0 DEF RefreshStaleActivation
<1>19. ASSUME PinBundle PROVE OnlyNewestInPipeline'
    BY <1>19, <1>0 DEF PinBundle
<1>20. ASSUME PinFails PROVE OnlyNewestInPipeline'
    BY <1>20, <1>0 DEF PinFails
<1>21. ASSUME MarkPinned PROVE OnlyNewestInPipeline'
    BY <1>21, <1>0 DEF MarkPinned, StatusStep
<1>22. ASSUME DistributeVL PROVE OnlyNewestInPipeline'
    BY <1>22, <1>0 DEF DistributeVL
<1>23. ASSUME DistributeFails PROVE OnlyNewestInPipeline'
    BY <1>23, <1>0 DEF DistributeFails
<1>24. ASSUME ConfirmPublicVL PROVE OnlyNewestInPipeline'
    BY <1>24, <1>0 DEF ConfirmPublicVL, CanConfirm
<1>25. ASSUME ConfirmFails PROVE OnlyNewestInPipeline'
    BY <1>25, <1>0 DEF ConfirmFails, CanConfirm
<1>26. ASSUME SubmitMemo PROVE OnlyNewestInPipeline'
    BY <1>26, <1>0 DEF SubmitMemo
<1>27. ASSUME MemoFails PROVE OnlyNewestInPipeline'
    BY <1>27, <1>0 DEF MemoFails
<1>28. ASSUME MarkMemo PROVE OnlyNewestInPipeline'
    BY <1>28, <1>0 DEF MarkMemo, StatusStep
<1>29. ASSUME CompleteRound PROVE OnlyNewestInPipeline'
    BY <1>29, <1>0 DEF CompleteRound, EndPublication
<1>30. ASSUME MarkMemoFailed PROVE OnlyNewestInPipeline'
    BY <1>30, <1>0 DEF MarkMemoFailed, EndPublication
<1>31. ASSUME DeletePendingPublication PROVE OnlyNewestInPipeline'
    BY <1>31, <1>0 DEF DeletePendingPublication
<1>32. ASSUME ReleaseSequence PROVE OnlyNewestInPipeline'
    BY <1>32, <1>0 DEF ReleaseSequence
<1>33. ASSUME FailRound PROVE OnlyNewestInPipeline'
    BY <1>33, <1>0 DEF FailRound
<1>34. ASSUME Abort PROVE OnlyNewestInPipeline'
    BY <1>34, <1>0 DEF Abort
<1>35. ASSUME NEW r \in Rounds, PublicationDue(r) PROVE OnlyNewestInPipeline'
    BY <1>35, <1>0 DEF PublicationDue
<1> QED
    BY <1>1, <1>2, <1>3, <1>4, <1>5, <1>6, <1>7, <1>8, <1>9, <1>10, <1>11, <1>12, <1>13, <1>14, <1>15, <1>16, <1>17, <1>18, <1>19, <1>20, <1>21, <1>22, <1>23, <1>24, <1>25, <1>26, <1>27, <1>28, <1>29, <1>30, <1>31, <1>32, <1>33, <1>34, <1>35 DEF Next, RunSteps, PublicationSteps

\* The list in hand stays the worker's own, with the number it reserved; for a
\* held round it is the stored one.
LEMMA WorkerVLStep == IInv /\ Next => WorkerVL'
<1> USE DEF rowVars, bundleVars, registerVars, worldVars, workerVars, boundVars, Goto, Finish,
        SetStatus, IInv, TypeOK, WorkerVL, WorkerRow, OnlyNewestInPipeline, ReservationIsNext, ArtifactsMatchRows, IsHeld, Newest, Existing, NoWork, BeforeHold, BeforeConfirm, AfterConfirm, NoSeq, InPipeline, Resumable, Terminal, Published, Distributed, Absent
<1> SUFFICES ASSUME IInv, Next PROVE WorkerVL'
    OBVIOUS
<1>0. NoRound \notin Rounds /\ (pc \notin NoWork => rnd \in Rounds)
    BY DEF Rounds, NoRound, NoWork
<1>1. ASSUME CleanupStaleRounds PROVE WorkerVL'
    BY <1>1, <1>0 DEF CleanupStaleRounds, Abandoned
<1>2. ASSUME PublishDueRounds PROVE WorkerVL'
    BY <1>2, <1>0 DEF PublishDueRounds, DueRounds, IsHeld
<1>3. ASSUME TickWithNothingDue PROVE WorkerVL'
    BY <1>3, <1>0 DEF TickWithNothingDue, vars
<1>4. ASSUME NEW n \in Rounds, NEW k \in Kinds, CreateRound(n, k) PROVE WorkerVL'
    BY <1>4, <1>0 DEF CreateRound, IsNextRoundNumber, Existing
<1>5. ASSUME Collect PROVE WorkerVL'
    BY <1>5, <1>0 DEF Collect, StatusStep
<1>6. ASSUME FreezeInput PROVE WorkerVL'
    BY <1>6, <1>0 DEF FreezeInput, IsPreviousUNL
<1>7. ASSUME Score PROVE WorkerVL'
    BY <1>7, <1>0 DEF Score, StatusStep
<1>8. ASSUME Select PROVE WorkerVL'
    BY <1>8, <1>0 DEF Select, StatusStep
<1>9. ASSUME StageFails PROVE WorkerVL'
    BY <1>9, <1>0 DEF StageFails
<1>10. ASSUME ReserveNextSequence PROVE WorkerVL'
    BY <1>10, <1>0 DEF ReserveNextSequence, NextSequence
<1>11. ASSUME SignVL PROVE WorkerVL'
    <2>1. vl' \in VL /\ vl'.round = rnd' /\ vl'.seq = seq'
        BY <1>0, <1>11 DEF SignVL, VL
    <2>2. seq' = confirmed' + 1 /\ kind' = kind
        BY <1>11 DEF SignVL
    <2>3. Newest(rnd)'
        BY <1>0, <1>11 DEF SignVL
    <2>4. pc' = IF kind[rnd] = "normal" THEN "store" ELSE "pin"
        BY <1>11 DEF SignVL
    <2>5. pc' = "pin" => kind'[rnd'] # "normal"
        BY <1>11, <2>4 DEF SignVL
    <2>6. QED
        BY <2>1, <2>2, <2>3, <2>4, <2>5
<1>12. ASSUME SignOrStoreFails PROVE WorkerVL'
    BY <1>12, <1>0 DEF SignOrStoreFails
<1>13. ASSUME StorePendingPublication PROVE WorkerVL'
    BY <1>13, <1>0 DEF StorePendingPublication
<1>14. ASSUME HoldForCommitClose PROVE WorkerVL'
    BY <1>14, <1>0 DEF HoldForCommitClose
<1>15. ASSUME LoadHeldRound PROVE WorkerVL'
    BY <1>15, <1>0 DEF LoadHeldRound, IsHeld, ResumeAt
<1>16. ASSUME ReleaseLock PROVE WorkerVL'
    BY <1>16, <1>0 DEF ReleaseLock
<1>17. ASSUME KeepActivation PROVE WorkerVL'
    BY <1>17, <1>0 DEF KeepActivation
<1>18. ASSUME RefreshStaleActivation PROVE WorkerVL'
    <2>1. vl' \in VL /\ vl'.round = rnd' /\ vl'.seq = seq'
        BY <1>0, <1>18 DEF RefreshStaleActivation, VL
    <2>2. artifacts'[rnd'] = vl' /\ seq' = vlSeq'[rnd'] /\ due'[rnd']
        BY <1>0, <1>18 DEF RefreshStaleActivation
    <2>3. pc' = "pin" /\ kind'[rnd'] = "normal"
        BY <1>0, <1>18 DEF RefreshStaleActivation
    <2>4. QED
        BY <2>1, <2>2, <2>3
<1>19. ASSUME PinBundle PROVE WorkerVL'
    BY <1>19, <1>0 DEF PinBundle
<1>20. ASSUME PinFails PROVE WorkerVL'
    BY <1>20, <1>0 DEF PinFails
<1>21. ASSUME MarkPinned PROVE WorkerVL'
    BY <1>21, <1>0 DEF MarkPinned, StatusStep
<1>22. ASSUME DistributeVL PROVE WorkerVL'
    BY <1>22, <1>0 DEF DistributeVL
<1>23. ASSUME DistributeFails PROVE WorkerVL'
    BY <1>23, <1>0 DEF DistributeFails
<1>24. ASSUME ConfirmPublicVL PROVE WorkerVL'
    BY <1>24, <1>0 DEF ConfirmPublicVL, CanConfirm
<1>25. ASSUME ConfirmFails PROVE WorkerVL'
    BY <1>25, <1>0 DEF ConfirmFails, CanConfirm
<1>26. ASSUME SubmitMemo PROVE WorkerVL'
    BY <1>26, <1>0 DEF SubmitMemo
<1>27. ASSUME MemoFails PROVE WorkerVL'
    BY <1>27, <1>0 DEF MemoFails
<1>28. ASSUME MarkMemo PROVE WorkerVL'
    BY <1>28, <1>0 DEF MarkMemo, StatusStep
<1>29. ASSUME CompleteRound PROVE WorkerVL'
    BY <1>29, <1>0 DEF CompleteRound, EndPublication
<1>30. ASSUME MarkMemoFailed PROVE WorkerVL'
    BY <1>30, <1>0 DEF MarkMemoFailed, EndPublication
<1>31. ASSUME DeletePendingPublication PROVE WorkerVL'
    BY <1>31, <1>0 DEF DeletePendingPublication
<1>32. ASSUME ReleaseSequence PROVE WorkerVL'
    BY <1>32, <1>0 DEF ReleaseSequence
<1>33. ASSUME FailRound PROVE WorkerVL'
    BY <1>33, <1>0 DEF FailRound
<1>34. ASSUME Abort PROVE WorkerVL'
    BY <1>34, <1>0 DEF Abort
<1>35. ASSUME NEW r \in Rounds, PublicationDue(r) PROVE WorkerVL'
    BY <1>35, <1>0 DEF PublicationDue
<1> QED
    BY <1>1, <1>2, <1>3, <1>4, <1>5, <1>6, <1>7, <1>8, <1>9, <1>10, <1>11, <1>12, <1>13, <1>14, <1>15, <1>16, <1>17, <1>18, <1>19, <1>20, <1>21, <1>22, <1>23, <1>24, <1>25, <1>26, <1>27, <1>28, <1>29, <1>30, <1>31, <1>32, <1>33, <1>34, <1>35 DEF Next, RunSteps, PublicationSteps

\* Pending artifacts are stored before a round is held and deleted only once it
\* is terminal, and always carry the number of their row.
LEMMA ArtifactsStep == IInv /\ Next => ArtifactsMatchRows'
<1> USE DEF rowVars, bundleVars, registerVars, worldVars, workerVars, boundVars, Goto, Finish,
        SetStatus, IInv, TypeOK, WorkerVL, WorkerRow, ArtifactsMatchRows, IsHeld, NoWork, BeforeHold, BeforeConfirm, AfterConfirm, NoSeq, InPipeline, Resumable, Terminal, Published, Distributed, Absent
<1> SUFFICES ASSUME IInv, Next PROVE ArtifactsMatchRows'
    OBVIOUS
<1>0. NoRound \notin Rounds /\ (pc \notin NoWork => rnd \in Rounds)
    BY DEF Rounds, NoRound, NoWork
<1>1. ASSUME CleanupStaleRounds PROVE ArtifactsMatchRows'
    BY <1>1, <1>0 DEF CleanupStaleRounds, Abandoned
<1>2. ASSUME PublishDueRounds PROVE ArtifactsMatchRows'
    BY <1>2, <1>0 DEF PublishDueRounds, DueRounds, IsHeld
<1>3. ASSUME TickWithNothingDue PROVE ArtifactsMatchRows'
    BY <1>3, <1>0 DEF TickWithNothingDue, vars
<1>4. ASSUME NEW n \in Rounds, NEW k \in Kinds, CreateRound(n, k) PROVE ArtifactsMatchRows'
    BY <1>4, <1>0 DEF CreateRound, IsNextRoundNumber, Existing
<1>5. ASSUME Collect PROVE ArtifactsMatchRows'
    BY <1>5, <1>0 DEF Collect, StatusStep
<1>6. ASSUME FreezeInput PROVE ArtifactsMatchRows'
    BY <1>6, <1>0 DEF FreezeInput, IsPreviousUNL
<1>7. ASSUME Score PROVE ArtifactsMatchRows'
    BY <1>7, <1>0 DEF Score, StatusStep
<1>8. ASSUME Select PROVE ArtifactsMatchRows'
    BY <1>8, <1>0 DEF Select, StatusStep
<1>9. ASSUME StageFails PROVE ArtifactsMatchRows'
    BY <1>9, <1>0 DEF StageFails
<1>10. ASSUME ReserveNextSequence PROVE ArtifactsMatchRows'
    BY <1>10, <1>0 DEF ReserveNextSequence, NextSequence
<1>11. ASSUME SignVL PROVE ArtifactsMatchRows'
    BY <1>11, <1>0 DEF SignVL
<1>12. ASSUME SignOrStoreFails PROVE ArtifactsMatchRows'
    BY <1>12, <1>0 DEF SignOrStoreFails
<1>13. ASSUME StorePendingPublication PROVE ArtifactsMatchRows'
    BY <1>13, <1>0 DEF StorePendingPublication
<1>14. ASSUME HoldForCommitClose PROVE ArtifactsMatchRows'
    <2>1. artifacts' = artifacts /\ artifacts[rnd] = vl /\ vl # NoVL /\ vl.seq = seq
        BY <1>0, <1>14 DEF HoldForCommitClose, NoVL, NoRound
    <2>2. vlSeq'[rnd] = seq /\ \A r \in Rounds : r # rnd => vlSeq'[r] = vlSeq[r]
        BY <1>0, <1>14 DEF HoldForCommitClose
    <2>3. \A r \in Rounds : r # rnd => status'[r] = status[r]
        BY <1>0, <1>14 DEF HoldForCommitClose
    <2>4. \A r \in Rounds : status'[r] = Absent => status[r] = Absent
        BY <1>0, <1>14 DEF HoldForCommitClose
    <2>5. UNCHANGED <<kind, bundle>>
        BY <1>14 DEF HoldForCommitClose
    <2>6. QED
        BY <2>1, <2>2, <2>3, <2>4, <2>5
<1>15. ASSUME LoadHeldRound PROVE ArtifactsMatchRows'
    BY <1>15, <1>0 DEF LoadHeldRound, IsHeld, ResumeAt
<1>16. ASSUME ReleaseLock PROVE ArtifactsMatchRows'
    BY <1>16, <1>0 DEF ReleaseLock
<1>17. ASSUME KeepActivation PROVE ArtifactsMatchRows'
    BY <1>17, <1>0 DEF KeepActivation
<1>18. ASSUME RefreshStaleActivation PROVE ArtifactsMatchRows'
    <2>1. vl'.round = rnd /\ vl'.seq = vlSeq[rnd]
        BY <1>0, <1>18 DEF RefreshStaleActivation, VL
    <2>2. vl' # NoVL
        <3>1. rnd \in Rounds
            BY <1>0, <1>18 DEF RefreshStaleActivation
        <3>2. NoVL.round = NoRound
            BY DEF NoVL, NoRound
        <3>3. QED
            BY ONLY <1>0, <2>1, <3>1, <3>2
    <2>3. artifacts'[rnd] = vl' /\ \A r \in Rounds : r # rnd => artifacts'[r] = artifacts[r]
        BY <1>0, <1>18 DEF RefreshStaleActivation
    <2>4. UNCHANGED <<status, kind, vlSeq, bundle>>
        BY <1>18 DEF RefreshStaleActivation
    <2>5. QED
        BY <2>1, <2>2, <2>3, <2>4
<1>19. ASSUME PinBundle PROVE ArtifactsMatchRows'
    BY <1>19, <1>0 DEF PinBundle
<1>20. ASSUME PinFails PROVE ArtifactsMatchRows'
    BY <1>20, <1>0 DEF PinFails
<1>21. ASSUME MarkPinned PROVE ArtifactsMatchRows'
    BY <1>21, <1>0 DEF MarkPinned, StatusStep
<1>22. ASSUME DistributeVL PROVE ArtifactsMatchRows'
    BY <1>22, <1>0 DEF DistributeVL
<1>23. ASSUME DistributeFails PROVE ArtifactsMatchRows'
    BY <1>23, <1>0 DEF DistributeFails
<1>24. ASSUME ConfirmPublicVL PROVE ArtifactsMatchRows'
    BY <1>24, <1>0 DEF ConfirmPublicVL, CanConfirm
<1>25. ASSUME ConfirmFails PROVE ArtifactsMatchRows'
    BY <1>25, <1>0 DEF ConfirmFails, CanConfirm
<1>26. ASSUME SubmitMemo PROVE ArtifactsMatchRows'
    BY <1>26, <1>0 DEF SubmitMemo
<1>27. ASSUME MemoFails PROVE ArtifactsMatchRows'
    BY <1>27, <1>0 DEF MemoFails
<1>28. ASSUME MarkMemo PROVE ArtifactsMatchRows'
    BY <1>28, <1>0 DEF MarkMemo, StatusStep
<1>29. ASSUME CompleteRound PROVE ArtifactsMatchRows'
    BY <1>29, <1>0 DEF CompleteRound, EndPublication
<1>30. ASSUME MarkMemoFailed PROVE ArtifactsMatchRows'
    BY <1>30, <1>0 DEF MarkMemoFailed, EndPublication
<1>31. ASSUME DeletePendingPublication PROVE ArtifactsMatchRows'
    BY <1>31, <1>0 DEF DeletePendingPublication
<1>32. ASSUME ReleaseSequence PROVE ArtifactsMatchRows'
    BY <1>32, <1>0 DEF ReleaseSequence
<1>33. ASSUME FailRound PROVE ArtifactsMatchRows'
    BY <1>33, <1>0 DEF FailRound
<1>34. ASSUME Abort PROVE ArtifactsMatchRows'
    BY <1>34, <1>0 DEF Abort
<1>35. ASSUME NEW r \in Rounds, PublicationDue(r) PROVE ArtifactsMatchRows'
    BY <1>35, <1>0 DEF PublicationDue
<1> QED
    BY <1>1, <1>2, <1>3, <1>4, <1>5, <1>6, <1>7, <1>8, <1>9, <1>10, <1>11, <1>12, <1>13, <1>14, <1>15, <1>16, <1>17, <1>18, <1>19, <1>20, <1>21, <1>22, <1>23, <1>24, <1>25, <1>26, <1>27, <1>28, <1>29, <1>30, <1>31, <1>32, <1>33, <1>34, <1>35 DEF Next, RunSteps, PublicationSteps

\* Row numbers never decrease with the round number and never pass the next
\* number.
LEMMA NumbersStep == IInv /\ Next => NumbersInRoundOrder'
<1> USE DEF rowVars, bundleVars, registerVars, worldVars, workerVars, boundVars, Goto, Finish,
        SetStatus, IInv, TypeOK, WorkerVL, WorkerRow, OnlyNewestInPipeline, Newest, NumbersInRoundOrder, ReservationIsNext, Existing, NoWork, BeforeHold, BeforeConfirm, NoSeq, InPipeline, Resumable, Terminal, Published, Distributed, Absent
<1> SUFFICES ASSUME IInv, Next PROVE NumbersInRoundOrder'
    OBVIOUS
<1>0. NoRound \notin Rounds /\ (pc \notin NoWork => rnd \in Rounds)
    BY DEF Rounds, NoRound, NoWork
<1>1. ASSUME CleanupStaleRounds PROVE NumbersInRoundOrder'
    BY <1>1, <1>0 DEF CleanupStaleRounds, Abandoned
<1>2. ASSUME PublishDueRounds PROVE NumbersInRoundOrder'
    BY <1>2, <1>0 DEF PublishDueRounds, DueRounds, IsHeld
<1>3. ASSUME TickWithNothingDue PROVE NumbersInRoundOrder'
    BY <1>3, <1>0 DEF TickWithNothingDue, vars
<1>4. ASSUME NEW n \in Rounds, NEW k \in Kinds, CreateRound(n, k) PROVE NumbersInRoundOrder'
    BY <1>4, <1>0 DEF CreateRound, IsNextRoundNumber, Existing
<1>5. ASSUME Collect PROVE NumbersInRoundOrder'
    BY <1>5, <1>0 DEF Collect, StatusStep
<1>6. ASSUME FreezeInput PROVE NumbersInRoundOrder'
    BY <1>6, <1>0 DEF FreezeInput, IsPreviousUNL
<1>7. ASSUME Score PROVE NumbersInRoundOrder'
    BY <1>7, <1>0 DEF Score, StatusStep
<1>8. ASSUME Select PROVE NumbersInRoundOrder'
    BY <1>8, <1>0 DEF Select, StatusStep
<1>9. ASSUME StageFails PROVE NumbersInRoundOrder'
    BY <1>9, <1>0 DEF StageFails
<1>10. ASSUME ReserveNextSequence PROVE NumbersInRoundOrder'
    BY <1>10, <1>0 DEF ReserveNextSequence, NextSequence
<1>11. ASSUME SignVL PROVE NumbersInRoundOrder'
    BY <1>11, <1>0 DEF SignVL
<1>12. ASSUME SignOrStoreFails PROVE NumbersInRoundOrder'
    BY <1>12, <1>0 DEF SignOrStoreFails
<1>13. ASSUME StorePendingPublication PROVE NumbersInRoundOrder'
    BY <1>13, <1>0 DEF StorePendingPublication
<1>14. ASSUME HoldForCommitClose PROVE NumbersInRoundOrder'
    <2>1. vlSeq'[rnd] = confirmed + 1 /\ confirmed' = confirmed
        BY <1>0, <1>14 DEF HoldForCommitClose
    <2>2. \A r \in Rounds : r # rnd => vlSeq'[r] = vlSeq[r]
        BY <1>0, <1>14 DEF HoldForCommitClose
    <2>3. \A r \in Rounds : status'[r] = Absent => status[r] = Absent /\ r # rnd
        BY <1>0, <1>14 DEF HoldForCommitClose
    <2>4. \A q \in Rounds : vlSeq[q] # NoSeq => q <= rnd
        BY <1>0, <1>14 DEF HoldForCommitClose
    <2>5. rnd \in Int /\ Rounds \subseteq Int
        BY <1>0, <1>14, BoundsAssumption DEF Rounds
    <2>6. \A r \in Rounds : vlSeq'[r] <= confirmed' + 1
        BY <2>1, <2>2
    <2>7. \A p, q \in Rounds :
             p < q /\ vlSeq'[p] # NoSeq /\ vlSeq'[q] # NoSeq => vlSeq'[p] <= vlSeq'[q]
        BY <2>1, <2>2, <2>4, <2>5
    <2>8. QED
        BY <2>2, <2>3, <2>6, <2>7
<1>15. ASSUME LoadHeldRound PROVE NumbersInRoundOrder'
    BY <1>15, <1>0 DEF LoadHeldRound, IsHeld, ResumeAt
<1>16. ASSUME ReleaseLock PROVE NumbersInRoundOrder'
    BY <1>16, <1>0 DEF ReleaseLock
<1>17. ASSUME KeepActivation PROVE NumbersInRoundOrder'
    BY <1>17, <1>0 DEF KeepActivation
<1>18. ASSUME RefreshStaleActivation PROVE NumbersInRoundOrder'
    BY <1>18, <1>0 DEF RefreshStaleActivation
<1>19. ASSUME PinBundle PROVE NumbersInRoundOrder'
    BY <1>19, <1>0 DEF PinBundle
<1>20. ASSUME PinFails PROVE NumbersInRoundOrder'
    BY <1>20, <1>0 DEF PinFails
<1>21. ASSUME MarkPinned PROVE NumbersInRoundOrder'
    BY <1>21, <1>0 DEF MarkPinned, StatusStep
<1>22. ASSUME DistributeVL PROVE NumbersInRoundOrder'
    BY <1>22, <1>0 DEF DistributeVL
<1>23. ASSUME DistributeFails PROVE NumbersInRoundOrder'
    BY <1>23, <1>0 DEF DistributeFails
<1>24. ASSUME ConfirmPublicVL PROVE NumbersInRoundOrder'
    <2>1. seq = confirmed + 1 /\ confirmed' = confirmed + 1
        BY <1>24 DEF ConfirmPublicVL, CanConfirm
    <2>2. vlSeq'[rnd] = confirmed + 1 /\ \A r \in Rounds : r # rnd => vlSeq'[r] = vlSeq[r]
        BY <1>0, <1>24, <2>1 DEF ConfirmPublicVL
    <2>3. \A r \in Rounds : status'[r] = Absent => status[r] = Absent /\ r # rnd
        BY <1>0, <1>24 DEF ConfirmPublicVL
    <2>4. vlSeq[rnd] = confirmed + 1 \/ \A q \in Rounds : vlSeq[q] # NoSeq => q <= rnd
        BY <1>0, <1>24, <2>1 DEF ConfirmPublicVL, Kinds
    <2>5. rnd \in Rounds /\ Rounds \subseteq Int
        BY <1>0, <1>24, BoundsAssumption DEF ConfirmPublicVL, Rounds
    <2>6. \A r \in Rounds : vlSeq'[r] <= confirmed' + 1
        BY <2>1, <2>2
    <2>7. \A p, q \in Rounds :
             p < q /\ vlSeq'[p] # NoSeq /\ vlSeq'[q] # NoSeq => vlSeq'[p] <= vlSeq'[q]
        BY <2>2, <2>4, <2>5
    <2>8. QED
        BY <2>2, <2>3, <2>6, <2>7
<1>25. ASSUME ConfirmFails PROVE NumbersInRoundOrder'
    BY <1>25, <1>0 DEF ConfirmFails, CanConfirm
<1>26. ASSUME SubmitMemo PROVE NumbersInRoundOrder'
    BY <1>26, <1>0 DEF SubmitMemo
<1>27. ASSUME MemoFails PROVE NumbersInRoundOrder'
    BY <1>27, <1>0 DEF MemoFails
<1>28. ASSUME MarkMemo PROVE NumbersInRoundOrder'
    BY <1>28, <1>0 DEF MarkMemo, StatusStep
<1>29. ASSUME CompleteRound PROVE NumbersInRoundOrder'
    BY <1>29, <1>0 DEF CompleteRound, EndPublication
<1>30. ASSUME MarkMemoFailed PROVE NumbersInRoundOrder'
    BY <1>30, <1>0 DEF MarkMemoFailed, EndPublication
<1>31. ASSUME DeletePendingPublication PROVE NumbersInRoundOrder'
    BY <1>31, <1>0 DEF DeletePendingPublication
<1>32. ASSUME ReleaseSequence PROVE NumbersInRoundOrder'
    BY <1>32, <1>0 DEF ReleaseSequence
<1>33. ASSUME FailRound PROVE NumbersInRoundOrder'
    BY <1>33, <1>0 DEF FailRound
<1>34. ASSUME Abort PROVE NumbersInRoundOrder'
    BY <1>34, <1>0 DEF Abort
<1>35. ASSUME NEW r \in Rounds, PublicationDue(r) PROVE NumbersInRoundOrder'
    BY <1>35, <1>0 DEF PublicationDue
<1> QED
    BY <1>1, <1>2, <1>3, <1>4, <1>5, <1>6, <1>7, <1>8, <1>9, <1>10, <1>11, <1>12, <1>13, <1>14, <1>15, <1>16, <1>17, <1>18, <1>19, <1>20, <1>21, <1>22, <1>23, <1>24, <1>25, <1>26, <1>27, <1>28, <1>29, <1>30, <1>31, <1>32, <1>33, <1>34, <1>35 DEF Next, RunSteps, PublicationSteps

\* Only a confirmation touches the counter, the served list, or which rounds are
\* distributed under which number.
LEMMA KeptStep == IInv /\ Next /\ ~ConfirmPublicVL => HistoryKept
<1> USE DEF rowVars, bundleVars, registerVars, worldVars, workerVars, boundVars, Goto, Finish,
        SetStatus, IInv, TypeOK, WorkerRow, HistoryKept, NoWork, BeforeHold, InPipeline, Resumable, Terminal, Published, Distributed, Absent
<1> SUFFICES ASSUME IInv, Next, ~ConfirmPublicVL PROVE HistoryKept
    OBVIOUS
<1>0. NoRound \notin Rounds /\ (pc \notin NoWork => rnd \in Rounds)
    BY DEF Rounds, NoRound, NoWork
<1>1. ASSUME CleanupStaleRounds PROVE HistoryKept
    BY <1>1, <1>0 DEF CleanupStaleRounds, Abandoned
<1>2. ASSUME PublishDueRounds PROVE HistoryKept
    BY <1>2, <1>0 DEF PublishDueRounds, DueRounds, IsHeld
<1>3. ASSUME TickWithNothingDue PROVE HistoryKept
    BY <1>3, <1>0 DEF TickWithNothingDue, vars
<1>4. ASSUME NEW n \in Rounds, NEW k \in Kinds, CreateRound(n, k) PROVE HistoryKept
    BY <1>4, <1>0 DEF CreateRound, IsNextRoundNumber, Existing
<1>5. ASSUME Collect PROVE HistoryKept
    BY <1>5, <1>0 DEF Collect, StatusStep
<1>6. ASSUME FreezeInput PROVE HistoryKept
    BY <1>6, <1>0 DEF FreezeInput, IsPreviousUNL
<1>7. ASSUME Score PROVE HistoryKept
    BY <1>7, <1>0 DEF Score, StatusStep
<1>8. ASSUME Select PROVE HistoryKept
    BY <1>8, <1>0 DEF Select, StatusStep
<1>9. ASSUME StageFails PROVE HistoryKept
    BY <1>9, <1>0 DEF StageFails
<1>10. ASSUME ReserveNextSequence PROVE HistoryKept
    BY <1>10, <1>0 DEF ReserveNextSequence, NextSequence
<1>11. ASSUME SignVL PROVE HistoryKept
    BY <1>11, <1>0 DEF SignVL
<1>12. ASSUME SignOrStoreFails PROVE HistoryKept
    BY <1>12, <1>0 DEF SignOrStoreFails
<1>13. ASSUME StorePendingPublication PROVE HistoryKept
    BY <1>13, <1>0 DEF StorePendingPublication
<1>14. ASSUME HoldForCommitClose PROVE HistoryKept
    BY <1>14, <1>0 DEF HoldForCommitClose
<1>15. ASSUME LoadHeldRound PROVE HistoryKept
    BY <1>15, <1>0 DEF LoadHeldRound, IsHeld, ResumeAt
<1>16. ASSUME ReleaseLock PROVE HistoryKept
    BY <1>16, <1>0 DEF ReleaseLock
<1>17. ASSUME KeepActivation PROVE HistoryKept
    BY <1>17, <1>0 DEF KeepActivation
<1>18. ASSUME RefreshStaleActivation PROVE HistoryKept
    BY <1>18, <1>0 DEF RefreshStaleActivation
<1>19. ASSUME PinBundle PROVE HistoryKept
    BY <1>19, <1>0 DEF PinBundle
<1>20. ASSUME PinFails PROVE HistoryKept
    BY <1>20, <1>0 DEF PinFails
<1>21. ASSUME MarkPinned PROVE HistoryKept
    BY <1>21, <1>0 DEF MarkPinned, StatusStep
<1>22. ASSUME DistributeVL PROVE HistoryKept
    BY <1>22, <1>0 DEF DistributeVL
<1>23. ASSUME DistributeFails PROVE HistoryKept
    BY <1>23, <1>0 DEF DistributeFails
<1>25. ASSUME ConfirmFails PROVE HistoryKept
    BY <1>25, <1>0 DEF ConfirmFails, CanConfirm
<1>26. ASSUME SubmitMemo PROVE HistoryKept
    BY <1>26, <1>0 DEF SubmitMemo
<1>27. ASSUME MemoFails PROVE HistoryKept
    BY <1>27, <1>0 DEF MemoFails
<1>28. ASSUME MarkMemo PROVE HistoryKept
    BY <1>28, <1>0 DEF MarkMemo, StatusStep
<1>29. ASSUME CompleteRound PROVE HistoryKept
    BY <1>29, <1>0 DEF CompleteRound, EndPublication
<1>30. ASSUME MarkMemoFailed PROVE HistoryKept
    BY <1>30, <1>0 DEF MarkMemoFailed, EndPublication
<1>31. ASSUME DeletePendingPublication PROVE HistoryKept
    BY <1>31, <1>0 DEF DeletePendingPublication
<1>32. ASSUME ReleaseSequence PROVE HistoryKept
    BY <1>32, <1>0 DEF ReleaseSequence
<1>33. ASSUME FailRound PROVE HistoryKept
    BY <1>33, <1>0 DEF FailRound
<1>34. ASSUME Abort PROVE HistoryKept
    BY <1>34, <1>0 DEF Abort
<1>35. ASSUME NEW r \in Rounds, PublicationDue(r) PROVE HistoryKept
    BY <1>35, <1>0 DEF PublicationDue
<1> QED
    BY <1>1, <1>2, <1>3, <1>4, <1>5, <1>6, <1>7, <1>8, <1>9, <1>10, <1>11, <1>12, <1>13, <1>14, <1>15, <1>16, <1>17, <1>18, <1>19, <1>20, <1>21, <1>22, <1>23, <1>25, <1>26, <1>27, <1>28, <1>29, <1>30, <1>31, <1>32, <1>33, <1>34, <1>35 DEF Next, RunSteps, PublicationSteps

\* A confirmation appends the next number with a round newer than every
\* distributed one; no other step touches distributed rounds.
LEMMA DistributedStep == IInv /\ Next => DistributedNumbers'
<1> SUFFICES ASSUME IInv, Next PROVE DistributedNumbers'
    OBVIOUS
<1>1. CASE ~ConfirmPublicVL
    <2>1. HistoryKept
        BY <1>1, KeptStep
    <2>2. DistributedNumbers
        BY DEF IInv
    <2>3. QED
        BY <2>1, <2>2 DEF HistoryKept, DistributedNumbers
<1>2. CASE ConfirmPublicVL
    <2> USE DEF rowVars, bundleVars, registerVars, worldVars, workerVars, boundVars, Goto, Finish,
            SetStatus, IInv, TypeOK, WorkerVL, WorkerRow, Newest, NumbersInRoundOrder, DistributedNumbers, ReservationIsNext, Existing, NoWork, BeforeHold, BeforeConfirm, NoSeq, InPipeline, Resumable, Terminal, Published, Distributed, Absent
    <2>1. seq = confirmed + 1 /\ confirmed' = confirmed + 1 /\ rnd \in Rounds
        BY <1>2 DEF ConfirmPublicVL, CanConfirm
    <2>2. vlSeq'[rnd] = confirmed + 1 /\ \A r \in Rounds : r # rnd => vlSeq'[r] = vlSeq[r]
        BY <1>2, <2>1 DEF ConfirmPublicVL
    <2>3. /\ status[rnd] = "IPFS_PUBLISHED" /\ status'[rnd] = "VL_DISTRIBUTED"
          /\ \A r \in Rounds : r # rnd => status'[r] = status[r]
        BY <1>2, <2>1 DEF ConfirmPublicVL
    <2>4. vlSeq[rnd] = confirmed + 1 \/ \A q \in Rounds : vlSeq[q] # NoSeq => q <= rnd
        BY <1>2, <2>1 DEF ConfirmPublicVL, Kinds
    <2>5. Rounds \subseteq Int
        BY BoundsAssumption DEF Rounds
    <2>6. \A r \in Rounds : r # rnd /\ status[r] \in Distributed => r < rnd
        <3> SUFFICES ASSUME NEW r \in Rounds, r # rnd, status[r] \in Distributed
                     PROVE r < rnd
            OBVIOUS
        <3>1. vlSeq[r] \in 1..confirmed
            OBVIOUS
        <3>2. ~(rnd < r)
            BY <2>1, <2>4, <2>5, <3>1
        <3>3. QED
            BY <2>1, <2>5, <3>2
    <2>7. \A r \in Rounds : status'[r] \in Distributed => vlSeq'[r] \in 1..confirmed'
        BY <2>1, <2>2, <2>3
    <2>8. \A p, q \in Rounds :
             p < q /\ status'[p] \in Distributed /\ status'[q] \in Distributed =>
                 vlSeq'[p] < vlSeq'[q]
        <3> SUFFICES ASSUME NEW p \in Rounds, NEW q \in Rounds, p < q,
                            status'[p] \in Distributed, status'[q] \in Distributed
                     PROVE vlSeq'[p] < vlSeq'[q]
            OBVIOUS
        <3>1. CASE q = rnd
            BY <2>2, <2>3, <2>5, <3>1
        <3>2. CASE q # rnd
            BY <2>1, <2>2, <2>3, <2>5, <2>6, <3>2
        <3>3. QED
            BY <3>1, <3>2
    <2>9. \A n \in 1..confirmed' :
             \E r \in Rounds : status'[r] \in Distributed /\ vlSeq'[r] = n
        <3> SUFFICES ASSUME NEW n \in 1..confirmed'
                     PROVE \E r \in Rounds : status'[r] \in Distributed /\ vlSeq'[r] = n
            OBVIOUS
        <3>1. CASE n = confirmed + 1
            BY <2>1, <2>2, <2>3, <3>1
        <3>2. CASE n # confirmed + 1
            <4>1. n \in 1..confirmed
                BY <2>1, <3>2
            <4>2. PICK r \in Rounds : status[r] \in Distributed /\ vlSeq[r] = n
                BY <4>1
            <4>3. r # rnd
                BY <2>3, <4>2
            <4>4. QED
                BY <2>2, <2>3, <4>2, <4>3
        <3>3. QED
            BY <3>1, <3>2
    <2>10. QED
        BY <2>7, <2>8, <2>9
<1> QED
    BY <1>1, <1>2

\* Public lists stay the pinned ones, and the served list is public and carries
\* the confirmed number.
LEMMA PublicStep == IInv /\ Next => PublicLists'
<1> USE DEF rowVars, bundleVars, registerVars, worldVars, workerVars, boundVars, Goto, Finish,
        SetStatus, IInv, TypeOK, WorkerVL, WorkerRow, PublicLists, ArtifactsMatchRows, IsHeld, NoWork, BeforeHold, BeforeConfirm, NoSeq, InPipeline, Resumable, Terminal, Published, Distributed, Absent
<1> SUFFICES ASSUME IInv, Next PROVE PublicLists'
    OBVIOUS
<1>0. NoRound \notin Rounds /\ (pc \notin NoWork => rnd \in Rounds)
    BY DEF Rounds, NoRound, NoWork
<1>1. ASSUME CleanupStaleRounds PROVE PublicLists'
    <2>1. \A r \in Rounds : status[r] \notin InPipeline => status'[r] = status[r]
        BY <1>1 DEF CleanupStaleRounds, Abandoned, Status
    <2>2. \A v \in public : v.round \in Rounds
        BY DEF VL
    <2>3. served # NoVL => served.round \in Rounds
        BY DEF VL
    <2>4. \A r \in Rounds : IsHeld(r)' /\ status'[r] = "IPFS_PUBLISHED" =>
                 IsHeld(r) /\ status[r] = "IPFS_PUBLISHED"
        BY <1>1 DEF CleanupStaleRounds, Abandoned
    <2>5. pc' = "create" /\ UNCHANGED <<public, bundle, artifacts, served, confirmed, vlSeq>>
        BY <1>1 DEF CleanupStaleRounds
    <2>6. QED
        BY <2>1, <2>2, <2>3, <2>4, <2>5
<1>2. ASSUME PublishDueRounds PROVE PublicLists'
    BY <1>2, <1>0 DEF PublishDueRounds, DueRounds, IsHeld
<1>3. ASSUME TickWithNothingDue PROVE PublicLists'
    BY <1>3, <1>0 DEF TickWithNothingDue, vars
<1>4. ASSUME NEW n \in Rounds, NEW k \in Kinds, CreateRound(n, k) PROVE PublicLists'
    <2>1. status[n] = Absent /\ \A r \in Rounds : r # n => status'[r] = status[r]
        BY <1>4 DEF CreateRound, IsNextRoundNumber, Existing
    <2>2. \A v \in public : v.round \in Rounds /\ v.round # n
        BY <2>1 DEF VL
    <2>3. served # NoVL => served.round \in Rounds /\ served.round # n
        BY <2>1 DEF VL
    <2>4. \A r \in Rounds : IsHeld(r)' => r # n /\ IsHeld(r)
        BY <1>4, <2>1 DEF CreateRound
    <2>5. pc' \in {"collect", "reserve"}
        BY <1>4 DEF CreateRound
    <2>6. UNCHANGED <<public, bundle, artifacts, served, confirmed, vlSeq>>
        BY <1>4 DEF CreateRound
    <2>7. QED
        BY <2>1, <2>2, <2>3, <2>4, <2>5, <2>6
<1>5. ASSUME Collect PROVE PublicLists'
    BY <1>5, <1>0 DEF Collect, StatusStep
<1>6. ASSUME FreezeInput PROVE PublicLists'
    BY <1>6, <1>0 DEF FreezeInput, IsPreviousUNL
<1>7. ASSUME Score PROVE PublicLists'
    BY <1>7, <1>0 DEF Score, StatusStep
<1>8. ASSUME Select PROVE PublicLists'
    BY <1>8, <1>0 DEF Select, StatusStep
<1>9. ASSUME StageFails PROVE PublicLists'
    BY <1>9, <1>0 DEF StageFails
<1>10. ASSUME ReserveNextSequence PROVE PublicLists'
    BY <1>10, <1>0 DEF ReserveNextSequence, NextSequence
<1>11. ASSUME SignVL PROVE PublicLists'
    BY <1>11, <1>0 DEF SignVL
<1>12. ASSUME SignOrStoreFails PROVE PublicLists'
    BY <1>12, <1>0 DEF SignOrStoreFails
<1>13. ASSUME StorePendingPublication PROVE PublicLists'
    BY <1>13, <1>0 DEF StorePendingPublication
<1>14. ASSUME HoldForCommitClose PROVE PublicLists'
    BY <1>14, <1>0 DEF HoldForCommitClose
<1>15. ASSUME LoadHeldRound PROVE PublicLists'
    BY <1>15, <1>0 DEF LoadHeldRound, IsHeld, ResumeAt
<1>16. ASSUME ReleaseLock PROVE PublicLists'
    BY <1>16, <1>0 DEF ReleaseLock
<1>17. ASSUME KeepActivation PROVE PublicLists'
    BY <1>17, <1>0 DEF KeepActivation
<1>18. ASSUME RefreshStaleActivation PROVE PublicLists'
    BY <1>18, <1>0 DEF RefreshStaleActivation
<1>19. ASSUME PinBundle PROVE PublicLists'
    BY <1>19, <1>0 DEF PinBundle
<1>20. ASSUME PinFails PROVE PublicLists'
    BY <1>20, <1>0 DEF PinFails
<1>21. ASSUME MarkPinned PROVE PublicLists'
    BY <1>21, <1>0 DEF MarkPinned, StatusStep
<1>22. ASSUME DistributeVL PROVE PublicLists'
    BY <1>22, <1>0 DEF DistributeVL
<1>23. ASSUME DistributeFails PROVE PublicLists'
    BY <1>23, <1>0 DEF DistributeFails
<1>24. ASSUME ConfirmPublicVL PROVE PublicLists'
    BY <1>24, <1>0 DEF ConfirmPublicVL, CanConfirm
<1>25. ASSUME ConfirmFails PROVE PublicLists'
    BY <1>25, <1>0 DEF ConfirmFails, CanConfirm
<1>26. ASSUME SubmitMemo PROVE PublicLists'
    BY <1>26, <1>0 DEF SubmitMemo
<1>27. ASSUME MemoFails PROVE PublicLists'
    BY <1>27, <1>0 DEF MemoFails
<1>28. ASSUME MarkMemo PROVE PublicLists'
    BY <1>28, <1>0 DEF MarkMemo, StatusStep
<1>29. ASSUME CompleteRound PROVE PublicLists'
    BY <1>29, <1>0 DEF CompleteRound, EndPublication
<1>30. ASSUME MarkMemoFailed PROVE PublicLists'
    BY <1>30, <1>0 DEF MarkMemoFailed, EndPublication
<1>31. ASSUME DeletePendingPublication PROVE PublicLists'
    BY <1>31, <1>0 DEF DeletePendingPublication
<1>32. ASSUME ReleaseSequence PROVE PublicLists'
    BY <1>32, <1>0 DEF ReleaseSequence
<1>33. ASSUME FailRound PROVE PublicLists'
    BY <1>33, <1>0 DEF FailRound
<1>34. ASSUME Abort PROVE PublicLists'
    BY <1>34, <1>0 DEF Abort
<1>35. ASSUME NEW r \in Rounds, PublicationDue(r) PROVE PublicLists'
    BY <1>35, <1>0 DEF PublicationDue
<1> QED
    BY <1>1, <1>2, <1>3, <1>4, <1>5, <1>6, <1>7, <1>8, <1>9, <1>10, <1>11, <1>12, <1>13, <1>14, <1>15, <1>16, <1>17, <1>18, <1>19, <1>20, <1>21, <1>22, <1>23, <1>24, <1>25, <1>26, <1>27, <1>28, <1>29, <1>30, <1>31, <1>32, <1>33, <1>34, <1>35 DEF Next, RunSteps, PublicationSteps

\* A normal round is bundled only after its commit window closed.
LEMMA WithheldStep == IInv /\ Next => WithheldUntilDue'
<1> USE DEF rowVars, bundleVars, registerVars, worldVars, workerVars, boundVars, Goto, Finish,
        SetStatus, IInv, TypeOK, WorkerVL, WithheldUntilDue, ArtifactsMatchRows, BeforeConfirm, Kinds
<1> SUFFICES ASSUME IInv, Next PROVE WithheldUntilDue'
    OBVIOUS
<1>1. ASSUME CleanupStaleRounds PROVE WithheldUntilDue'
    BY <1>1 DEF CleanupStaleRounds, Abandoned
<1>2. ASSUME PublishDueRounds PROVE WithheldUntilDue'
    BY <1>2 DEF PublishDueRounds, DueRounds, IsHeld
<1>3. ASSUME TickWithNothingDue PROVE WithheldUntilDue'
    BY <1>3 DEF TickWithNothingDue, vars
<1>4. ASSUME NEW n \in Rounds, NEW k \in Kinds, CreateRound(n, k) PROVE WithheldUntilDue'
    BY <1>4 DEF CreateRound, IsNextRoundNumber, Existing
<1>5. ASSUME Collect PROVE WithheldUntilDue'
    BY <1>5 DEF Collect, StatusStep
<1>6. ASSUME FreezeInput PROVE WithheldUntilDue'
    BY <1>6 DEF FreezeInput, IsPreviousUNL
<1>7. ASSUME Score PROVE WithheldUntilDue'
    BY <1>7 DEF Score, StatusStep
<1>8. ASSUME Select PROVE WithheldUntilDue'
    BY <1>8 DEF Select, StatusStep
<1>9. ASSUME StageFails PROVE WithheldUntilDue'
    BY <1>9 DEF StageFails
<1>10. ASSUME ReserveNextSequence PROVE WithheldUntilDue'
    BY <1>10 DEF ReserveNextSequence, NextSequence
<1>11. ASSUME SignVL PROVE WithheldUntilDue'
    BY <1>11 DEF SignVL
<1>12. ASSUME SignOrStoreFails PROVE WithheldUntilDue'
    BY <1>12 DEF SignOrStoreFails
<1>13. ASSUME StorePendingPublication PROVE WithheldUntilDue'
    BY <1>13 DEF StorePendingPublication
<1>14. ASSUME HoldForCommitClose PROVE WithheldUntilDue'
    BY <1>14 DEF HoldForCommitClose
<1>15. ASSUME LoadHeldRound PROVE WithheldUntilDue'
    BY <1>15 DEF LoadHeldRound, IsHeld, ResumeAt
<1>16. ASSUME ReleaseLock PROVE WithheldUntilDue'
    BY <1>16 DEF ReleaseLock
<1>17. ASSUME KeepActivation PROVE WithheldUntilDue'
    BY <1>17 DEF KeepActivation
<1>18. ASSUME RefreshStaleActivation PROVE WithheldUntilDue'
    BY <1>18 DEF RefreshStaleActivation
<1>19. ASSUME PinBundle PROVE WithheldUntilDue'
    BY <1>19 DEF PinBundle
<1>20. ASSUME PinFails PROVE WithheldUntilDue'
    BY <1>20 DEF PinFails
<1>21. ASSUME MarkPinned PROVE WithheldUntilDue'
    BY <1>21 DEF MarkPinned, StatusStep
<1>22. ASSUME DistributeVL PROVE WithheldUntilDue'
    BY <1>22 DEF DistributeVL
<1>23. ASSUME DistributeFails PROVE WithheldUntilDue'
    BY <1>23 DEF DistributeFails
<1>24. ASSUME ConfirmPublicVL PROVE WithheldUntilDue'
    BY <1>24 DEF ConfirmPublicVL, CanConfirm
<1>25. ASSUME ConfirmFails PROVE WithheldUntilDue'
    BY <1>25 DEF ConfirmFails, CanConfirm
<1>26. ASSUME SubmitMemo PROVE WithheldUntilDue'
    BY <1>26 DEF SubmitMemo
<1>27. ASSUME MemoFails PROVE WithheldUntilDue'
    BY <1>27 DEF MemoFails
<1>28. ASSUME MarkMemo PROVE WithheldUntilDue'
    BY <1>28 DEF MarkMemo, StatusStep
<1>29. ASSUME CompleteRound PROVE WithheldUntilDue'
    BY <1>29 DEF CompleteRound, EndPublication
<1>30. ASSUME MarkMemoFailed PROVE WithheldUntilDue'
    BY <1>30 DEF MarkMemoFailed, EndPublication
<1>31. ASSUME DeletePendingPublication PROVE WithheldUntilDue'
    BY <1>31 DEF DeletePendingPublication
<1>32. ASSUME ReleaseSequence PROVE WithheldUntilDue'
    BY <1>32 DEF ReleaseSequence
<1>33. ASSUME FailRound PROVE WithheldUntilDue'
    BY <1>33 DEF FailRound
<1>34. ASSUME Abort PROVE WithheldUntilDue'
    BY <1>34 DEF Abort
<1>35. ASSUME NEW r \in Rounds, PublicationDue(r) PROVE WithheldUntilDue'
    BY <1>35 DEF PublicationDue
<1> QED
    BY <1>1, <1>2, <1>3, <1>4, <1>5, <1>6, <1>7, <1>8, <1>9, <1>10, <1>11, <1>12, <1>13, <1>14, <1>15, <1>16, <1>17, <1>18, <1>19, <1>20, <1>21, <1>22, <1>23, <1>24, <1>25, <1>26, <1>27, <1>28, <1>29, <1>30, <1>31, <1>32, <1>33, <1>34, <1>35 DEF Next, RunSteps, PublicationSteps

\* A memo is submitted only for a round that is already distributed.
LEMMA MemoStep == IInv /\ Next => MemoFollowsConfirmation'
<1> USE DEF rowVars, bundleVars, registerVars, worldVars, workerVars, boundVars, Goto, Finish,
        SetStatus, IInv, TypeOK, WorkerRow, MemoFollowsConfirmation, NoWork, BeforeHold, InPipeline, Resumable, Terminal, Published, Distributed, Absent
<1> SUFFICES ASSUME IInv, Next PROVE MemoFollowsConfirmation'
    OBVIOUS
<1>0. NoRound \notin Rounds /\ (pc \notin NoWork => rnd \in Rounds)
    BY DEF Rounds, NoRound, NoWork
<1>1. ASSUME CleanupStaleRounds PROVE MemoFollowsConfirmation'
    BY <1>1, <1>0 DEF CleanupStaleRounds, Abandoned
<1>2. ASSUME PublishDueRounds PROVE MemoFollowsConfirmation'
    BY <1>2, <1>0 DEF PublishDueRounds, DueRounds, IsHeld
<1>3. ASSUME TickWithNothingDue PROVE MemoFollowsConfirmation'
    BY <1>3, <1>0 DEF TickWithNothingDue, vars
<1>4. ASSUME NEW n \in Rounds, NEW k \in Kinds, CreateRound(n, k) PROVE MemoFollowsConfirmation'
    BY <1>4, <1>0 DEF CreateRound, IsNextRoundNumber, Existing
<1>5. ASSUME Collect PROVE MemoFollowsConfirmation'
    BY <1>5, <1>0 DEF Collect, StatusStep
<1>6. ASSUME FreezeInput PROVE MemoFollowsConfirmation'
    BY <1>6, <1>0 DEF FreezeInput, IsPreviousUNL
<1>7. ASSUME Score PROVE MemoFollowsConfirmation'
    BY <1>7, <1>0 DEF Score, StatusStep
<1>8. ASSUME Select PROVE MemoFollowsConfirmation'
    BY <1>8, <1>0 DEF Select, StatusStep
<1>9. ASSUME StageFails PROVE MemoFollowsConfirmation'
    BY <1>9, <1>0 DEF StageFails
<1>10. ASSUME ReserveNextSequence PROVE MemoFollowsConfirmation'
    BY <1>10, <1>0 DEF ReserveNextSequence, NextSequence
<1>11. ASSUME SignVL PROVE MemoFollowsConfirmation'
    BY <1>11, <1>0 DEF SignVL
<1>12. ASSUME SignOrStoreFails PROVE MemoFollowsConfirmation'
    BY <1>12, <1>0 DEF SignOrStoreFails
<1>13. ASSUME StorePendingPublication PROVE MemoFollowsConfirmation'
    BY <1>13, <1>0 DEF StorePendingPublication
<1>14. ASSUME HoldForCommitClose PROVE MemoFollowsConfirmation'
    BY <1>14, <1>0 DEF HoldForCommitClose
<1>15. ASSUME LoadHeldRound PROVE MemoFollowsConfirmation'
    BY <1>15, <1>0 DEF LoadHeldRound, IsHeld, ResumeAt
<1>16. ASSUME ReleaseLock PROVE MemoFollowsConfirmation'
    BY <1>16, <1>0 DEF ReleaseLock
<1>17. ASSUME KeepActivation PROVE MemoFollowsConfirmation'
    BY <1>17, <1>0 DEF KeepActivation
<1>18. ASSUME RefreshStaleActivation PROVE MemoFollowsConfirmation'
    BY <1>18, <1>0 DEF RefreshStaleActivation
<1>19. ASSUME PinBundle PROVE MemoFollowsConfirmation'
    BY <1>19, <1>0 DEF PinBundle
<1>20. ASSUME PinFails PROVE MemoFollowsConfirmation'
    BY <1>20, <1>0 DEF PinFails
<1>21. ASSUME MarkPinned PROVE MemoFollowsConfirmation'
    BY <1>21, <1>0 DEF MarkPinned, StatusStep
<1>22. ASSUME DistributeVL PROVE MemoFollowsConfirmation'
    BY <1>22, <1>0 DEF DistributeVL
<1>23. ASSUME DistributeFails PROVE MemoFollowsConfirmation'
    BY <1>23, <1>0 DEF DistributeFails
<1>24. ASSUME ConfirmPublicVL PROVE MemoFollowsConfirmation'
    BY <1>24, <1>0 DEF ConfirmPublicVL, CanConfirm
<1>25. ASSUME ConfirmFails PROVE MemoFollowsConfirmation'
    BY <1>25, <1>0 DEF ConfirmFails, CanConfirm
<1>26. ASSUME SubmitMemo PROVE MemoFollowsConfirmation'
    BY <1>26, <1>0 DEF SubmitMemo
<1>27. ASSUME MemoFails PROVE MemoFollowsConfirmation'
    BY <1>27, <1>0 DEF MemoFails
<1>28. ASSUME MarkMemo PROVE MemoFollowsConfirmation'
    BY <1>28, <1>0 DEF MarkMemo, StatusStep
<1>29. ASSUME CompleteRound PROVE MemoFollowsConfirmation'
    BY <1>29, <1>0 DEF CompleteRound, EndPublication
<1>30. ASSUME MarkMemoFailed PROVE MemoFollowsConfirmation'
    BY <1>30, <1>0 DEF MarkMemoFailed, EndPublication
<1>31. ASSUME DeletePendingPublication PROVE MemoFollowsConfirmation'
    BY <1>31, <1>0 DEF DeletePendingPublication
<1>32. ASSUME ReleaseSequence PROVE MemoFollowsConfirmation'
    BY <1>32, <1>0 DEF ReleaseSequence
<1>33. ASSUME FailRound PROVE MemoFollowsConfirmation'
    BY <1>33, <1>0 DEF FailRound
<1>34. ASSUME Abort PROVE MemoFollowsConfirmation'
    BY <1>34, <1>0 DEF Abort
<1>35. ASSUME NEW r \in Rounds, PublicationDue(r) PROVE MemoFollowsConfirmation'
    BY <1>35, <1>0 DEF PublicationDue
<1> QED
    BY <1>1, <1>2, <1>3, <1>4, <1>5, <1>6, <1>7, <1>8, <1>9, <1>10, <1>11, <1>12, <1>13, <1>14, <1>15, <1>16, <1>17, <1>18, <1>19, <1>20, <1>21, <1>22, <1>23, <1>24, <1>25, <1>26, <1>27, <1>28, <1>29, <1>30, <1>31, <1>32, <1>33, <1>34, <1>35 DEF Next, RunSteps, PublicationSteps

\* The UNL frozen as the baseline is the served one, up to a round that is
\* still between confirmation and its terminal status.
LEMMA BaselineStep == IInv /\ Next => BaselineIsServed'
<1> USE DEF rowVars, bundleVars, registerVars, worldVars, workerVars, boundVars, Goto, Finish,
        SetStatus, IInv, BaselineIsServed
<1> SUFFICES ASSUME IInv, Next PROVE BaselineIsServed'
    OBVIOUS
<1>1. ASSUME CleanupStaleRounds PROVE BaselineIsServed'
    BY <1>1 DEF CleanupStaleRounds, Abandoned
<1>2. ASSUME PublishDueRounds PROVE BaselineIsServed'
    BY <1>2 DEF PublishDueRounds, DueRounds, IsHeld
<1>3. ASSUME TickWithNothingDue PROVE BaselineIsServed'
    BY <1>3 DEF TickWithNothingDue, vars
<1>4. ASSUME NEW n \in Rounds, NEW k \in Kinds, CreateRound(n, k) PROVE BaselineIsServed'
    BY <1>4 DEF CreateRound, IsNextRoundNumber, Existing
<1>5. ASSUME Collect PROVE BaselineIsServed'
    BY <1>5 DEF Collect, StatusStep
<1>6. ASSUME FreezeInput PROVE BaselineIsServed'
    <2>1. PICK b \in Rounds \union {NoRound} :
             IsPreviousUNL(b) /\ baseline' = [baseline EXCEPT ![rnd] = b]
        BY <1>6 DEF FreezeInput
    <2>2. rnd \in Rounds /\ rnd' = rnd /\ status[rnd] \in InPipeline /\ served' = served
        BY <1>6 DEF FreezeInput, WorkerRow, NoWork, BeforeHold, TypeOK
    <2>3. baseline'[rnd] = b
        BY <2>1, <2>2 DEF TypeOK
    <2>4. CASE served = NoVL
        <3>1. confirmed = 0
            BY <2>4 DEF PublicLists, NoVL
        <3>2. \A q \in Rounds : status[q] \notin Published
            BY <3>1 DEF DistributedNumbers, Distributed
        <3>3. QED
            BY <2>1, <2>2, <2>3, <2>4, <3>2 DEF IsPreviousUNL, NoVL, NoRound
    <2>5. CASE served # NoVL
        <3> DEFINE s == served.round
        <3>1. /\ s \in Rounds /\ status[s] \in Distributed /\ vlSeq[s] = confirmed
              /\ s # rnd
            BY <2>2, <2>5 DEF PublicLists, TypeOK, VL, InPipeline, Distributed, Published
        <3>2. status'[s] = status[s]
            BY <1>6, <2>2, <3>1 DEF FreezeInput, TypeOK
        <3>3. \A q \in Rounds : status[q] \in Published => q <= s
            <4> SUFFICES ASSUME NEW q \in Rounds, status[q] \in Published
                         PROVE ~(s < q)
                BY <3>1, BoundsAssumption DEF Rounds
            <4>1. vlSeq[q] \in 1..confirmed /\ status[q] \in Distributed
                BY DEF DistributedNumbers, Distributed
            <4>2. s < q => vlSeq[s] < vlSeq[q]
                BY <3>1, <4>1 DEF DistributedNumbers
            <4>3. QED
                BY <3>1, <4>1, <4>2 DEF TypeOK
        <3>4. CASE status[s] \in Published
            <4>1. b \in Rounds /\ status[b] \in Published /\ s <= b
                BY <2>1, <3>1, <3>4 DEF IsPreviousUNL
            <4>2. b = s
                BY <3>1, <3>3, <4>1, BoundsAssumption DEF Rounds
            <4>3. QED
                BY <2>2, <2>3, <4>2
        <3>5. CASE status[s] \notin Published
            BY <2>2, <3>1, <3>2, <3>5
        <3>6. QED
            BY <3>4, <3>5
    <2>6. QED
        BY <2>4, <2>5
<1>7. ASSUME Score PROVE BaselineIsServed'
    BY <1>7 DEF Score, StatusStep
<1>8. ASSUME Select PROVE BaselineIsServed'
    BY <1>8 DEF Select, StatusStep
<1>9. ASSUME StageFails PROVE BaselineIsServed'
    BY <1>9 DEF StageFails
<1>10. ASSUME ReserveNextSequence PROVE BaselineIsServed'
    BY <1>10 DEF ReserveNextSequence, NextSequence
<1>11. ASSUME SignVL PROVE BaselineIsServed'
    BY <1>11 DEF SignVL
<1>12. ASSUME SignOrStoreFails PROVE BaselineIsServed'
    BY <1>12 DEF SignOrStoreFails
<1>13. ASSUME StorePendingPublication PROVE BaselineIsServed'
    BY <1>13 DEF StorePendingPublication
<1>14. ASSUME HoldForCommitClose PROVE BaselineIsServed'
    BY <1>14 DEF HoldForCommitClose
<1>15. ASSUME LoadHeldRound PROVE BaselineIsServed'
    <2>1. pc' # "score"
        BY <1>15 DEF LoadHeldRound, IsHeld, Resumable, ResumeAt
    <2>2. QED
        BY <2>1
<1>16. ASSUME ReleaseLock PROVE BaselineIsServed'
    BY <1>16 DEF ReleaseLock
<1>17. ASSUME KeepActivation PROVE BaselineIsServed'
    BY <1>17 DEF KeepActivation
<1>18. ASSUME RefreshStaleActivation PROVE BaselineIsServed'
    BY <1>18 DEF RefreshStaleActivation
<1>19. ASSUME PinBundle PROVE BaselineIsServed'
    BY <1>19 DEF PinBundle
<1>20. ASSUME PinFails PROVE BaselineIsServed'
    BY <1>20 DEF PinFails
<1>21. ASSUME MarkPinned PROVE BaselineIsServed'
    BY <1>21 DEF MarkPinned, StatusStep
<1>22. ASSUME DistributeVL PROVE BaselineIsServed'
    BY <1>22 DEF DistributeVL
<1>23. ASSUME DistributeFails PROVE BaselineIsServed'
    BY <1>23 DEF DistributeFails
<1>24. ASSUME ConfirmPublicVL PROVE BaselineIsServed'
    BY <1>24 DEF ConfirmPublicVL, CanConfirm
<1>25. ASSUME ConfirmFails PROVE BaselineIsServed'
    BY <1>25 DEF ConfirmFails, CanConfirm
<1>26. ASSUME SubmitMemo PROVE BaselineIsServed'
    BY <1>26 DEF SubmitMemo
<1>27. ASSUME MemoFails PROVE BaselineIsServed'
    BY <1>27 DEF MemoFails
<1>28. ASSUME MarkMemo PROVE BaselineIsServed'
    BY <1>28 DEF MarkMemo, StatusStep
<1>29. ASSUME CompleteRound PROVE BaselineIsServed'
    BY <1>29 DEF CompleteRound, EndPublication
<1>30. ASSUME MarkMemoFailed PROVE BaselineIsServed'
    BY <1>30 DEF MarkMemoFailed, EndPublication
<1>31. ASSUME DeletePendingPublication PROVE BaselineIsServed'
    BY <1>31 DEF DeletePendingPublication
<1>32. ASSUME ReleaseSequence PROVE BaselineIsServed'
    BY <1>32 DEF ReleaseSequence
<1>33. ASSUME FailRound PROVE BaselineIsServed'
    BY <1>33 DEF FailRound
<1>34. ASSUME Abort PROVE BaselineIsServed'
    BY <1>34 DEF Abort
<1>35. ASSUME NEW r \in Rounds, PublicationDue(r) PROVE BaselineIsServed'
    BY <1>35 DEF PublicationDue
<1> QED
    BY <1>1, <1>2, <1>3, <1>4, <1>5, <1>6, <1>7, <1>8, <1>9, <1>10, <1>11, <1>12, <1>13, <1>14, <1>15, <1>16, <1>17, <1>18, <1>19, <1>20, <1>21, <1>22, <1>23, <1>24, <1>25, <1>26, <1>27, <1>28, <1>29, <1>30, <1>31, <1>32, <1>33, <1>34, <1>35 DEF Next, RunSteps, PublicationSteps

\* Every status a handler assigns respects finality, because the worker's row is
\* where WorkerRow says.
LEMMA FinalityStep == IInv /\ Next => StatusIsFinal
<1> USE DEF rowVars, bundleVars, registerVars, worldVars, workerVars, boundVars, Goto, Finish,
        SetStatus, IInv, TypeOK, WorkerRow, StatusIsFinal, NoWork, BeforeHold, InPipeline, Resumable, Terminal, Published, Distributed, Absent
<1> SUFFICES ASSUME IInv, Next PROVE StatusIsFinal
    OBVIOUS
<1>0. NoRound \notin Rounds /\ (pc \notin NoWork => rnd \in Rounds)
    BY DEF Rounds, NoRound, NoWork
<1>1. ASSUME CleanupStaleRounds PROVE StatusIsFinal
    BY <1>1, <1>0 DEF CleanupStaleRounds, Abandoned
<1>2. ASSUME PublishDueRounds PROVE StatusIsFinal
    BY <1>2, <1>0 DEF PublishDueRounds, DueRounds, IsHeld
<1>3. ASSUME TickWithNothingDue PROVE StatusIsFinal
    BY <1>3, <1>0 DEF TickWithNothingDue, vars
<1>4. ASSUME NEW n \in Rounds, NEW k \in Kinds, CreateRound(n, k) PROVE StatusIsFinal
    BY <1>4, <1>0 DEF CreateRound, IsNextRoundNumber, Existing
<1>5. ASSUME Collect PROVE StatusIsFinal
    BY <1>5, <1>0 DEF Collect, StatusStep
<1>6. ASSUME FreezeInput PROVE StatusIsFinal
    BY <1>6, <1>0 DEF FreezeInput, IsPreviousUNL
<1>7. ASSUME Score PROVE StatusIsFinal
    BY <1>7, <1>0 DEF Score, StatusStep
<1>8. ASSUME Select PROVE StatusIsFinal
    BY <1>8, <1>0 DEF Select, StatusStep
<1>9. ASSUME StageFails PROVE StatusIsFinal
    BY <1>9, <1>0 DEF StageFails
<1>10. ASSUME ReserveNextSequence PROVE StatusIsFinal
    BY <1>10, <1>0 DEF ReserveNextSequence, NextSequence
<1>11. ASSUME SignVL PROVE StatusIsFinal
    BY <1>11, <1>0 DEF SignVL
<1>12. ASSUME SignOrStoreFails PROVE StatusIsFinal
    BY <1>12, <1>0 DEF SignOrStoreFails
<1>13. ASSUME StorePendingPublication PROVE StatusIsFinal
    BY <1>13, <1>0 DEF StorePendingPublication
<1>14. ASSUME HoldForCommitClose PROVE StatusIsFinal
    BY <1>14, <1>0 DEF HoldForCommitClose
<1>15. ASSUME LoadHeldRound PROVE StatusIsFinal
    BY <1>15, <1>0 DEF LoadHeldRound, IsHeld, ResumeAt
<1>16. ASSUME ReleaseLock PROVE StatusIsFinal
    BY <1>16, <1>0 DEF ReleaseLock
<1>17. ASSUME KeepActivation PROVE StatusIsFinal
    BY <1>17, <1>0 DEF KeepActivation
<1>18. ASSUME RefreshStaleActivation PROVE StatusIsFinal
    BY <1>18, <1>0 DEF RefreshStaleActivation
<1>19. ASSUME PinBundle PROVE StatusIsFinal
    BY <1>19, <1>0 DEF PinBundle
<1>20. ASSUME PinFails PROVE StatusIsFinal
    BY <1>20, <1>0 DEF PinFails
<1>21. ASSUME MarkPinned PROVE StatusIsFinal
    BY <1>21, <1>0 DEF MarkPinned, StatusStep
<1>22. ASSUME DistributeVL PROVE StatusIsFinal
    BY <1>22, <1>0 DEF DistributeVL
<1>23. ASSUME DistributeFails PROVE StatusIsFinal
    BY <1>23, <1>0 DEF DistributeFails
<1>24. ASSUME ConfirmPublicVL PROVE StatusIsFinal
    BY <1>24, <1>0 DEF ConfirmPublicVL, CanConfirm
<1>25. ASSUME ConfirmFails PROVE StatusIsFinal
    BY <1>25, <1>0 DEF ConfirmFails, CanConfirm
<1>26. ASSUME SubmitMemo PROVE StatusIsFinal
    BY <1>26, <1>0 DEF SubmitMemo
<1>27. ASSUME MemoFails PROVE StatusIsFinal
    BY <1>27, <1>0 DEF MemoFails
<1>28. ASSUME MarkMemo PROVE StatusIsFinal
    BY <1>28, <1>0 DEF MarkMemo, StatusStep
<1>29. ASSUME CompleteRound PROVE StatusIsFinal
    BY <1>29, <1>0 DEF CompleteRound, EndPublication
<1>30. ASSUME MarkMemoFailed PROVE StatusIsFinal
    BY <1>30, <1>0 DEF MarkMemoFailed, EndPublication
<1>31. ASSUME DeletePendingPublication PROVE StatusIsFinal
    BY <1>31, <1>0 DEF DeletePendingPublication
<1>32. ASSUME ReleaseSequence PROVE StatusIsFinal
    BY <1>32, <1>0 DEF ReleaseSequence
<1>33. ASSUME FailRound PROVE StatusIsFinal
    BY <1>33, <1>0 DEF FailRound
<1>34. ASSUME Abort PROVE StatusIsFinal
    BY <1>34, <1>0 DEF Abort
<1>35. ASSUME NEW r \in Rounds, PublicationDue(r) PROVE StatusIsFinal
    BY <1>35, <1>0 DEF PublicationDue
<1> QED
    BY <1>1, <1>2, <1>3, <1>4, <1>5, <1>6, <1>7, <1>8, <1>9, <1>10, <1>11, <1>12, <1>13, <1>14, <1>15, <1>16, <1>17, <1>18, <1>19, <1>20, <1>21, <1>22, <1>23, <1>24, <1>25, <1>26, <1>27, <1>28, <1>29, <1>30, <1>31, <1>32, <1>33, <1>34, <1>35 DEF Next, RunSteps, PublicationSteps

\* The initial database satisfies the inductive invariant.
LEMMA InitInv == Init => IInv
<1> SUFFICES ASSUME Init PROVE IInv
    OBVIOUS
<1>1. TypeOK
    BY BoundsAssumption DEF Init, TypeOK, Rounds, Status, Kinds, PCs, NoSeq
<1>2. ReservationIsNext /\ OnlyNewestInPipeline /\ WithheldUntilDue /\ MemoFollowsConfirmation /\ BaselineIsServed
    BY DEF Init, ReservationIsNext, OnlyNewestInPipeline, WithheldUntilDue, NoSeq,
           MemoFollowsConfirmation, BaselineIsServed, InPipeline, Absent
<1>3. WorkerRow /\ WorkerVL
    BY DEF Init, WorkerRow, WorkerVL, NoWork, BeforeHold, BeforeConfirm, AfterConfirm
<1>4. ArtifactsMatchRows /\ NumbersInRoundOrder
    BY DEF Init, ArtifactsMatchRows, NumbersInRoundOrder, IsHeld, Absent, Resumable, NoSeq
<1>5. DistributedNumbers /\ PublicLists
    BY DEF Init, DistributedNumbers, PublicLists, IsHeld, Absent, Resumable, NoVL, Distributed, Published
<1>6. QED
    BY <1>1, <1>2, <1>3, <1>4, <1>5 DEF IInv

\* A step that changes no variable keeps the inductive invariant.
LEMMA StutterInv == IInv /\ UNCHANGED vars => IInv'
<1> SUFFICES ASSUME IInv, UNCHANGED vars PROVE IInv'
    OBVIOUS
<1> USE DEF vars, rowVars, bundleVars, registerVars, worldVars, workerVars, boundVars
<1>1. TypeOK'
    BY DEF IInv, TypeOK
<1>2. ReservationIsNext' /\ OnlyNewestInPipeline'
    BY DEF IInv, ReservationIsNext, OnlyNewestInPipeline, Existing
<1>3. WorkerRow' /\ WorkerVL'
    BY DEF IInv, WorkerRow, WorkerVL, Newest, Existing
<1>4. ArtifactsMatchRows' /\ NumbersInRoundOrder' /\ DistributedNumbers'
    BY DEF IInv, ArtifactsMatchRows, NumbersInRoundOrder, DistributedNumbers, IsHeld
<1>5. PublicLists' /\ WithheldUntilDue' /\ MemoFollowsConfirmation' /\ BaselineIsServed'
    BY DEF IInv, PublicLists, IsHeld, WithheldUntilDue, MemoFollowsConfirmation,
           BaselineIsServed
<1>6. QED
    BY <1>1, <1>2, <1>3, <1>4, <1>5 DEF IInv

\* The inductive invariant holds in every reachable state.
THEOREM Invariance == Spec => []IInv
<1>1. IInv /\ [Next]_vars => IInv'
    <2> SUFFICES ASSUME IInv, Next PROVE IInv'
        BY StutterInv
    <2>1. TypeOK' /\ ReservationIsNext' /\ OnlyNewestInPipeline'
        BY TypeStep, ReservationStep, NewestStep
    <2>2. WorkerRow' /\ WorkerVL' /\ ArtifactsMatchRows'
        BY WorkerRowStep, WorkerVLStep, ArtifactsStep
    <2>3. NumbersInRoundOrder' /\ DistributedNumbers' /\ PublicLists'
        BY NumbersStep, DistributedStep, PublicStep
    <2>4. WithheldUntilDue' /\ MemoFollowsConfirmation' /\ BaselineIsServed'
        BY WithheldStep, MemoStep, BaselineStep
    <2>5. QED
        BY <2>1, <2>2, <2>3, <2>4 DEF IInv
<1>2. QED
    BY InitInv, <1>1, PTL DEF Spec

\* Every reachable state is well typed: rows, artifacts, register, locals.
THEOREM TypeCorrect == Spec => []TypeOK
<1>1. IInv => TypeOK
    BY DEF IInv
<1>2. QED
    BY Invariance, <1>1, PTL

\* No abort strands a held round without the artifacts it resumes from.
THEOREM HeldNeverStranded == Spec => []HeldHasArtifacts
<1>1. IInv => HeldHasArtifacts
    BY DEF IInv, ArtifactsMatchRows, HeldHasArtifacts
<1>2. QED
    BY Invariance, <1>1, PTL

\* Every list on GitHub Pages is the one in its round's final bundle.
THEOREM PublicBundled == Spec => []PublicIsBundled
<1>1. IInv => PublicIsBundled
    BY DEF IInv, PublicLists, PublicIsBundled
<1>2. QED
    BY Invariance, <1>1, PTL

\* Nothing of a normal round leaves before its commit window has closed.
THEOREM Withheld == Spec => []WithheldUntilDue
<1>1. IInv => WithheldUntilDue
    BY DEF IInv
<1>2. QED
    BY Invariance, <1>1, PTL

\* The served list carries the confirmed number and is on GitHub Pages.
THEOREM ServedConfirmed == Spec => []ServedIsConfirmedAndPublic
<1>1. IInv => ServedIsConfirmedAndPublic
    BY DEF IInv, PublicLists, ServedIsConfirmedAndPublic
<1>2. QED
    BY Invariance, <1>1, PTL

\* The distributed rounds carry exactly 1..confirmed, in round order, however
\* many rounds shared a reservation on the way.
THEOREM SequenceOrder == Spec => []SequencesInRoundOrder
<1>1. IInv => SequencesInRoundOrder
    <2> SUFFICES ASSUME IInv PROVE SequencesInRoundOrder
        OBVIOUS
    <2> DEFINE distributed == {r \in Rounds : status[r] \in Distributed}
    <2>1. {vlSeq[r] : r \in distributed} = 1..confirmed
        BY DEF IInv, DistributedNumbers
    <2>2. \A p, q \in distributed : p < q => vlSeq[p] < vlSeq[q]
        BY DEF IInv, DistributedNumbers
    <2>3. QED
        BY <2>1, <2>2 DEF SequencesInRoundOrder
<1>2. QED
    BY Invariance, <1>1, PTL

\* The reservation is absent or the successor of the confirmed number.
THEOREM ReservationNext == Spec => []ReservationIsNext
<1>1. IInv => ReservationIsNext
    BY DEF IInv
<1>2. QED
    BY Invariance, <1>1, PTL

\* No run that was cut short before its hold survives next to a later one.
THEOREM NewestInPipeline == Spec => []OnlyNewestInPipeline
<1>1. IInv => OnlyNewestInPipeline
    BY DEF IInv
<1>2. QED
    BY Invariance, <1>1, PTL

\* The previous UNL a round freezes is the served one, up to a round between
\* its confirmation and its terminal status.
THEOREM BaselineServed == Spec => []BaselineIsServed
<1>1. IInv => BaselineIsServed
    BY DEF IInv
<1>2. QED
    BY Invariance, <1>1, PTL

\* A final-bundle memo is on chain only for a round whose list is confirmed.
THEOREM MemoAfterConfirmation == Spec => []MemoFollowsConfirmation
<1>1. IInv => MemoFollowsConfirmation
    BY DEF IInv
<1>2. QED
    BY Invariance, <1>1, PTL

\* A terminal round stays as it ended; a distributed one is never written off.
THEOREM Finality == Spec => RoundFinality
<1>1. IInv /\ [Next]_vars => [StatusIsFinal]_vars
    BY FinalityStep
<1>2. QED
    BY Invariance, <1>1, PTL DEF Spec, RoundFinality

-----------------------------------------------------------------------------
(* Refinement. *)

\* A number up to the confirmed one has a distributed row to name.
LEMMA PublisherRow == IInv => HasPublishers
<1> SUFFICES ASSUME IInv, NEW n \in 1..confirmed
             PROVE  /\ PublisherOf(n) \in Rounds
                    /\ status[PublisherOf(n)] \in Distributed
                    /\ vlSeq[PublisherOf(n)] = n
    BY DEF HasPublishers
<1>1. \E r \in Rounds : status[r] \in Distributed /\ vlSeq[r] = n
    BY DEF IInv, DistributedNumbers
<1>2. QED
    BY <1>1, Zenon DEF PublisherOf

\* Two distributed rows with one number are the same row.
LEMMA OneRowPerNumber == IInv => UniquePublishers
<1> SUFFICES ASSUME IInv, NEW p \in Rounds, NEW q \in Rounds,
                    status[p] \in Distributed, status[q] \in Distributed,
                    vlSeq[p] = vlSeq[q]
             PROVE  p = q
    BY DEF UniquePublishers
<1>1. ~(p < q) /\ ~(q < p)
    BY DEF IInv, DistributedNumbers, TypeOK
<1>2. QED
    BY <1>1, BoundsAssumption DEF Rounds

\* The same two facts about the state after a step.
LEMMA PublishersNext == IInv' => HasPublishers' /\ UniquePublishers'
BY PublisherRow, OneRowPerNumber, PTL

\* A step that keeps the distributed rows keeps the history.
LEMMA KeptHistory ==
    ASSUME IInv, IInv', HistoryKept
    PROVE  UNCHANGED History!historyVars
<1>1. \A n \in 1..confirmed : PublisherOf(n)' = PublisherOf(n)
    <2> SUFFICES ASSUME NEW n \in 1..confirmed PROVE PublisherOf(n)' = PublisherOf(n)
        OBVIOUS
    <2>1. n \in 1..confirmed'
        BY DEF HistoryKept
    <2>2. /\ PublisherOf(n) \in Rounds /\ status[PublisherOf(n)] \in Distributed
          /\ vlSeq[PublisherOf(n)] = n
        BY PublisherRow DEF HasPublishers
    <2>3. /\ PublisherOf(n)' \in Rounds /\ status'[PublisherOf(n)'] \in Distributed
          /\ vlSeq'[PublisherOf(n)'] = n
        BY <2>1, PublishersNext DEF HasPublishers
    <2>4. status'[PublisherOf(n)] \in Distributed /\ vlSeq'[PublisherOf(n)] = n
        BY <2>2 DEF HistoryKept
    <2>5. QED
        BY <2>2, <2>3, <2>4, PublishersNext DEF UniquePublishers
<1>2. QED
    BY <1>1 DEF HistoryKept, History!historyVars

\* A confirmation publishes the next number of the history.
LEMMA ConfirmPublishes ==
    ASSUME IInv, IInv', ConfirmPublicVL
    PROVE  History!HistoryNext
<1>1. /\ rnd \in Rounds /\ rnd' = rnd /\ status[rnd] = "IPFS_PUBLISHED"
      /\ seq = confirmed + 1 /\ confirmed' = confirmed + 1 /\ confirmed \in Nat
      /\ vl.round = rnd /\ vl.seq = seq /\ served' = vl
    BY DEF IInv, TypeOK, WorkerRow, WorkerVL, NoWork, BeforeConfirm, ReservationIsNext,
           ConfirmPublicVL, CanConfirm, Goto, NoSeq, NoRound, Rounds
<1>2. /\ status'[rnd] = "VL_DISTRIBUTED" /\ vlSeq'[rnd] = confirmed + 1
      /\ \A r \in Rounds : r # rnd => status'[r] = status[r] /\ vlSeq'[r] = vlSeq[r]
    BY <1>1 DEF IInv, TypeOK, ConfirmPublicVL, SetStatus
<1>3. \A n \in 1..confirmed : PublisherOf(n)' = PublisherOf(n) /\ PublisherOf(n) < rnd
    <2> SUFFICES ASSUME NEW n \in 1..confirmed
                 PROVE  PublisherOf(n)' = PublisherOf(n) /\ PublisherOf(n) < rnd
        OBVIOUS
    <2> DEFINE p == PublisherOf(n)
    <2>1. n \in 1..confirmed' /\ n < confirmed + 1
        BY <1>1
    <2>2. p \in Rounds /\ status[p] \in Distributed /\ vlSeq[p] = n
        BY PublisherRow DEF HasPublishers
    <2>3. p # rnd
        BY <1>1, <2>2 DEF Distributed, Published
    <2>4. status'[p] \in Distributed /\ vlSeq'[p] = n
        BY <1>2, <2>2, <2>3
    <2>5. /\ PublisherOf(n)' \in Rounds /\ status'[PublisherOf(n)'] \in Distributed
          /\ vlSeq'[PublisherOf(n)'] = n
        BY <2>1, PublishersNext DEF HasPublishers
    <2>6. PublisherOf(n)' = p
        BY <2>2, <2>4, <2>5, PublishersNext DEF UniquePublishers
    <2>7. ~(rnd < p)
        BY <1>1, <1>2, <2>1, <2>2, <2>4 DEF IInv, DistributedNumbers, Distributed
    <2>8. p < rnd
        BY <1>1, <2>2, <2>3, <2>7, BoundsAssumption DEF Rounds
    <2>9. QED
        BY <2>6, <2>8
<1>4. \A n \in 1..confirmed' : n = confirmed + 1 => PublisherOf(n)' = rnd
    <2> SUFFICES ASSUME NEW n \in 1..confirmed', n = confirmed + 1
                 PROVE  PublisherOf(n)' = rnd
        OBVIOUS
    <2>1. /\ PublisherOf(n)' \in Rounds /\ status'[PublisherOf(n)'] \in Distributed
          /\ vlSeq'[PublisherOf(n)'] = n
        BY PublishersNext DEF HasPublishers
    <2>2. status'[rnd] \in Distributed /\ vlSeq'[rnd] = n
        BY <1>2 DEF Distributed
    <2>3. QED
        BY <1>1, <2>1, <2>2, PublishersNext DEF UniquePublishers
<1>5. History!Publish(rnd)
    <2> DEFINE before == [n \in 1..confirmed |-> PublisherOf(n)]
               after == [n \in 1..confirmed' |-> PublisherOf(n)']
    <2>1. \A n \in 1..confirmed : before[n] < rnd
        BY <1>3
    <2>2. after = [n \in 1..(confirmed + 1) |->
                      IF n = confirmed + 1 THEN rnd ELSE before[n]]
        <3>1. \A n \in 1..(confirmed + 1) :
                 PublisherOf(n)' = IF n = confirmed + 1 THEN rnd ELSE before[n]
            BY <1>1, <1>3, <1>4
        <3>2. QED
            BY <1>1, <3>1
    <2>3. [round |-> served'.round, seq |-> served'.seq] = [round |-> rnd, seq |-> confirmed + 1]
        BY <1>1
    <2>4. QED
        BY <1>1, <2>1, <2>2, <2>3 DEF History!Publish
<1>6. QED
    BY <1>1, <1>5 DEF History!HistoryNext

\* The confirmed part of the register implements the append-only history: a
\* confirmation is a publication, and every other step is a stutter.
THEOREM Refinement == Spec => ImplementsHistory
<1>1. Init => History!HistoryInit
    <2> SUFFICES ASSUME Init PROVE History!HistoryInit
        OBVIOUS
    <2>1. confirmed = 0 /\ served = NoVL
        BY DEF Init
    <2>2. [n \in 1..confirmed |-> PublisherOf(n)] = [n \in 1..0 |-> 0]
        BY <2>1
    <2>3. QED
        BY <2>1, <2>2 DEF NoVL, History!HistoryInit
<1>2. IInv /\ IInv' /\ [Next]_vars => [History!HistoryNext]_(History!historyVars)
    <2> SUFFICES ASSUME IInv, IInv', [Next]_vars
                 PROVE  History!HistoryNext \/ UNCHANGED History!historyVars
        OBVIOUS
    <2>1. CASE ConfirmPublicVL
        BY <2>1, ConfirmPublishes
    <2>2. CASE Next /\ ~ConfirmPublicVL
        BY <2>2, KeptStep, KeptHistory
    <2>3. CASE UNCHANGED vars
        <3>1. HistoryKept
            BY <2>3 DEF HistoryKept, vars, registerVars, rowVars
        <3>2. QED
            BY <3>1, KeptHistory
    <2>4. QED
        BY <2>1, <2>2, <2>3
<1>3. QED
    BY Invariance, <1>1, <1>2, PTL DEF Spec, ImplementsHistory, History!HistorySpec

=============================================================================
