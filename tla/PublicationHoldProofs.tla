-------------------------- MODULE PublicationHoldProofs --------------------------
(***************************************************************************)
(* PublicationHold for every window, delay, skew and number of crashes.    *)
(* IInv says where each deadline comes from at every step of the two       *)
(* handlers, and that nothing is published without a deadline that has     *)
(* passed.                                                                 *)
(***************************************************************************)
EXTENDS PublicationHold, TLAPS

RoundPCs == {"freeze", "anchor", "announce", "stages", "store", "hold"}

PublishPCs == {"refresh", "pin", "files", "mark", "distribute", "confirm"}

Times == Int \union {None}

LocType ==
  [frozen : Times, anchor : Times, announced : BOOLEAN, attempt : Nat, list : Times,
   bundle : Bundles \union {None}, checked : Times]

ITypes ==
  /\ ledger \in Nat /\ clock \in Int
  /\ memo \in Times /\ ingested \in Times /\ closesAt \in Times /\ dueAt \in Times
  /\ pending \in Times /\ pages \in Times
  /\ lostAnswer \in BOOLEAN /\ crashes \in Nat
  /\ pinned \subseteq Bundles
  /\ recorded \in Bundles \union {None} /\ files \in Bundles \union {None}
  /\ loc \in LocType
  /\ pc \in RoundPCs \union PublishPCs \union {"idle", "down"}

\* What the window's two ends are computed from.
ISources ==
  /\ pc \in RoundPCs \ {"freeze"} => loc.frozen \in Int
  /\ pc \in {"announce", "stages", "store", "hold"} => loc.anchor \in Int
  /\ pc \in {"freeze", "anchor", "announce"} => memo = None /\ ~loc.announced /\ ~lostAnswer
  /\ pc \in {"stages", "store", "hold"} /\ ~lostAnswer =>
       memo = IF loc.announced THEN Later(loc.frozen, loc.anchor) + CommitWindow ELSE None
  /\ pc \in {"store", "hold"} => loc.list \in Int
  /\ pc = "hold" => pending = loc.list

\* The deadlines of the row.
IDeadlines ==
  /\ clock <= ledger + Skew
  /\ closesAt = None <=> dueAt = None
  /\ dueAt # None => /\ dueAt = closesAt + Delay
                     /\ pending \in Int
                     /\ ~lostAnswer => memo \in {None, closesAt}
                     /\ pc \notin RoundPCs
                     /\ status \in {"AWAITING_COMMIT_CLOSE", "IPFS_PUBLISHED",
                                    "VL_DISTRIBUTED", "FAILED"}
  /\ pc \in PublishPCs \/ pinned # {} \/ files # None \/ pages # None =>
       dueAt # None /\ dueAt <= clock

\* Where the round stands.
IStatus ==
  /\ pc \in RoundPCs => status = CASE pc = "freeze" -> "COLLECTING"
                                   [] pc \in {"anchor", "announce", "stages"} -> "INPUT_FROZEN"
                                   [] OTHER -> "VL_SIGNED"
  /\ pc \in {"refresh", "pin", "files", "mark"} => status = "AWAITING_COMMIT_CLOSE"
  /\ pc \in {"distribute", "confirm"} => status = "IPFS_PUBLISHED"
  /\ status \in {"COLLECTING", "INPUT_FROZEN", "VL_SIGNED", "AWAITING_COMMIT_CLOSE",
                 "IPFS_PUBLISHED", "VL_DISTRIBUTED", "FAILED"}
  /\ status = "AWAITING_COMMIT_CLOSE" => dueAt # None
  /\ status \in {"IPFS_PUBLISHED", "VL_DISTRIBUTED"} <=> recorded # None /\ status # "FAILED"

\* One list and one bundle, in locals, in the rows and in public.
IBundles ==
  /\ pc \in PublishPCs => loc.list = pending
  /\ pc \in {"files", "mark"} => loc.bundle \in pinned /\ loc.bundle.list = loc.list
  /\ pc = "mark" => files = loc.bundle
  /\ status = "AWAITING_COMMIT_CLOSE" => pages = None
  /\ status \in {"IPFS_PUBLISHED", "VL_DISTRIBUTED"} =>
       /\ recorded \in pinned
       /\ files = recorded
       /\ pending = recorded.list
       /\ pages \in {None, recorded.list}
  /\ pages # None => status \in {"IPFS_PUBLISHED", "VL_DISTRIBUTED", "FAILED"}

\* A checked activation lies MinFuture after its check.
IChecked ==
  /\ pc \in RoundPCs => loc.checked = None
  /\ loc.checked # None => loc.list \in Int /\ loc.list >= loc.checked + MinFuture

IInv == ITypes /\ ISources /\ IDeadlines /\ IStatus /\ IBundles /\ IChecked

USE DEF clockVars, chainVars, rowVars, outputVars

-----------------------------------------------------------------------------
(* One lemma per part of the invariant.                                    *)

LEMMA ConstantTypes ==
  /\ CommitWindow \in Nat /\ Delay \in Nat /\ Lookahead \in Nat /\ MinFuture \in Nat
  /\ Skew \in Nat /\ Skew <= Delay /\ MinFuture <= Lookahead
  /\ None \notin Int /\ None \notin Bundles
BY HoldAssumption DEF HoldAssumption

LEMMA KeepsTypes ==
  ASSUME IInv, Next PROVE ITypes'
<1> USE ConstantTypes DEF IInv, ITypes, ISources, IDeadlines, IStatus
<1> USE DEF Later, CommitClosesAt, PublicationDueAt, NewBundle, NextAttempt, Fail, NoLocals, Times, LocType, Bundles, RoundPCs, PublishPCs, Goto
<1>1. CASE LedgerCloses
  BY <1>1 DEF LedgerCloses
<1>2. CASE ClockAdvances
  BY <1>2 DEF ClockAdvances
<1>3. CASE FreezeInput
  BY <1>3 DEF FreezeInput
<1>4. CASE RecordInput
  BY <1>4 DEF RecordInput
<1>5. CASE ReadAnchor
  BY <1>5 DEF ReadAnchor
<1>6. CASE Announce
  BY <1>6 DEF Announce, AnnouncedClose
<1>7. CASE Sign
  BY <1>7 DEF Sign
<1>8. CASE StorePending
  BY <1>8 DEF StorePending
<1>9. CASE Hold
  BY <1>9 DEF Hold
<1>10. CASE StageFails
  BY <1>10 DEF StageFails
<1>11. CASE PublishHeld
  <2>1. pending \in Int /\ recorded \in Bundles \union {None} /\ 1 + crashes \in Nat
    BY <1>11 DEF PublishHeld
  <2>2. loc' = [NoLocals EXCEPT !.list = pending, !.bundle = recorded, !.attempt = 1 + crashes]
    BY <1>11 DEF PublishHeld
  <2>3. loc' \in LocType
    BY <2>1, <2>2
  <2>4. pc' \in {"refresh", "distribute"}
    BY <1>11 DEF PublishHeld
  <2> QED BY <1>11, <2>3, <2>4 DEF PublishHeld
<1>12. CASE KeepActivation
  BY <1>12 DEF KeepActivation
<1>13. CASE RefreshActivation
  <2>1. clock + Lookahead \in Int
    OBVIOUS
  <2>2. loc' = [loc EXCEPT !.list = clock + Lookahead, !.checked = clock]
    BY <1>13 DEF RefreshActivation
  <2>3. loc' \in LocType
    BY <2>1, <2>2
  <2> QED BY <1>13, <2>1, <2>3 DEF RefreshActivation
<1>14. CASE RefreshFails
  BY <1>14 DEF RefreshFails
<1>15. CASE RefreshNotStored
  BY <1>15 DEF RefreshNotStored
<1>16. CASE PinBundle
  <2>1. [attempt |-> loc.attempt, list |-> loc.list] \in Bundles
    BY <1>16 DEF PinBundle, IBundles
  <2> QED BY <1>16, <2>1 DEF PinBundle
<1>17. CASE PinFails
  <2>1. [attempt |-> loc.attempt, list |-> loc.list] \in Bundles
    BY <1>17 DEF PinFails, IBundles
  <2> QED BY <1>17, <2>1 DEF PinFails
<1>18. CASE StoreFiles
  BY <1>18 DEF StoreFiles
<1>19. CASE MarkPinned
  BY <1>19 DEF MarkPinned
<1>20. CASE Distribute
  BY <1>20 DEF Distribute
<1>21. CASE DistributeFails
  BY <1>21 DEF DistributeFails
<1>22. CASE ConfirmPublic
  BY <1>22 DEF ConfirmPublic
<1>23. CASE PublicationFails
  BY <1>23 DEF PublicationFails
<1>24. CASE Ingest
  BY <1>24 DEF Ingest
<1>25. CASE Crash
  BY <1>25 DEF Crash
<1>26. CASE Restart
  BY <1>26 DEF Restart
<1> QED BY <1>1, <1>2, <1>3, <1>4, <1>5, <1>6, <1>7, <1>8, <1>9, <1>10, <1>11, <1>12, <1>13, <1>14, <1>15, <1>16, <1>17, <1>18, <1>19, <1>20, <1>21, <1>22, <1>23, <1>24, <1>25, <1>26 DEF Next, RoundSteps, PublicationSteps

LEMMA KeepsSources ==
  ASSUME IInv, Next PROVE ISources'
<1> USE ConstantTypes DEF IInv, ITypes, ISources, IDeadlines, IStatus
<1> USE DEF Later, CommitClosesAt, PublicationDueAt, Fail, NoLocals, Times, LocType, RoundPCs, PublishPCs, Goto
<1>1. CASE LedgerCloses
  BY <1>1 DEF LedgerCloses
<1>2. CASE ClockAdvances
  BY <1>2 DEF ClockAdvances
<1>3. CASE FreezeInput
  BY <1>3 DEF FreezeInput
<1>4. CASE RecordInput
  BY <1>4 DEF RecordInput
<1>5. CASE ReadAnchor
  BY <1>5 DEF ReadAnchor
<1>6. CASE Announce
  BY <1>6 DEF Announce, AnnouncedClose
<1>7. CASE Sign
  BY <1>7 DEF Sign
<1>8. CASE StorePending
  BY <1>8 DEF StorePending
<1>9. CASE Hold
  BY <1>9 DEF Hold
<1>10. CASE StageFails
  BY <1>10 DEF StageFails
<1>11. CASE PublishHeld
  BY <1>11 DEF PublishHeld
<1>12. CASE KeepActivation
  BY <1>12 DEF KeepActivation
<1>13. CASE RefreshActivation
  BY <1>13 DEF RefreshActivation
<1>14. CASE RefreshFails
  BY <1>14 DEF RefreshFails
<1>15. CASE RefreshNotStored
  BY <1>15 DEF RefreshNotStored
<1>16. CASE PinBundle
  BY <1>16 DEF PinBundle
<1>17. CASE PinFails
  BY <1>17 DEF PinFails
<1>18. CASE StoreFiles
  BY <1>18 DEF StoreFiles
<1>19. CASE MarkPinned
  BY <1>19 DEF MarkPinned
<1>20. CASE Distribute
  BY <1>20 DEF Distribute
<1>21. CASE DistributeFails
  BY <1>21 DEF DistributeFails
<1>22. CASE ConfirmPublic
  BY <1>22 DEF ConfirmPublic
<1>23. CASE PublicationFails
  BY <1>23 DEF PublicationFails
<1>24. CASE Ingest
  BY <1>24 DEF Ingest
<1>25. CASE Crash
  BY <1>25 DEF Crash
<1>26. CASE Restart
  BY <1>26 DEF Restart
<1> QED BY <1>1, <1>2, <1>3, <1>4, <1>5, <1>6, <1>7, <1>8, <1>9, <1>10, <1>11, <1>12, <1>13, <1>14, <1>15, <1>16, <1>17, <1>18, <1>19, <1>20, <1>21, <1>22, <1>23, <1>24, <1>25, <1>26 DEF Next, RoundSteps, PublicationSteps

LEMMA KeepsDeadlines ==
  ASSUME IInv, Next PROVE IDeadlines'
<1> USE ConstantTypes DEF IInv, ITypes, ISources, IDeadlines, IStatus
<1> USE DEF Later, CommitClosesAt, PublicationDueAt, Due, Fail, NoLocals, Times, LocType, RoundPCs, PublishPCs, Goto
<1>1. CASE LedgerCloses
  BY <1>1 DEF LedgerCloses
<1>2. CASE ClockAdvances
  BY <1>2 DEF ClockAdvances
<1>3. CASE FreezeInput
  BY <1>3 DEF FreezeInput
<1>4. CASE RecordInput
  BY <1>4 DEF RecordInput
<1>5. CASE ReadAnchor
  BY <1>5 DEF ReadAnchor
<1>6. CASE Announce
  BY <1>6 DEF Announce, AnnouncedClose
<1>7. CASE Sign
  BY <1>7 DEF Sign
<1>8. CASE StorePending
  BY <1>8 DEF StorePending
<1>9. CASE Hold
  BY <1>9 DEF Hold
<1>10. CASE StageFails
  BY <1>10 DEF StageFails
<1>11. CASE PublishHeld
  BY <1>11 DEF PublishHeld
<1>12. CASE KeepActivation
  BY <1>12 DEF KeepActivation
<1>13. CASE RefreshActivation
  BY <1>13 DEF RefreshActivation
<1>14. CASE RefreshFails
  BY <1>14 DEF RefreshFails
<1>15. CASE RefreshNotStored
  BY <1>15 DEF RefreshNotStored
<1>16. CASE PinBundle
  BY <1>16 DEF PinBundle
<1>17. CASE PinFails
  BY <1>17 DEF PinFails
<1>18. CASE StoreFiles
  BY <1>18 DEF StoreFiles
<1>19. CASE MarkPinned
  BY <1>19 DEF MarkPinned
<1>20. CASE Distribute
  BY <1>20 DEF Distribute
<1>21. CASE DistributeFails
  BY <1>21 DEF DistributeFails
<1>22. CASE ConfirmPublic
  BY <1>22 DEF ConfirmPublic
<1>23. CASE PublicationFails
  BY <1>23 DEF PublicationFails
<1>24. CASE Ingest
  BY <1>24 DEF Ingest
<1>25. CASE Crash
  BY <1>25 DEF Crash
<1>26. CASE Restart
  BY <1>26 DEF Restart
<1> QED BY <1>1, <1>2, <1>3, <1>4, <1>5, <1>6, <1>7, <1>8, <1>9, <1>10, <1>11, <1>12, <1>13, <1>14, <1>15, <1>16, <1>17, <1>18, <1>19, <1>20, <1>21, <1>22, <1>23, <1>24, <1>25, <1>26 DEF Next, RoundSteps, PublicationSteps

LEMMA KeepsStatus ==
  ASSUME IInv, Next PROVE IStatus'
<1> USE ConstantTypes DEF IInv, ITypes, ISources, IDeadlines, IStatus, IBundles
<1> USE DEF Abandoned, Fail, NoLocals, LocType, RoundPCs, PublishPCs, Goto
<1>1. CASE LedgerCloses
  BY <1>1 DEF LedgerCloses
<1>2. CASE ClockAdvances
  BY <1>2 DEF ClockAdvances
<1>3. CASE FreezeInput
  BY <1>3 DEF FreezeInput
<1>4. CASE RecordInput
  BY <1>4 DEF RecordInput
<1>5. CASE ReadAnchor
  BY <1>5 DEF ReadAnchor
<1>6. CASE Announce
  BY <1>6 DEF Announce, AnnouncedClose
<1>7. CASE Sign
  BY <1>7 DEF Sign
<1>8. CASE StorePending
  BY <1>8 DEF StorePending
<1>9. CASE Hold
  <2>1. closesAt' \in Int /\ dueAt' \in Int
    BY <1>9 DEF Hold, CommitClosesAt, PublicationDueAt, Later
  <2> QED BY <1>9, <2>1 DEF Hold
<1>10. CASE StageFails
  BY <1>10 DEF StageFails
<1>11. CASE PublishHeld
  BY <1>11 DEF PublishHeld
<1>12. CASE KeepActivation
  BY <1>12 DEF KeepActivation
<1>13. CASE RefreshActivation
  BY <1>13 DEF RefreshActivation
<1>14. CASE RefreshFails
  BY <1>14 DEF RefreshFails
<1>15. CASE RefreshNotStored
  BY <1>15 DEF RefreshNotStored
<1>16. CASE PinBundle
  BY <1>16 DEF PinBundle
<1>17. CASE PinFails
  BY <1>17 DEF PinFails
<1>18. CASE StoreFiles
  BY <1>18 DEF StoreFiles
<1>19. CASE MarkPinned
  BY <1>19 DEF MarkPinned
<1>20. CASE Distribute
  BY <1>20 DEF Distribute
<1>21. CASE DistributeFails
  BY <1>21 DEF DistributeFails
<1>22. CASE ConfirmPublic
  BY <1>22 DEF ConfirmPublic
<1>23. CASE PublicationFails
  BY <1>23 DEF PublicationFails
<1>24. CASE Ingest
  BY <1>24 DEF Ingest
<1>25. CASE Crash
  BY <1>25 DEF Crash
<1>26. CASE Restart
  BY <1>26 DEF Restart
<1> QED BY <1>1, <1>2, <1>3, <1>4, <1>5, <1>6, <1>7, <1>8, <1>9, <1>10, <1>11, <1>12, <1>13, <1>14, <1>15, <1>16, <1>17, <1>18, <1>19, <1>20, <1>21, <1>22, <1>23, <1>24, <1>25, <1>26 DEF Next, RoundSteps, PublicationSteps

LEMMA KeepsBundles ==
  ASSUME IInv, Next PROVE IBundles'
<1> USE ConstantTypes DEF IInv, ITypes, ISources, IDeadlines, IStatus, IBundles
<1> USE DEF NewBundle, Fail, NoLocals, LocType, Bundles, RoundPCs, PublishPCs, Goto, Abandoned
<1>1. CASE LedgerCloses
  BY <1>1 DEF LedgerCloses
<1>2. CASE ClockAdvances
  BY <1>2 DEF ClockAdvances
<1>3. CASE FreezeInput
  BY <1>3 DEF FreezeInput
<1>4. CASE RecordInput
  BY <1>4 DEF RecordInput
<1>5. CASE ReadAnchor
  BY <1>5 DEF ReadAnchor
<1>6. CASE Announce
  BY <1>6 DEF Announce, AnnouncedClose
<1>7. CASE Sign
  BY <1>7 DEF Sign
<1>8. CASE StorePending
  BY <1>8 DEF StorePending
<1>9. CASE Hold
  BY <1>9 DEF Hold
<1>10. CASE StageFails
  BY <1>10 DEF StageFails
<1>11. CASE PublishHeld
  BY <1>11 DEF PublishHeld
<1>12. CASE KeepActivation
  BY <1>12 DEF KeepActivation
<1>13. CASE RefreshActivation
  BY <1>13 DEF RefreshActivation
<1>14. CASE RefreshFails
  BY <1>14 DEF RefreshFails
<1>15. CASE RefreshNotStored
  BY <1>15 DEF RefreshNotStored
<1>16. CASE PinBundle
  BY <1>16 DEF PinBundle
<1>17. CASE PinFails
  BY <1>17 DEF PinFails
<1>18. CASE StoreFiles
  BY <1>18 DEF StoreFiles
<1>19. CASE MarkPinned
  BY <1>19 DEF MarkPinned
<1>20. CASE Distribute
  BY <1>20 DEF Distribute
<1>21. CASE DistributeFails
  BY <1>21 DEF DistributeFails
<1>22. CASE ConfirmPublic
  BY <1>22 DEF ConfirmPublic
<1>23. CASE PublicationFails
  BY <1>23 DEF PublicationFails
<1>24. CASE Ingest
  BY <1>24 DEF Ingest
<1>25. CASE Crash
  BY <1>25 DEF Crash
<1>26. CASE Restart
  BY <1>26 DEF Restart
<1> QED BY <1>1, <1>2, <1>3, <1>4, <1>5, <1>6, <1>7, <1>8, <1>9, <1>10, <1>11, <1>12, <1>13, <1>14, <1>15, <1>16, <1>17, <1>18, <1>19, <1>20, <1>21, <1>22, <1>23, <1>24, <1>25, <1>26 DEF Next, RoundSteps, PublicationSteps

LEMMA KeepsChecked ==
  ASSUME IInv, Next PROVE IChecked'
<1> USE ConstantTypes DEF IInv, ITypes, ISources, IDeadlines, IStatus, IBundles, IChecked
<1> USE DEF Later, CommitClosesAt, PublicationDueAt, Stale, Fail, NoLocals, Times, LocType, RoundPCs, PublishPCs, Goto
<1>1. CASE LedgerCloses
  BY <1>1 DEF LedgerCloses
<1>2. CASE ClockAdvances
  BY <1>2 DEF ClockAdvances
<1>3. CASE FreezeInput
  BY <1>3 DEF FreezeInput
<1>4. CASE RecordInput
  BY <1>4 DEF RecordInput
<1>5. CASE ReadAnchor
  BY <1>5 DEF ReadAnchor
<1>6. CASE Announce
  BY <1>6 DEF Announce, AnnouncedClose
<1>7. CASE Sign
  BY <1>7 DEF Sign
<1>8. CASE StorePending
  BY <1>8 DEF StorePending
<1>9. CASE Hold
  BY <1>9 DEF Hold
<1>10. CASE StageFails
  BY <1>10 DEF StageFails
<1>11. CASE PublishHeld
  BY <1>11 DEF PublishHeld
<1>12. CASE KeepActivation
  BY <1>12 DEF KeepActivation
<1>13. CASE RefreshActivation
  BY <1>13 DEF RefreshActivation
<1>14. CASE RefreshFails
  BY <1>14 DEF RefreshFails
<1>15. CASE RefreshNotStored
  BY <1>15 DEF RefreshNotStored
<1>16. CASE PinBundle
  BY <1>16 DEF PinBundle
<1>17. CASE PinFails
  BY <1>17 DEF PinFails
<1>18. CASE StoreFiles
  BY <1>18 DEF StoreFiles
<1>19. CASE MarkPinned
  BY <1>19 DEF MarkPinned
<1>20. CASE Distribute
  BY <1>20 DEF Distribute
<1>21. CASE DistributeFails
  BY <1>21 DEF DistributeFails
<1>22. CASE ConfirmPublic
  BY <1>22 DEF ConfirmPublic
<1>23. CASE PublicationFails
  BY <1>23 DEF PublicationFails
<1>24. CASE Ingest
  BY <1>24 DEF Ingest
<1>25. CASE Crash
  BY <1>25 DEF Crash
<1>26. CASE Restart
  BY <1>26 DEF Restart
<1> QED BY <1>1, <1>2, <1>3, <1>4, <1>5, <1>6, <1>7, <1>8, <1>9, <1>10, <1>11, <1>12, <1>13, <1>14, <1>15, <1>16, <1>17, <1>18, <1>19, <1>20, <1>21, <1>22, <1>23, <1>24, <1>25, <1>26 DEF Next, RoundSteps, PublicationSteps

\* The invariant holds at the start and after every step.
LEMMA InitInvariant == Init => IInv
<1> SUFFICES ASSUME Init PROVE IInv
  OBVIOUS
<1> USE ConstantTypes DEF Init, NoLocals, RoundPCs, PublishPCs
<1>1. loc \in LocType
  BY DEF LocType, Times
<1>2. ITypes
  <2>1. pinned \subseteq Bundles /\ recorded = None /\ files = None
    OBVIOUS
  <2>2. ledger \in Nat /\ clock \in Int /\ crashes \in Nat /\ pc \in RoundPCs
    OBVIOUS
  <2>3. /\ memo \in Times /\ ingested \in Times /\ closesAt \in Times /\ dueAt \in Times
        /\ pending \in Times /\ pages \in Times
    BY DEF Times
  <2>4. lostAnswer \in BOOLEAN
    BY Zenon
  <2> QED BY <1>1, <2>1, <2>2, <2>3, <2>4 DEF ITypes
<1>3. ISources /\ IStatus /\ IBundles
  BY DEF ISources, IStatus, IBundles
<1>4. IDeadlines
  BY DEF IDeadlines
<1>5. IChecked
  BY DEF IChecked
<1> QED BY <1>2, <1>3, <1>4, <1>5 DEF IInv

LEMMA StepInvariant == IInv /\ [Next]_vars => IInv'
<1>1. CASE Next
  <2> SUFFICES ASSUME IInv, Next PROVE IInv'
    BY <1>1
  <2> QED BY KeepsTypes, KeepsSources, KeepsDeadlines, KeepsStatus, KeepsBundles, KeepsChecked
          DEF IInv
<1>2. CASE UNCHANGED vars
  BY <1>2 DEF vars, IInv, ITypes, ISources, IDeadlines, IStatus, IBundles, IChecked
<1> QED BY <1>1, <1>2

-----------------------------------------------------------------------------
(* What follows from it.                                                   *)

\* The handlers always stand at one of the points above.
THEOREM Invariance == Spec => []IInv
BY InitInvariant, StepInvariant, PTL DEF Spec

\* Rows, locals and clocks keep their types, and the status says which of the
\* round's columns are filled.
THEOREM TypeCorrect == Spec => []TypeOK
<1>1. IInv => TypeOK
  BY ConstantTypes DEF IInv, ITypes, IDeadlines, IStatus, TypeOK, LocType, Times, RoundPCs,
     PublishPCs
<1> QED BY <1>1, Invariance, PTL

\* For every window, skew and delay that covers it, no output is public before
\* the ledger has passed the announced close, unless the announcement's answer
\* was lost.
THEOREM HeldUntilLedgerCloses == Spec => []HeldUntilClose
<1>1. ASSUME IInv PROVE HeldUntilClose
  <2> SUFFICES ASSUME ~lostAnswer, memo # None, SomeOutputPublic PROVE ledger >= memo
    BY DEF HeldUntilClose, OutputsWithheld
  <2>1. pinned # {} \/ files # None \/ pages # None
    BY DEF SomeOutputPublic, Served
  <2>2. dueAt # None /\ dueAt <= clock /\ dueAt = closesAt + Delay /\ memo = closesAt
    BY <1>1, <2>1 DEF IInv, IDeadlines
  <2>3. memo \in Int /\ clock <= ledger + Skew /\ ledger \in Int /\ clock \in Int
    BY <1>1 DEF IInv, ITypes, IDeadlines, Times
  <2> QED BY <2>2, <2>3, ConstantTypes
<1> QED BY <1>1, Invariance, PTL

\* However often publication is interrupted, the recorded bundle is pinned, is
\* the one HTTPS serves, and carries the list on Pages.
THEOREM OneBundle == Spec => []RecordedBundleIsServed
<1>1. IInv => RecordedBundleIsServed
  BY DEF IInv, IBundles, RecordedBundleIsServed, Served
<1> QED BY <1>1, Invariance, PTL

\* A list distributed within MinFuture of its check is still to activate.
THEOREM UnisonActivation == Spec => ActivatesInUnison
<1>1. ASSUME IInv, [Next]_vars, pages' # pages, loc.checked # None,
             clock < loc.checked + MinFuture
      PROVE  pages' > clock
  <2>1. pages' = loc.list
    BY <1>1 DEF vars, Next, RoundSteps, PublicationSteps, LedgerCloses, ClockAdvances, FreezeInput,
       RecordInput, ReadAnchor, Announce, Sign, StorePending, Hold, StageFails, PublishHeld,
       KeepActivation, RefreshActivation, RefreshFails, RefreshNotStored, PinBundle, PinFails,
       StoreFiles, MarkPinned, Distribute, DistributeFails, ConfirmPublic, PublicationFails,
       Ingest, Crash, Restart
  <2>2. loc.list \in Int /\ loc.list >= loc.checked + MinFuture
    BY <1>1 DEF IInv, IChecked
  <2>3. loc.checked \in Int /\ clock \in Int
    BY <1>1 DEF IInv, ITypes, LocType, Times
  <2> QED BY <1>1, <2>1, <2>2, <2>3, ConstantTypes
<1>2. IInv /\ [Next]_vars =>
        [pages' # pages /\ loc.checked # None /\ clock < loc.checked + MinFuture
           => pages' > clock]_vars
  BY <1>1 DEF vars
<1> QED BY <1>2, Invariance, PTL DEF Spec, ActivatesInUnison
=============================================================================
