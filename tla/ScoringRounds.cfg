SPECIFICATION FairSpec
CONSTANTS
    MaxRounds = 3
    MaxResigns = 1
    MaxAborts = 2
    LostAcks = {"pages", "memo"}
INVARIANTS
    TypeOK
    HeldHasArtifacts
    PublicIsBundled
    ServedIsConfirmedAndPublic
    SequencesInRoundOrder
    ReservationIsNext
PROPERTIES
    RoundFinality
    ImplementsHistory
    HeldRoundsFinish
