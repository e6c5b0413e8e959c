SPECIFICATION Spec
CONSTANTS
    MaxRounds = 2
    MaxResigns = 0
    MaxAborts = 0
    LostAcks = {}
PROPERTIES
    PublishedSequenceIncreases
