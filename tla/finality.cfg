SPECIFICATION Spec
CONSTANTS
    Voters = {v1, v2, v3}
    InitialValidators = {v1, v2, v3}
    Gadgets = {"PBFT", "Casper FFG", "LMD-GHOST"}
    JustificationThreshold = 50
    FinalityThreshold = 67
    MaxEpoch = 3
    MaxCheckpoints = 4
    MaxChanges = 1
    MaxAwaiting = 2
SYMMETRY VoterSymmetry
INVARIANTS TypeOK NothingLeftToFinalize
PROPERTIES FinalizedNeverDrops FinalizedByItsVotes
