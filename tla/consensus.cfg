SPECIFICATION ConsensusSpec
CONSTANTS
    Addresses = {a1, a2}
    Stakes = {340, 380}
    MinimumStake = 350
    Penalties = {1}
    MaximumPenalties = 0
    InactivityWindow = 5
    TellsHeight = TRUE
    MaxEvents = 1
    MaxTracked = 1
    Algorithms = {"LMD-GHOST", "GHOST", "LongestChain"}
    Scores = {1, 2}
    MaxCompeting = 3
    TotalValidators = 3
    MaxCommits = 2
    MaxVoteEpoch = 4
    PosAddresses = {p1, p2, p3}
    MaxStake = 3
    minStake = 1
    maxValidators = 2
    staking_threshold = 2
    difficulty_adjustment_blocks = 2
    MaxForged = 1
    MaxDifficulty = 3
    MaxRaised = 12
    MaxMinedChain = 4
    ForkThresholds = {1, 2}
    Weights = {1, 3}
    MaxForkBlocks = 5
SYMMETRY AddressSymmetry
INVARIANTS OneSetEach ChoosesHeaviest AnswersHaveQuorum
    BlocksAsChosen LocalChainWhole
PROPERTIES SlashedActiveHasStake
CHECK_DEADLOCK FALSE
