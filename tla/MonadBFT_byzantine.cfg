CONSTANTS
    h1 = h1
    h2 = h2
    h3 = h3
    f1 = f1
    None = None
    Twins = {}
    Validators <- ThreeValidators
    Faulty = {f1}
    Quorum <- Fives
    MaxRound = 3
    Block <- MCBlock
    Genesis <- MCGenesis
    block_round <- MCBlockRound
    qc_round <- MCQcRound
    parent <- MCParent
    ancestors <- MCAncestors
    leader <- FaultyLeader
    Crashing = {h2}
    MaxCached = 0
    MaxCrashes = 1
    MaxTimerRound = 2
SPECIFICATION Spec
INVARIANT OneQcPerRound
INVARIANT QcNotBeforeBlock
INVARIANT FreshQcCovered
CHECK_DEADLOCK FALSE
