CONSTANTS
    h1 = h1
    h2 = h2
    h3 = h3
    f1 = f1
    None = None
    Twins = {2}
    Validators <- ThreeValidators
    Faulty = {f1}
    Quorum <- Weighted
    MaxRound = 3
    Block <- MCBlock
    Genesis <- MCGenesis
    block_round <- MCBlockRound
    qc_round <- MCQcRound
    parent <- MCParent
    ancestors <- MCAncestors
    leader <- MixedLeaders
    Crashing = {h1}
    MaxCached = 1
    MaxCrashes = 2
    MaxTimerRound = 2
SPECIFICATION Spec
INVARIANT TypeOK
INVARIANT StableVoteOnce
INVARIANT ProposeOnce
INVARIANT NecQcCompatible
INVARIANT TimeoutAssertions
PROPERTY NeverBack
CHECK_DEADLOCK FALSE
