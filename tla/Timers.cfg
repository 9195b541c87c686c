CONSTANTS
    h1 = h1
    h2 = h2
    f1 = f1
    None = None
    Validators <- ThreeValidators
    Faulty = {f1}
    Quorum <- Fives
    HonestSet <- ThreesOfSeven
    MaxRound = 3
    Certifiable = {1}
SPECIFICATION PartSpec
INVARIANT NoPanic
INVARIANT QuorumUsed
INVARIANT TimerFirst
PROPERTY EveryRoundEnds
PROPERTY RetriesEnd
CHECK_DEADLOCK FALSE
