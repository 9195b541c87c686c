CONSTANTS
    h1 = h1
    h2 = h2
    h3 = h3
    h4 = h4
    None = None
    Validators <- FourValidators
    Faulty = {}
    Quorum <- Threes
    MaxRound = 6
    Block <- LostQcBlocks
    Genesis <- G
    block_round <- LostQcBlockRound
    qc_round <- LostQcQcRound
    parent <- LostQcParent
    ancestors <- LostQcAncestors
    leader <- Turns
    Crashing = {h4}
    MaxCached = 0
    MaxCrashes = 1
    MaxTimerRound = 6
    Schedule <- LostQcSchedule
    Free = FALSE
SPECIFICATION ScheduleSpec
INVARIANT HighTipContainsHighQc
CHECK_DEADLOCK FALSE
