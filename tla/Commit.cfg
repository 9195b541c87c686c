CONSTANTS
    h1 = h1
    h2 = h2
    h3 = h3
    f1 = f1
    None = None
    Validators <- FourValidators
    Faulty = {f1}
    Quorum <- Threes
    MaxRound = 5
    Block <- CommitBlocks
    Genesis <- G
    block_round <- CommitBlockRound
    qc_round <- CommitQcRound
    parent <- CommitParent
    ancestors <- CommitAncestors
    leader <- FaultyLeader
    Crashing = {}
    MaxCached = 0
    MaxCrashes = 0
    MaxTimerRound = 3
    Schedule <- CommitSchedule
    Free = TRUE
SPECIFICATION ScheduleSpec
INVARIANT Agreement
CHECK_DEADLOCK FALSE
