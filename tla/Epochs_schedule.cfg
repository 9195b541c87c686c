CONSTANTS
    block_round <- MCRound
    epoch_length = 3
    epoch_start_delay = 2
    execution_delay = 1
    staking_activation = 3
    MaxCrashes = 2
SPECIFICATION Spec
INVARIANT NextEpochScheduled
CHECK_DEADLOCK FALSE
