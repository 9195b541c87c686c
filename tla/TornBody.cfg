CONSTANTS
    Block = {1, 2, 3}
    None = None
    Body <- MCBody
    block_round <- MCRound
    block_cache_size = 2
    MaxCrashes = 1
SPECIFICATION Spec
INVARIANT HeaderHasBody
CHECK_DEADLOCK FALSE
