CONSTANTS
    Validators <- ThreeValidators
    Faulty = {f1}
    Quorum <- Fives
    Id = {id1, id2}
    FUTURE_VOTE_BOUND = 1
    MaxRound = 2
    h1 = h1
    h2 = h2
    f1 = f1
    id1 = id1
    id2 = id2
    None = None
    NoTip = NoTip
    Unused = Unused
    collection <- Collection
    pacing <- Paced
    Nodes <- FourNodes
    MaxStake = 4
    syncs <- Syncs
    DiskBlock <- DiskBlocks
    Body <- DiskBody
    block_round <- DiskRound
    block_cache_size = 2
    MaxCrashes = 1
    chain <- Chain
    behind <- Behind
    sockets <- Sockets
    window <- SmallWindow
    rivals <- TwoRivals
    company <- GoodCompany
    courted <- OneCourted
    crammed <- CrammedPools
    roomy <- RoomyPools
    TreeBlock <- TreeBlocks
    Genesis = 1
    tree_round <- TreeRound
    qc_round <- TreeQcRound
    parent <- TreeParent
    ancestors <- TreeAncestors
    seq_num <- TreeSeqNum
    Worlds <- TreeWorlds
    led = {2}
    lagging <- TreeLagging
    live_to_statesync_threshold = 3
SPECIFICATION PartSpec
SYMMETRY Sym
INVARIANT OneQcBuilt
INVARIANT NothingLost
INVARIANT NoPanic
INVARIANT NecMatchesTc
INVARIANT NecKept
INVARIANT VotesNoPanic
INVARIANT SentInOrder
INVARIANT ThresholdsSound
INVARIANT SyncNoPanic
INVARIANT SlotsExact
INVARIANT RequestAlive
INVARIANT DiskOrdered
INVARIANT EpochsRight
INVARIANT NothingForgotten
INVARIANT SessionsIndexed
INVARIANT TimersCover
INVARIANT FilterExact
INVARIANT GroupsAgree
INVARIANT PromisesBounded
INVARIANT PoolsConsistent
INVARIANT ReassemblyExact
INVARIANT TreeNoPanic
INVARIANT GapRequested
INVARIANT RequestsAlive
PROPERTY FinalizesOneChain
CHECK_DEADLOCK FALSE
