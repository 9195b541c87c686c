CONSTANTS
    Peer = {"p", "q"}
    None = None
    num_prefixes = 2
    Chunks = 2
    max_parallel_requests = 2
    Targets = 2
    MaxSends = 2
SPECIFICATION Spec
INVARIANT PeerKnown
CHECK_DEADLOCK FALSE
