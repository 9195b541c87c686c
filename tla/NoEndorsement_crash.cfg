CONSTANTS
    h1 = h1
    h2 = h2
    f1 = f1
    Validators <- ThreeValidators
    Faulty = {f1}
    Quorum <- Fives
    MaxRound = 3
    TipQcRound = {0, 1}
    NoTip = NoTip
    Leads = {2, 3}
    FUTURE_VOTE_BOUND = 2
    StaleForkpoint = TRUE
SPECIFICATION Spec
INVARIANT NoPanic
