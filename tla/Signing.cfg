CONSTANTS
    gw = gw
    n1 = n1
    n2 = n2
    Nodes = {gw, n1, n2}
    Gateway = gw
    Requires <- Required
    Talks <- Pairs
    NoNonce = none
    MaxCalls = 3
    MaxNonces = 3
    MaxFaults = 1
    MaxDepth = 2
SPECIFICATION FairSpec
INVARIANTS TypeOK
PROPERTIES ImplementsOneTimeNonce UndisturbedIsGiven SignReturns CalmIsAccepted
CHECK_DEADLOCK FALSE
