\* Two nodes that send two messages between them, with a retry each; one of
\* them may restart.
CONSTANTS
    Nodes = {a, b}
    Broadcast = all
    None = none
    Retries = 1
    MaxCalls = 2
    Resetting = {b}
SPECIFICATION FairSpec
INVARIANT TypeOK
PROPERTIES PacketKept ConfirmedIsReceived CallsReturn Listens
