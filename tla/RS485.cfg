CONSTANTS
    NodeId = 1
    Broadcast = 255
    Frames <- Traffic
    MaxLen = 5
    RxSize = 2
    Noise = {2, 6}
    MaxSpoilt = 1
    Tries = 2
SPECIFICATION FairSpec
INVARIANTS TypeOK UntornIsGenuine
PROPERTIES WholeFrameAnnounced SendReturns HearsAgain
