\* The ring with critical sections that mask the interrupt.
CONSTANTS
    Messages = {m1, m2, bad}
    Corrupt = bad
    Empty = empty
    Torn = torn
    Size = 2
    LostMax = 1
    RadioFifo = 2
    Atomic = TRUE
SPECIFICATION FairSpec
INVARIANTS TypeOK NoFrameForgotten SlotsApart
PROPERTIES ImplementsFifo Drains
