\* Three firmwares offered in any order, replies delayed and repeated, power failures.
CONSTANTS
    Firmwares = {1, 2, 3}
    MaxBlocks = 3
    Blocks <- BlocksOf
    Factory = 1
    None = none
    Broken = broken
    Retry = 1
SPECIFICATION FairSpec
INVARIANTS TypeOK RunsWholeFirmware BlocksInOrder
PROPERTIES ImplementsInstaller GivesUpLate UpdateEnds
