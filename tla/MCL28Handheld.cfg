SPECIFICATION Spec
CONSTANTS
    Sessions <- MCSessions
    Addresses <- MCAddresses
    Rom <- MCRom
    KEY_BUF_SIZE = 3
    Elapsed = {0, 1, 2, 4}
    RamCols = 2
    Height = 3
    Width = 2
    ColOffset = 1
INVARIANTS InputArrives ScreenIsFresh TimerKeepsPace
PROPERTY FlashNeedsUnlock
CHECK_DEADLOCK FALSE
