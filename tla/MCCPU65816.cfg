CONSTANTS
    ByteBits = 8
    DigitBits = 4
    Types = {"WDC", "Rockwell", "L28"}
    Space = 16
    sp_page = 256
    Start = 510
    Programs <- MCPrograms
    Disciplined <- MCDisciplined
    Depth = 12
    Modes = {"absl", "absx", "abxi", "dpag", "dpgy", "dpgx", "diix", "sriy", "alng"}
    Operands = {10, 255}
    Masks <- MCMasks
    Traps = 16
    NewTrap = 10
    Vector <- MCVector
    StartSP = 2047
SPECIFICATION SSpec
INVARIANTS EmulationStackInPage PointerFollowsItems
PROPERTIES UpperHalvesKept ReturnsWhereItCame PullsWhatWasPushed
CHECK_DEADLOCK FALSE
