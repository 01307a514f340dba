CONSTANTS
    File <- MCFile
    CommandLines <- MCCommandLines
    BankSize = 64
    VarBase = 4
    MaxEntries = 4
    MaxImports = 3
    MaxExports = 3
    Wild = {0, 7}
    HeapLimit = 24
    Requests = {0, 1, 3, 6}
    MaxBlocks = 3
SPECIFICATION Spec
INVARIANTS AreasApart ReferencesBind ImportsComeFirst
CHECK_DEADLOCK FALSE
