CONSTANTS
    Exports <- MCExports
    Included <- MCIncluded
    Programs <- MCPrograms
    Codes <- MCCodes
    MaxPasses = 8
SPECIFICATION Spec
CHECK_DEADLOCK FALSE
INVARIANT EmissionsDecode
PROPERTIES LabelsSettle Terminates
