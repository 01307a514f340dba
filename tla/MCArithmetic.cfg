CONSTANTS
    ByteBits = 8
    DigitBits = 4
    maxFPFixups = 64
    Programs <- MCPrograms
    Variables <- MCVariables
    Loose <- MCLoose
    Tasks <- MCTasks
    Budget <- MCBudget
SPECIFICATION Spec
INVARIANTS SumsAreSigned SignedResults DecimalSums BytesChain ResultsAreRight DisassemblyInStep
CHECK_DEADLOCK FALSE
