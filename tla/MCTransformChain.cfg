SPECIFICATION ChainSpec
CONSTANTS
    Shifts <- MCShifts
    Factors <- MCFactors
    MaxSteps = 2
INVARIANT StepsCompose
