SPECIFICATION Spec
CONSTANTS
    Funcs <- MCFuncs
    Params <- MCParams
    Locals <- MCLocals
    Dollars <- MCDollars
    Start = "g"
    RepeatedArgs = FALSE
    MaxFrames = 5
    MaxValues = 4
INVARIANTS
    ReadsAgree
    AssertionsHold
PROPERTIES
    FramesRestored
CHECK_DEADLOCK FALSE
