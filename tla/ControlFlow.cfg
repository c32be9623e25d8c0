SPECIFICATION MCSpec
CONSTANTS
    Programs <- MCPrograms
    MaxChoices = 3
    MaxEvents = 8
    MaxRounds = 12
INVARIANTS
    CompileTimeAsRunTime
    RewritingKeepsMeaning
    BlockExitSound
    GuardsRunOnce
    ConstructsOnce
CHECK_DEADLOCK FALSE
