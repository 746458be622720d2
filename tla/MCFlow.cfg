CONSTANTS
    Parts = {"flow", "regs", "cosynth", "order"}
    Map = Map
    None = None
    Auto = Auto
    Var = Var
    Absolute = {}
    MaxStages = 2
    Jobs <- MCJobs
SPECIFICATION PartsSpec
INVARIANTS
    KnobsHold
    BuiltAsWritten
    LoopsFound
    FirstValue
    ContractsHold
    SameBlock
    SameResults
    SameFunction
CHECK_DEADLOCK FALSE
