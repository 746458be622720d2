CONSTANTS
    Parts = {"flow"}
    Map = Map
    None = None
    Auto = Auto
    Var = Var
    Absolute = {}
    MaxStages = 2
    Jobs <- MCJobs
SPECIFICATION PartsSpec
INVARIANT BindingsHeld
CHECK_DEADLOCK FALSE
