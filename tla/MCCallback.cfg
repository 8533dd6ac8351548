\* A SIR callback of a native call is renamed in a scope of its own.
CONSTANTS
    None = None
    Programs <- ProgramsCallback
    StartSym = "start"
    StopSym = "stop"
    DiscrVals = {0, 1, 2}
    MaxTraceLen = 16
    MaxActs = 8

SPECIFICATION Spec

INVARIANT RenamedPlacesDenote

\* The lowering returns; a run cut at MaxTraceLen stops too.
CHECK_DEADLOCK FALSE
