\* The stop_tracing call site shaped as spec.md documents it.
CONSTANTS
    None = None
    Programs <- ProgramsSpecStop
    StartSym = "start"
    StopSym = "stop"
    DiscrVals = {0, 1, 2}
    MaxTraceLen = 16
    MaxActs = 8

SPECIFICATION Spec

INVARIANT SpecShapedTraceTrimmed

\* The lowering returns; a run cut at MaxTraceLen stops too.
CHECK_DEADLOCK FALSE
