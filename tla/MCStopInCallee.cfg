\* stop_tracing called in a callee of the function that started tracing.
CONSTANTS
    None = None
    Programs <- ProgramsStopInCallee
    StartSym = "start"
    StopSym = "stop"
    DiscrVals = {0, 1, 2}
    MaxTraceLen = 16
    MaxActs = 8

SPECIFICATION Spec

INVARIANT DeliveredTraceBalanced

\* The lowering returns; a run cut at MaxTraceLen stops too.
CHECK_DEADLOCK FALSE
