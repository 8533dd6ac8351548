\* A switch with two values for one target block: the guard holds on the recorded run.
CONSTANTS
    None = None
    Programs <- ProgramsSharedTarget
    StartSym = "start"
    StopSym = "stop"
    DiscrVals = {0, 1, 2}
    MaxTraceLen = 16
    MaxActs = 8

SPECIFICATION Spec

INVARIANT GuardsHoldOnRecordedRun

\* The lowering returns; a run cut at MaxTraceLen stops too.
CHECK_DEADLOCK FALSE
