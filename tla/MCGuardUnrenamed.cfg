\* A guard inside an inlined callee checks the place the branch read.
CONSTANTS
    None = None
    Programs <- ProgramsMain
    StartSym = "start"
    StopSym = "stop"
    DiscrVals = {0, 1, 2}
    MaxTraceLen = 16
    MaxActs = 8

SPECIFICATION Spec

INVARIANT GuardsDenote

\* The lowering returns; a run cut at MaxTraceLen stops too.
CHECK_DEADLOCK FALSE
