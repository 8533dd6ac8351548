\* An inlined callee writing a field of its return slot writes that field of the destination.
CONSTANTS
    None = None
    Programs <- ProgramsRetField
    StartSym = "start"
    StopSym = "stop"
    DiscrVals = {0, 1, 2}
    MaxTraceLen = 16
    MaxActs = 8

SPECIFICATION Spec

INVARIANT RenamedPlacesDenote

\* The lowering returns; a run cut at MaxTraceLen stops too.
CHECK_DEADLOCK FALSE
