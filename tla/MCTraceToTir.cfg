\* The lowering of every recorded run of the tested program and of the
\* variants that make TirTrace::new fail.
CONSTANTS
    None = None
    Programs <- ProgramsLowering
    StartSym = "start"
    StopSym = "stop"
    DiscrVals = {0, 1, 2}
    MaxTraceLen = 16
    MaxActs = 8

SPECIFICATION FairSpec

INVARIANTS
    TypeOK
    RenamedPlacesDenote
    GuardsHoldOnRecordedRun
    TraceLocalsDeclared
    TrimmedOnlyBookkeeping

PROPERTY
    LoweringEndsBalanced

\* The lowering returns; a run cut at MaxTraceLen stops too.
CHECK_DEADLOCK FALSE
