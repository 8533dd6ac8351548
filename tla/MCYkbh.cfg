\* The interpreter on the ykbh unit-test bodies and the other programs.
CONSTANTS
    None = None
    UnknownCallee = UnknownCallee
    Programs <- MCPrograms
    ByteVals = {0, 1, 2}
    MaxAllocs = 3

SPECIFICATION Spec

INVARIANTS
    TypeOK
    FrameMemoryOwned
    NoUndefinedBehaviour

PROPERTIES
    Terminates
    ImplementsSirEval

\* interpret returns: "done" and the faults are final states.
CHECK_DEADLOCK FALSE
