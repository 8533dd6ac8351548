\* A reference kept in the second field of a tuple, then dereferenced.
CONSTANTS
    None = None
    UnknownCallee = UnknownCallee
    Programs <- MCRefFieldPrograms
    ByteVals = {0, 1}
    MaxAllocs = 3

SPECIFICATION Spec

PROPERTIES
    RefFieldImplementsSirEval

\* interpret returns: "done" and the faults are final states.
CHECK_DEADLOCK FALSE
