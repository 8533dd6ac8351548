\* The ykbh programs; func_fail calls `fail() -> !`, whose only local is its `!` return slot.
CONSTANTS
    None = None
    UnknownCallee = UnknownCallee
    Programs <- MCPrograms
    ByteVals = {0, 1, 2}
    MaxAllocs = 3

SPECIFICATION Spec

INVARIANT FramesNonEmpty

\* interpret returns: "done" and the faults are final states.
CHECK_DEADLOCK FALSE
