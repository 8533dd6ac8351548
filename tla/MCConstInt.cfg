\* Every value of every integer type, lowered to a ConstantInt and loaded.
CONSTANTS
    None = None
    Width <- MCWidth

SPECIFICATION Spec

INVARIANTS
    TypeOK
    FromBitsRoundTrip
    RegisterHoldsConstant

\* A constant ends loaded into a register or in the 128-bit panic.
CHECK_DEADLOCK FALSE
