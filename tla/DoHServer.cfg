CONSTANTS
    TtlBits = 16
SPECIFICATION Spec
CHECK_DEADLOCK FALSE
INVARIANTS
    TypeOK
    ZeroLengthsNoEcs
    PadIffSignalled
    
