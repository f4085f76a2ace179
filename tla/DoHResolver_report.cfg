CONSTANTS
    QueryId = 7
    ClientUDPSize = 1232
    Ttls = {0, 1, 3}
    Ages <- MCAges
    TtlBits = 16
SPECIFICATION Spec
CHECK_DEADLOCK FALSE
PROPERTIES
    SuccessOnlyForUsableAnswer
