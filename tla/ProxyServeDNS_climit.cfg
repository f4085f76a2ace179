CONSTANTS
    QueryId = 7
    ClientUDPSize = 1232
    Ttls = {3}
    Ages <- MCAges
    TtlBits = 16
    PayloadSizes = {400, 1000, 1500}
SPECIFICATION ProxySpec
CHECK_DEADLOCK FALSE
INVARIANTS
    TruncatesAtClientLimit
