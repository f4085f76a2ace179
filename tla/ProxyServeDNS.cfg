\* One query through DoHResolver.Resolve and ServeDNS's truncation policy.
CONSTANTS
    QueryId = 7
    ClientUDPSize = 1232
    Ttls = {3}
    Ages <- MCAges
    TtlBits = 16
    PayloadSizes = {1000, 1500}
SPECIFICATION ProxySpec
CHECK_DEADLOCK FALSE
INVARIANTS
    ProxyTypeOK
    IdRoundTrip
    EcsSingleSource
    TsigUntouched
    NoForeignEcs
