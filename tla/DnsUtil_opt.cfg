CONSTANTS
    Ttls = {0, 1, 2, 5}
    OptFlags <- MCOptFlags
    Codes = {"ecs", "pad", "cookie"}
    MaxRRs = 2
    MaxOpts = 2
    Ages = {0, 1, 3}
    TtlBits = 16
    MsgLens = {100, 128, 200, 256}
    Modulo = 128
    Chars = {"a", "b", "A", "."}
    MaxDomainLen = 2
    MaxDomains = 2
    MaxNameLen = 4
SPECIFICATION MCSpec
INVARIANTS
    OptFlagsUntouched
