\* Two goroutines resolving at once over two name servers, with the status
\* reporter able to report, with or without a reset, between any two steps.
CONSTANTS
    NumServers = 2
    Clients = {c1, c2}
    Attempts = 2
    Timeout = 4
    RTTs = {0, 3}
    Rcodes <- MCRcodes
SPECIFICATION Spec
CHECK_DEADLOCK FALSE
INVARIANTS
    TypeOK
    StatsConserved
PROPERTIES
    BestServerRefined
