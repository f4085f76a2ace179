\* One listener, two connections, two requests, a verbose server given -u
\* so that Constrain may fail.  The process really stops: after exiting,
\* and after a fatal error.
CONSTANTS
    Keys = {k1, k2}
    Handlers = {h1, h2}
    Verbose = TRUE
    ConstrainMayFail = TRUE
SPECIFICATION DaemonSpec
SYMMETRY DaemonSymmetry
CHECK_DEADLOCK FALSE
INVARIANTS
    DaemonTypeOK
    CurrentCountsHandlers
    SessionsMatchHandlers
    TrackedIffOpen
PROPERTY ReportCoversPeriod
