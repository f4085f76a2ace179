\* One listener, one connection, one request, Constrain may fail (-u given).
\* The process may stop after exiting or a fatal error, so deadlock is not
\* an error here; a stop that never exits is.
CONSTANTS
    Keys = {k1}
    Handlers = {h1}
    Verbose = TRUE
    ConstrainMayFail = TRUE
SPECIFICATION DaemonSpec
CHECK_DEADLOCK FALSE
PROPERTY StopLeadsToExit
