\* Two servers and two concurrent goroutines.  Server 0 may fail, server 1
\* never does, so sampling has a healthy server to keep offering.  No
\* symmetry: the liveness property is checked with the fair specification.
CONSTANTS
    NumServers = 2
    Clients = {c1, c2}
    ReassessAfter = 2
    ReassessCount = 3
    ResetFailedAfter = 1
    SampleOthersEvery = 2
    WeightForLatest = 67
    Latencies = {1, 2}
    CanFail = {0}
    MaxClock = 3

SPECIFICATION FairSpec
INVARIANT TypeOK
INVARIANT ScanPicksFastest
PROPERTY FailureOfBestDemotes
PROPERTY SampleOffered
