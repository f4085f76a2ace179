\* Two servers, both of which may fail, two concurrent goroutines.
CONSTANTS
    NumServers = 2
    Clients = {c1, c2}
    ReassessAfter = 2
    ReassessCount = 3
    ResetFailedAfter = 1
    SampleOthersEvery = 2
    WeightForLatest = 67
    Latencies = {1, 2}
    CanFail = {0, 1}
    MaxClock = 3

SPECIFICATION Spec


PROPERTY FailureDemotes
