SPECIFICATION Spec
CONSTANTS
    w1 = w1
    w2 = w2
    t1 = t1
    t2 = t2
    t3 = t3
    r1 = r1
    Workers = {w1, w2}
    Timers = {t1, t2, t3}
    Requests = {r1}
    WorkerOf <- MCWorkerOf
    NumEntries = 2
    FirstPollDelay = 1
    PollPeriod = 3
    Expiration = 2
    HardLimit = 24
    AnswerTime = 1
    RequestTimeout = 1
    LockTimeout = 3
    LockTTL = 4
    None = None
    MaxFaults = 2
SYMMETRY Symmetry
INVARIANTS
    DataAgeKnown
    EntriesAreRefreshed
    EarlyRequestServed
