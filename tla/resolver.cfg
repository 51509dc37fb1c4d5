SPECIFICATION FairSpec
CONSTANTS
    s1 = s1  s2 = s2  a1 = a1  a2 = a2  n1 = n1  n2 = n2  t1 = t1  t2 = t2
    p1 = p1
    Loop = Loop
    SyncRequests = {s1}
    AsyncRequests = {a1}
    ResolvWorkers = {n1, n2}
    PoolWorkers = {t1, t2}
    PipeJobs = {p1}
INVARIANTS TypeOK NobodySleepsOnWork OneFinalAnswer
PROPERTIES PoolsAreFifos EveryRequestIsAnswered
CHECK_DEADLOCK FALSE
