SPECIFICATION Spec
CONSTANTS
    NoThread = NoThread  Loop = Loop
    r1 = r1  r2 = r2  r3 = r3  w1 = w1  w2 = w2  w3 = w3
    t1 = t1  t2 = t2
    ReadTasks = {r1}
    WriteTasks = {w1}
    AsyncTasks = {w1}
    BadTasks = {r1}
    Workers = {t1, t2}
    BackoffGarbage = {0}
    CanClose = TRUE
    CanShut = TRUE
    CanReset = TRUE
    MaxData = 1
    SendBuf = 1
    MaxFaults = 1
    MaxDefer = 1
SYMMETRY Symmetry
INVARIANTS TypeOK NoLostWakeup EventOutlivesReports
CHECK_DEADLOCK FALSE
