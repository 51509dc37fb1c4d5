SPECIFICATION FairSpec
CONSTANTS
    u1 = u1  u2 = u2  a = a  b = b  c = c
    Loop = Loop
    Users = {u1}
    Timeouts = {a, b}
    Callbacks = {c}
    Delays = {1, 2}
    Intervals = {0, 1}
    MaxClock = 3
INVARIANTS TypeOK RequestsWakeTheLoop ReportsStayTrue TimerfdInTimeUnlessLate
PROPERTIES CallbacksRun TimeoutsFire StopsAtNextWake
CHECK_DEADLOCK FALSE
