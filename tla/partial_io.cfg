SPECIFICATION Spec
CONSTANTS
    m1 = m1  m2 = m2  m3 = m3  c1 = c1  c2 = c2  c3 = c3
    Msgs = {m1, m2}
    AsyncMsgs = {m2}
    Recvs = {c1, c2}
    BulkRecvs = {}
    Sizes = {2}
    MaxSize = 2
    SendBuf = 4
    OneReceiver = TRUE
INVARIANTS MessagesArriveWhole
CHECK_DEADLOCK FALSE
