SPECIFICATION FairSpec
CONSTANTS
    m1 = m1  m2 = m2  m3 = m3  c1 = c1  c2 = c2  c3 = c3
    Msgs = {m1, m2}
    AsyncMsgs = {m2}
    Recvs = {c1, c3}
    BulkRecvs = {c3}
    Sizes = {0, 2, 3}
    MaxSize = 2
    SendBuf = 4
    OneReceiver = TRUE
INVARIANTS TypeOK WholeMessagesInOrder SuccessIsABarrier
PROPERTIES SendsReturn ReceivesReturn
CHECK_DEADLOCK FALSE
