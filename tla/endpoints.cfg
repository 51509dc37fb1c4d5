SPECIFICATION FairSpec
CONSTANTS
    user = user  loop = loop  none = none  w1 = w1  w2 = w2
    User = user
    Loop = loop
    NoThread = none
    Workers = {w1, w2}
    MaxPeers = 1
    MaxStarts = 2
    MaxFiles = 1
    MaxFaults = 1
INVARIANTS TypeOK ListenerListens EventsDieOnce AnsweredOnce
PROPERTIES EveryoneIsAccepted ConnectsEnd
CHECK_DEADLOCK FALSE
