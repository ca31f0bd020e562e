SPECIFICATION FairSpec
CONSTANTS
    EsParrots = {p1, p2, p3}
    WsParrots = {q1}
    Attempts = 10
    MaxFrames = 3
    MaxEvents = 2
CHECK_DEADLOCK FALSE
INVARIANTS
    TypeOK
    ConnectedOncePerFrame
PROPERTIES
    ListenersConnect
    LoadersEnd
