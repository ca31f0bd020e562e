SPECIFICATION FairSpec
CONSTANTS
    Sockets = {w1, w2}
    Throwing = {w2}
    Senders = {w1}
    MaxMessages = 1
INVARIANTS
    TypeOK
    CreatedOnce
    InOrder
PROPERTIES
    EachIsCreated
    EndIsFinal
CHECK_DEADLOCK FALSE
