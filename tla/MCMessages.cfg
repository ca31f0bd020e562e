SPECIFICATION FairSpec
CONSTANTS
    e1 = e1
    e2 = e2
    e3 = e3
    e4 = e4
    w1 = w1
    w2 = w2
    s1 = s1
    EventSources = {e1}
    WebSockets = {w1}
    Senders = {s1}
    Endpoints <- AllEndpoints
    ApiIds = {api}
    ChannelNames = {c1}
    MaxMessages = 2
    Nil = Nil
PROPERTIES
    ImplementsPubSub
    AcceptedIsServed
    EmptyChannelReclaimed
CHECK_DEADLOCK FALSE
