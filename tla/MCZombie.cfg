SPECIFICATION Spec
CONSTANTS
    e1 = e1
    e2 = e2
    e3 = e3
    e4 = e4
    w1 = w1
    w2 = w2
    s1 = s1
    EventSources = {e1}
    WebSockets = {}
    Senders = {}
    Endpoints <- AllEndpoints
    ApiIds = {api}
    ChannelNames = {c1}
    MaxMessages = 0
    Nil = Nil
SYMMETRY Interchangeable
INVARIANTS
    ClosedIsUnsubscribed
CHECK_DEADLOCK FALSE
