SPECIFICATION Spec
CONSTANTS
    e1 = e1
    e2 = e2
    e3 = e3
    e4 = e4
    w1 = w1
    w2 = w2
    s1 = s1
    EventSources = {e1, e2}
    WebSockets = {}
    Senders = {s1}
    Endpoints <- AllEndpoints
    ApiIds = {api1, api2}
    ChannelNames = {c1, c2}
    MaxMessages = 1
    Nil = Nil
SYMMETRY Interchangeable
INVARIANTS
    Isolation
    StructureOK
CHECK_DEADLOCK FALSE
