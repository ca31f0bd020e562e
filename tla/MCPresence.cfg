SPECIFICATION SharedSpec
CONSTANTS
    Connections = {k1, k2, k3}
    Users = {u1, u2}
    WebSockets = {k3}
    Leavers = {k3}
    Discreet = {k1}
SYMMETRY Interchangeable
INVARIANTS
    PresenceTypeOK
    NobodyMissed
    InvisibleUnseen
CHECK_DEADLOCK FALSE
