SPECIFICATION PresenceSpec
CONSTANTS
    Connections = {k1, k2}
    Users = {u1, u2}
    WebSockets = {}
    Leavers = {k2}
    Discreet = {k2}
SYMMETRY Interchangeable
INVARIANTS
    NoGhosts
CHECK_DEADLOCK FALSE
