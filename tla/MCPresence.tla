----------------------------- MODULE MCPresence -----------------------------
(***************************************************************************)
(* Instances of Presence for TLC: users have no order, nor have the        *)
(* connections that the bounds treat alike.                                *)
(***************************************************************************)
EXTENDS Presence, TLC

Alike(c) ==
    {d \in Connections : /\ d \in Leavers <=> c \in Leavers
                         /\ d \in Discreet <=> c \in Discreet
                         /\ d \in WebSockets <=> c \in WebSockets}

Interchangeable ==
    UNION {Permutations(Alike(c)) : c \in Connections} \union Permutations(Users)

(* Two users, one of whom has the WebSocket and another connection, and    *)
(* the connections that may ask for presence_invisible do.                 *)
SharedInit ==
    /\ PresenceInit
    /\ invisible = Discreet /\ UsersOf(Connections) = Users
    /\ UsersOf(WebSockets) \subseteq UsersOf(Connections \ WebSockets)

SharedSpec == SharedInit /\ [][PresenceNext]_presenceVars
=============================================================================
