----------------------------- MODULE EventStream ----------------------------
(***************************************************************************)
(* What the page is told by an EventSource: that it is open, the messages  *)
(* while it is, that it was lost, after which it may open again, or that   *)
(* it has failed for good; after it failed or was closed, nothing.         *)
(***************************************************************************)
EXTENDS Sequences

CONSTANTS Messages, Open, Error     \* the events

VARIABLES
    state,      \* what the page sees in readyState
    heard       \* what it was told, in order

streamVars == <<state, heard>>

Started == state = "CONNECTING" /\ heard = <<>>

Tell(event) == heard' = Append(heard, event)

Opens == state = "CONNECTING" /\ state' = "OPEN" /\ Tell(Open)

Brings ==
    /\ state = "OPEN" /\ state' = "OPEN"
    /\ \E n \in DOMAIN heard' : heard'[n] \in Messages /\ Tell(heard'[n])

Breaks == state = "OPEN" /\ state' = "CONNECTING" /\ Tell(Error)

Fails == state = "CONNECTING" /\ state' = "CLOSED" /\ Tell(Error)

IsClosed == state' = "CLOSED" /\ UNCHANGED heard

Happens == Opens \/ Brings \/ Breaks \/ Fails \/ IsClosed

EventStreamSpec == Started /\ [][Happens]_streamVars
=============================================================================
