------------------------------- MODULE PubSub -------------------------------
(***************************************************************************)
(* What the broker promises a client: messages are numbered as they are    *)
(* issued and published one at a time in that order; publishing delivers a *)
(* message at most once to each of some of the clients with the topic of   *)
(* its sender.  Who they are is left open: a subscription that has ended,  *)
(* or is not there yet, misses the message, and nobody gets it later.      *)
(***************************************************************************)
EXTENDS Naturals, Sequences

CONSTANT Clients

VARIABLES
    topic,      \* client -> its topic, which never changes
    lastId,     \* the number of the last message issued
    inFlight,   \* the messages issued and not published yet, oldest first
    inbox       \* client -> the messages it was delivered

abstractVars == <<topic, lastId, inFlight, inbox>>

Start ==
    /\ lastId = 1
    /\ inFlight = <<>>
    /\ inbox = [c \in Clients |-> <<>>]

Issue(c) ==
    /\ lastId' = lastId + 1
    /\ inFlight' = Append(inFlight, [id |-> lastId + 1, from |-> c])
    /\ UNCHANGED <<topic, inbox>>

Deliver(reached) ==
    /\ inFlight # <<>>
    /\ inFlight' = Tail(inFlight)
    /\ \A c \in reached : topic[c] = topic[Head(inFlight).from]
    /\ inbox' = [c \in Clients |->
                    IF c \in reached THEN Append(inbox[c], Head(inFlight)) ELSE inbox[c]]
    /\ UNCHANGED <<topic, lastId>>

Step ==
    \/ \E c \in Clients : Issue(c)
    \/ \E reached \in SUBSET Clients : Deliver(reached)

PubSubSpec == Start /\ [][Step]_abstractVars

(* What follows: a client sees the messages of its topic in the order in   *)
(* which they were issued, and none of them twice, whatever it misses      *)
(* (get_next_id and send_to_broker, connection.rb 62-81).                  *)
InOrder ==
    \A c \in Clients : \A m, n \in DOMAIN inbox[c] : m < n => inbox[c][m].id < inbox[c][n].id

(* Every message in flight is published in the end.                        *)
FairPubSubSpec == PubSubSpec /\ WF_abstractVars(\E reached \in SUBSET Clients : Deliver(reached))
=============================================================================
