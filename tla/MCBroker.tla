------------------------------ MODULE MCBroker ------------------------------
(***************************************************************************)
(* Instances of Broker for TLC: endpoints of one kind are interchangeable  *)
(* as long as no temporal property is checked.                             *)
(***************************************************************************)
EXTENDS BrokerPubSub, TLC

CONSTANTS e1, e2, e3, e4, w1, w2, s1

AllEndpoints == EventSources \union WebSockets \union Senders

Interchangeable ==
    Permutations(EventSources) \union Permutations(WebSockets)
        \union Permutations(Senders)
=============================================================================
