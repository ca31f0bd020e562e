------------------------------ MODULE Channel ------------------------------
(***************************************************************************)
(* channel.rb and brokers/channel_broker.rb: the subscription table of the *)
(* channel objects.  A channel object and an application object are each   *)
(* named by the endpoint whose request created it, which creates at most   *)
(* one of either.  EM::Channel numbers the subscriptions of an object 1,   *)
(* 2, ... and never reuses a number, so the table of object ch is a        *)
(* sequence indexed by subscription id in which a removed entry is Nil.    *)
(* The EM::Channel and the @subscriptors hash change together.             *)
(***************************************************************************)
EXTENDS Naturals, Sequences

CONSTANTS
    Endpoints,      \* the endpoint objects, one per HTTP request
    Nil             \* Ruby's nil

ASSUME NilAssumption == Nil \notin Endpoints

VARIABLE
    subscriptors    \* channel object -> sequence of Endpoints and Nil

ChannelTypeOK == subscriptors \in [Endpoints -> Seq(Endpoints \union {Nil})]

ChannelInit == subscriptors = [ch \in Endpoints |-> <<>>]

Listeners(ch) ==
    {e \in Endpoints : \E id \in DOMAIN subscriptors[ch] : subscriptors[ch][id] = e}

(* The id that EM::Channel gives to the next subscription.                 *)
NextSubscriptionId(ch) == Len(subscriptors[ch]) + 1

ChannelSubscribe(ch, e) ==
    subscriptors' = [subscriptors EXCEPT ![ch] = Append(@, e)]

(* An unsubscribe that leaves the entry behind.                            *)
ChannelUnsubscribeKeepsEntry(ch, id) == ch \in Endpoints /\ id > 0 /\ UNCHANGED subscriptors

(* An unsubscribe that closes the gap: the ids behind it move.             *)
ChannelUnsubscribeShiftsIds(ch, id) ==
    subscriptors' = [subscriptors EXCEPT ![ch] =
                        IF id \in DOMAIN @
                        THEN [i \in 1 .. (Len(@) - 1) |-> @[IF i < id THEN i ELSE i + 1]]
                        ELSE @]

(* Hash#delete and EM::Channel#unsubscribe ignore an unknown id.           *)
ChannelUnsubscribe(ch, id) ==
    subscriptors' = [subscriptors EXCEPT ![ch] =
                        [i \in DOMAIN @ |-> IF i = id THEN Nil ELSE @[i]]]
=============================================================================
