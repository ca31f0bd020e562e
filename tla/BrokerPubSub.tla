---------------------------- MODULE BrokerPubSub ----------------------------
(***************************************************************************)
(* Broker implements PubSub.  The messages in flight are those of the      *)
(* publish jobs in the reactor's queue, in queue order; a client's inbox   *)
(* is what its socket was sent; its topic is the api id and the channel it *)
(* asked for.  The channel a message names is not part of the promise.     *)
(***************************************************************************)
EXTENDS Broker

Numbered(m) == [id |-> m.id, from |-> m.from]

AddMessage(list, job) ==
    IF job.kind = "publish" THEN Append(list, Numbered(job.message)) ELSE list

(* The messages of the publish jobs among some jobs, in their order.       *)
MessagesOf(jobs) ==
    LET upTo[n \in 0 .. Len(jobs)] ==
            IF n = 0 THEN <<>> ELSE AddMessage(upTo[n - 1], jobs[n])
    IN  upTo[Len(jobs)]

InFlight == MessagesOf(ticks)

Inbox == [e \in Endpoints |-> [i \in DOMAIN received[e] |-> Numbered(received[e][i])]]

Abstract == INSTANCE PubSub WITH
    Clients <- Endpoints, topic <- params, lastId <- nextMessageId,
    inFlight <- InFlight, inbox <- Inbox

(* Messages are published one by one in the order in which their ids were  *)
(* drawn, each reaches a connection at most once, and only connections     *)
(* with the topic of its sender; and a message that was issued is          *)
(* published as long as the reactor runs.                                  *)
ImplementsPubSub == Abstract!FairPubSubSpec
=============================================================================
