------------------------------- MODULE Broker -------------------------------
(***************************************************************************)
(* The endpoints (event_source.rb, web_sockets.rb, send_request.rb, with   *)
(* connection.rb and auth.rb mixed in) composed with the applications, the *)
(* channels and the reactor.  One action is one uninterrupted stretch of   *)
(* code: a socket callback up to the point where the fiber waits for       *)
(* mongo, the rest of the request when the reply comes, or one job of the  *)
(* EM.next_tick queue.  An endpoint object serves one request.             *)
(***************************************************************************)
EXTENDS Application, FiniteSets

CONSTANTS
    EventSources, WebSockets, Senders,  \* the kinds of endpoint
    MaxMessages     \* bound on the messages issued in a behaviour

ASSUME EndpointsAssumption ==
    /\ Endpoints = EventSources \union WebSockets \union Senders
    /\ EventSources \intersect WebSockets = {}
    /\ EventSources \intersect Senders = {}
    /\ WebSockets \intersect Senders = {}
ASSUME NameAssumption == Nil \notin ChannelNames
ASSUME MaxMessagesAssumption == MaxMessages \in Nat

Subscribers == EventSources \union WebSockets

VARIABLES
    params,         \* endpoint -> the api id and channel its client asks for
    phase,          \* endpoint -> how far its request got
    closed,         \* endpoints whose socket was unbound
    closing,        \* WebSockets that saw a close frame
    application,    \* endpoint -> @application
    subscription,   \* endpoint -> @subscription_id, 0 for nil
    keepAlive,      \* EventSources whose keep-alive timer runs
    stalled,        \* endpoints whose queue processor raised and stopped
    nextMessageId,  \* @@next_message_id
    received        \* endpoint -> the messages its socket was sent

connVars == <<params, phase, closed, closing, application, subscription,
              keepAlive, stalled, nextMessageId, received>>
vars == <<loopVars, appVars, subscriptors, connVars>>

(* "idle" no request yet; "awaiting" the fiber waits for mongo; "accepted" *)
(* prepare_connection is queued; "rejected" login failed; "subscribed";    *)
(* "departed" on_close unsubscribed it; "sent" a Sender whose message was  *)
(* issued.  @authenticated is set in all but the first two and "rejected". *)
Phases == {"idle", "awaiting", "accepted", "rejected", "subscribed",
           "departed", "sent"}

Messages == [id : 2 .. (MaxMessages + 1), from : Endpoints,
             channel : ChannelNames \union {Nil}]

Jobs == [kind : {"prepare"}, endpoint : Subscribers]
        \union [kind : {"cleanup"}, app : Endpoints, name : ChannelNames,
                channel : Endpoints]
        \union [kind : {"publish"}, endpoint : Endpoints, message : Messages]

(* Every variable has its type; the reactor's batch never runs over.       *)
TypeOK ==
    /\ ticks \in Seq(Jobs) /\ left \in Nat /\ left <= Len(ticks)
    /\ ChannelTypeOK /\ AppTypeOK
    /\ params \in [Endpoints -> [api : ApiIds, channel : ChannelNames]]
    /\ phase \in [Endpoints -> Phases]
    /\ closed \subseteq Subscribers /\ closing \subseteq WebSockets
    /\ application \in [Endpoints -> Endpoints \union {Nil}]
    /\ subscription \in [Endpoints -> Nat]
    /\ keepAlive \subseteq EventSources /\ stalled \subseteq WebSockets
    /\ nextMessageId \in 1 .. (MaxMessages + 1)
    /\ received \in [Endpoints -> Seq(Messages)]

(* params is what the clients are going to ask for.  A request without a   *)
(* mandatory parameter raises before it changes any state.                 *)
Init ==
    /\ LoopInit /\ ChannelInit /\ AppInit
    /\ params \in [Endpoints -> [api : ApiIds, channel : ChannelNames]]
    /\ phase = [e \in Endpoints |-> "idle"]
    /\ closed = {} /\ closing = {} /\ keepAlive = {} /\ stalled = {}
    /\ application = [e \in Endpoints |-> Nil]
    /\ subscription = [e \in Endpoints |-> 0]
    /\ nextMessageId = 1
    /\ received = [e \in Endpoints |-> <<>>]

(* @channel: a Sender's is set by its parameters, a subscriber's only by   *)
(* prepare_connection.                                                     *)
ConnectionChannel(e) ==
    IF e \in Senders \/ phase[e] \in {"subscribed", "departed"}
    THEN params[e].channel ELSE Nil

EnterPhase(e, p) == phase' = [phase EXCEPT ![e] = p]
-----------------------------------------------------------------------------
(* Requests.  A request takes its application from the table and then      *)
(* queries mongo, which suspends its fiber.                                *)
Authenticate(e) ==
    /\ Idle
    /\ phase[e] = "idle"
    /\ EnterPhase(e, "awaiting")
    /\ application' = [application EXCEPT ![e] = GetApplication(params[e].api, e)]
    /\ LoadApplication(params[e].api, e)
    /\ UNCHANGED <<loopVars, subscriptors, params, closed, closing, subscription,
                   keepAlive, stalled, nextMessageId, received>>

(* No record for the api id, a wrong signature, or a mongo error.          *)
LoginFailed(e) ==
    /\ Idle
    /\ phase[e] = "awaiting"
    /\ EnterPhase(e, "rejected")
    /\ UNCHANGED <<loopVars, appVars, subscriptors, params, closed, closing,
                   application, subscription, keepAlive, stalled, nextMessageId,
                   received>>

PrepareJob(e) == [kind |-> "prepare", endpoint |-> e]

(* A login that forgets to queue prepare_connection.                       *)
LoginOkUnprepared(e) ==
    /\ Idle
    /\ phase[e] = "awaiting" /\ e \in Subscribers
    /\ EnterPhase(e, "accepted")
    /\ SetAppInfo(application[e])
    /\ UNCHANGED <<loopVars, subscriptors, params, closed, closing, application,
                   subscription, keepAlive, stalled, nextMessageId, received>>

(* The rest of a subscriber's request: the connection may be closed by     *)
(* now, nobody looks.                                                      *)
LoginOk(e) ==
    /\ Idle
    /\ phase[e] = "awaiting" /\ e \in Subscribers
    /\ EnterPhase(e, "accepted")
    /\ SetAppInfo(application[e])
    /\ Schedule(PrepareJob(e))
    /\ UNCHANGED <<subscriptors, params, closed, closing, application,
                   subscription, keepAlive, stalled, nextMessageId, received>>

NewMessage(e) ==
    [id |-> nextMessageId + 1, from |-> e, channel |-> ConnectionChannel(e)]

PublishJob(e, m) == [kind |-> "publish", endpoint |-> e, message |-> m]

(* prepare_send_request and send_to_broker.  The bound is the model's.     *)
PrepareSendRequest(e) ==
    /\ nextMessageId <= MaxMessages
    /\ nextMessageId' = nextMessageId + 1
    /\ Schedule(PublishJob(e, NewMessage(e)))

SendRequest(e) ==
    /\ Idle
    /\ phase[e] = "awaiting" /\ e \in Senders
    /\ EnterPhase(e, "sent")
    /\ SetAppInfo(application[e])
    /\ PrepareSendRequest(e)
    /\ UNCHANGED <<subscriptors, params, closed, closing, application,
                   subscription, keepAlive, stalled, received>>

(* A frame from a WebSocket client; a failed login leaves its socket open. *)
OnMessage(e) ==
    /\ Idle
    /\ e \in WebSockets \ (closed \union closing)
    /\ phase[e] # "idle"
    /\ PrepareSendRequest(e)
    /\ UNCHANGED <<appVars, subscriptors, params, phase, closed, closing,
                   application, subscription, keepAlive, stalled, received>>

(* The WebSocket client sends a close frame; em-websocket answers it, and  *)
(* until the socket is unbound it raises on an attempt to send data.       *)
CloseFrame(e) ==
    /\ Idle
    /\ e \in WebSockets \ (closed \union closing)
    /\ phase[e] # "idle"
    /\ closing' = closing \union {e}
    /\ UNCHANGED <<loopVars, appVars, subscriptors, params, phase, closed,
                   application, subscription, keepAlive, stalled, nextMessageId,
                   received>>
-----------------------------------------------------------------------------
(* The socket is unbound: connection.rb's on_close, with close_endpoint.   *)
OnClose(e) ==
    /\ Idle
    /\ e \in Subscribers \ closed
    /\ phase[e] # "idle"
    /\ closed' = closed \union {e}
    /\ keepAlive' = keepAlive \ {e}
    /\ \/ /\ phase[e] \in {"awaiting", "rejected"}      \* not @authenticated
          /\ UNCHANGED <<phase, appVars, subscriptors, loopVars>>
       \/ /\ phase[e] = "accepted"                      \* no @subscription_id
          /\ StatConnectionClose(application[e])
          /\ UNCHANGED <<phase, subscriptors, loopVars>>
       \/ /\ phase[e] = "subscribed"
          /\ EnterPhase(e, "departed")
          /\ StatConnectionClose(application[e])
          /\ Unsubscribe(application[e], params[e].channel, subscription[e])
    /\ UNCHANGED <<params, closing, application, subscription, stalled,
                   nextMessageId, received>>
-----------------------------------------------------------------------------
(* The jobs of the next_tick queue.                                        *)

(* prepare_connection.                                                     *)
Prepare(e) ==
    LET a == application[e]
        name == params[e].channel
    IN  /\ EnterPhase(e, "subscribed")
        /\ keepAlive' = keepAlive \union ({e} \intersect EventSources)
        /\ subscription' =
              [subscription EXCEPT ![e] = NextSubscriptionId(GetChannel(a, e, name))]
        /\ OpenAndSubscribe(a, e, name)
        /\ TakeTick(FALSE)
        /\ UNCHANGED <<params, closed, closing, application, stalled,
                       nextMessageId, received>>

Cleanup(job) ==
    /\ \E raised \in BOOLEAN :
          /\ CleanupAfterUnsubscribe(job.app, params[job.app].api, job.name,
                                     job.channel, raised)
          /\ TakeTick(raised)
    /\ UNCHANGED <<subscriptors, connVars>>

(* A push reaches the subscriptions of ch in the order of their ids, up to *)
(* the first whose processor raises: a closing WebSocket that did not      *)
(* raise before.  A processor that raised takes no further message.        *)
Raises(e) == e \in closing \ (closed \union stalled)

RaisesAt(ch) == {id \in DOMAIN subscriptors[ch] : Raises(subscriptors[ch][id])}

Reached(ch, e) ==
    \E id \in DOMAIN subscriptors[ch] :
        subscriptors[ch][id] = e /\ \A r \in RaisesAt(ch) : id <= r

(* A send_message_to_channel that is tried again when the push raised.     *)
PublishAgain(e, m) ==
    LET name == ConnectionChannel(e)
        ch == IF name = Nil THEN Nil ELSE channels[application[e]][name]
    IN  /\ IF ch = Nil
           THEN TakeTick(FALSE) /\ UNCHANGED <<stalled, received>>
           ELSE /\ left' = IF RaisesAt(ch) # {} THEN 0
                           ELSE IF left = 0 THEN Len(ticks) - 1 ELSE left - 1
                /\ ticks' = Tail(ticks) \o (IF RaisesAt(ch) # {} THEN <<Head(ticks)>> ELSE <<>>)
                /\ stalled' = stalled \union {r \in closing : Raises(r) /\ Reached(ch, r)}
                /\ received' = [r \in Endpoints |->
                      IF Reached(ch, r) /\ r \notin closed \union closing
                      THEN Append(received[r], m) ELSE received[r]]
        /\ UNCHANGED <<appVars, subscriptors, params, phase, closed, closing,
                       application, subscription, keepAlive, nextMessageId>>

(* send_message_to_channel, with the push through Channel, ChannelBroker   *)
(* and EM::Channel into the queues, and send_to_client.                    *)
Publish(e, m) ==
    LET a == application[e]
        name == ConnectionChannel(e)
        ch == IF name = Nil THEN Nil ELSE channels[a][name]
    IN  /\ IF ch = Nil
           THEN TakeTick(FALSE) /\ UNCHANGED <<stalled, received>>
           ELSE /\ TakeTick(RaisesAt(ch) # {})
                /\ stalled' = stalled \union {r \in closing : Raises(r) /\ Reached(ch, r)}
                /\ received' = [r \in Endpoints |->
                      IF Reached(ch, r) /\ r \notin closed \union closing
                      THEN Append(received[r], m) ELSE received[r]]
        /\ UNCHANGED <<appVars, subscriptors, params, phase, closed, closing,
                       application, subscription, keepAlive, nextMessageId>>

Tick ==
    /\ ticks # <<>>
    /\ LET job == Head(ticks)
       IN  \/ job.kind = "prepare" /\ Prepare(job.endpoint)
           \/ job.kind = "cleanup" /\ Cleanup(job)
           \/ job.kind = "publish" /\ Publish(job.endpoint, job.message)
-----------------------------------------------------------------------------
PushTimerFires(a) ==
    /\ Idle
    /\ PushTimer(a)
    /\ UNCHANGED <<loopVars, subscriptors, connVars>>

Next ==
    \/ \E e \in Endpoints :
          \/ Authenticate(e) \/ LoginFailed(e) \/ LoginOk(e) \/ SendRequest(e)
          \/ OnMessage(e) \/ CloseFrame(e) \/ OnClose(e) \/ PushTimerFires(e)
    \/ Tick

Spec == Init /\ [][Next]_vars

(* The reactor never stops taking jobs.  Clients and mongo owe nothing.    *)
FairSpec == Spec /\ WF_vars(Tick)
-----------------------------------------------------------------------------
(* What the broker keeps true.                                             *)

(* No step works on an application whose @app_info is nil: whoever still   *)
(* has to subscribe to it, and every channel it has or is about to clean   *)
(* up, comes after the login that loaded the record into this instance     *)
(* (subscribe and destroy dereference it).                                 *)
AppInfoBeforeUse ==
    /\ \A e \in Endpoints : phase[e] \in {"accepted", "subscribed", "departed"}
                              => application[e] \in appInfo
    /\ \A a \in Endpoints : ChannelsOf(a) # {} => a \in appInfo
    /\ \A i \in DOMAIN ticks : ticks[i].kind = "cleanup" => ticks[i].app \in appInfo

(* A channel that lost its last listener is not forgotten: as long as it   *)
(* can still be looked up, a cleanup of this very object is queued,        *)
(* whatever closes, prepares and other cleanups happened in between.       *)
NoEmptyChannelLeak ==
    \A a \in Endpoints, name \in ChannelNames :
        channels[a][name] # Nil /\ Listeners(channels[a][name]) = {}
            => Pending(CleanupJob(a, name, channels[a][name]))

(* Once on_close has unsubscribed a connection, no channel that a message  *)
(* can still be sent to has it as a listener, even where its subscription  *)
(* id was used on a newer channel object of the same name, and its         *)
(* keep-alive timer is gone.                                               *)
DepartedHoldsNothing ==
    \A e \in Endpoints : phase[e] = "departed" =>
        /\ e \notin keepAlive
        /\ \A a \in Endpoints, name \in ChannelNames :
              channels[a][name] # Nil => e \notin Listeners(channels[a][name])

(* An application that had a subscriber and lost its last channel is out   *)
(* of @@applications, or else its own last attempt to destroy itself       *)
(* raised: no cleanup, late, double or of a replaced object, forgets it.   *)
ApplicationReclaimed ==
    \A api \in ApiIds :
        LET a == applications[api]
        IN  a # Nil /\ ChannelsOf(a) = {} /\ a \notin undestroyed =>
                ~ \E e \in Endpoints : /\ application[e] = a
                                       /\ phase[e] \in {"subscribed", "departed"}

(* A client only receives what a client of the same api id, asking for the *)
(* same channel, sent, although sockets, application instances and channel *)
(* objects are created, dropped and replaced between send and delivery.    *)
Isolation ==
    \A e \in Endpoints : \A i \in DOMAIN received[e] :
        params[received[e][i].from] = params[e]

EndpointsOf(a, p) == {e \in Endpoints : application[e] = a /\ phase[e] = p}

(* The statistic never counts a connection that is gone; connections that  *)
(* were closed before prepare_connection ran are the only ones it misses.  *)
ConnectionCountBounds ==
    \A a \in Endpoints :
        /\ currentConnections[a] <= Cardinality(EndpointsOf(a, "subscribed"))
        /\ currentConnections[a] >=
              Cardinality(EndpointsOf(a, "subscribed") \ closed)
              - Cardinality(EndpointsOf(a, "accepted") \intersect closed)

(* The statistic never counts a channel that is not there, although two    *)
(* cleanups may take the same channel off the count.                       *)
ChannelCountBound ==
    \A a \in Endpoints : currentChannels[a] <= Cardinality(ChannelsOf(a))

(* Under a reactor that keeps taking jobs: a login that succeeded leads to *)
(* a subscription.                                                         *)
AcceptedIsServed ==
    \A e \in Subscribers : phase[e] = "accepted" ~> phase[e] = "subscribed"

(* A registered channel does not stay without listeners for ever.          *)
EmptyChannelReclaimed ==
    \A a \in Endpoints, name \in ChannelNames, ch \in Endpoints :
        (channels[a][name] = ch /\ Listeners(ch) = {})
            ~> ~ (channels[a][name] = ch /\ Listeners(ch) = {})
-----------------------------------------------------------------------------
(* How the tables, the queue and the endpoints hang together: what makes   *)
(* the invariants above inductive.                                         *)
EverSubscribed(e) == phase[e] \in {"subscribed", "departed"}

(* An endpoint works on an instance of its own api id.                     *)
ApplicationsOK ==
    /\ \A e \in Endpoints : phase[e] # "idle" =>
          /\ application[e] \in Endpoints
          /\ phase[application[e]] # "idle"
          /\ params[application[e]].api = params[e].api
    /\ \A api \in ApiIds : applications[api] # Nil =>
          /\ phase[applications[api]] # "idle"
          /\ params[applications[api]].api = api

(* prepare_connection is queued once for an accepted subscriber, and a     *)
(* message is published by the endpoint that issued it.                    *)
JobsOK ==
    \A i \in DOMAIN ticks :
        /\ ticks[i].kind = "prepare" =>
              /\ phase[ticks[i].endpoint] = "accepted"
              /\ \A j \in DOMAIN ticks : ticks[j] = ticks[i] => j = i
        /\ ticks[i].kind = "publish" =>
              /\ phase[ticks[i].endpoint] # "idle"
              /\ ticks[i].message.from = ticks[i].endpoint

(* A login that succeeded is not forgotten: as long as the endpoint is     *)
(* accepted, its prepare_connection is queued, also when its socket is     *)
(* unbound and when another job raised and ended a batch.                  *)
AcceptedOK ==
    \A e \in Endpoints : phase[e] = "accepted" =>
        e \in Subscribers /\ Pending(PrepareJob(e))

(* A channel is registered under its own name in its own application.      *)
ChannelsOK ==
    \A a \in Endpoints, name \in ChannelNames : channels[a][name] # Nil =>
        /\ application[channels[a][name]] = a
        /\ params[channels[a][name]].channel = name
        /\ EverSubscribed(channels[a][name])

(* An entry of a channel object stands at the id its endpoint holds, and   *)
(* the endpoint asked for this channel of this application.                *)
SubscriptionsOK ==
    \A ch \in Endpoints : \A id \in DOMAIN subscriptors[ch] :
        subscriptors[ch][id] # Nil =>
            /\ EverSubscribed(ch)
            /\ EverSubscribed(subscriptors[ch][id])
            /\ subscription[subscriptors[ch][id]] = id
            /\ application[subscriptors[ch][id]] = application[ch]
            /\ params[subscriptors[ch][id]].channel = params[ch].channel

(* The structure the safety invariants rest on, whatever the interleaving. *)
StructureOK == ApplicationsOK /\ JobsOK /\ AcceptedOK /\ ChannelsOK /\ SubscriptionsOK
-----------------------------------------------------------------------------
(* What its comments say and the code does not keep, refuted by a run.     *)

(* connection.rb:46-47: a closed connection is unsubscribed and its        *)
(* endpoint's timer stopped.  Closing before prepare_connection has run    *)
(* leaves a subscription and a keep-alive timer that nothing removes.      *)
ClosedIsUnsubscribed ==
    \A e \in closed : e \notin keepAlive /\ \A ch \in Endpoints : e \notin Listeners(ch)
=============================================================================
