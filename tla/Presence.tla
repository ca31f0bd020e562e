------------------------------ MODULE Presence ------------------------------
(***************************************************************************)
(* The presence events of application.rb and channel.rb, for one channel   *)
(* object of an application that has presence enabled.  The reactor        *)
(* changes the table of subscriptors and hands the events over to the      *)
(* threads of EM.defer; a thread iterates over the table, publishes with   *)
(* EM::Channel#push, which outside the reactor is an EM.next_tick, and     *)
(* sends to its own connection directly.  The pool has more threads than   *)
(* there are tasks here.  A push ends at the first closing WebSocket whose *)
(* queue processor raises, as in module Broker, and whoever subscribed     *)
(* after it does not get the event.  Connections that close before their   *)
(* prepare_connection ran, the messages of clients and the fate of channel *)
(* objects after they were removed are the matter of module Broker.  A     *)
(* thread in which a send raises drops its task; that EventMachine hands   *)
(* the exception on to the reactor's thread is left out.                   *)
(***************************************************************************)
EXTENDS EventLoop, FiniteSets

CONSTANTS
    Connections, Users,
    WebSockets,     \* the connections that raise on a send while they are closing
    Leavers,        \* bound: the connections that may close
    Discreet        \* bound: the connections that may ask for presence_invisible

ASSUME WebSocketsAssumption == WebSockets \subseteq Connections
ASSUME LeaversAssumption == Leavers \subseteq Connections
ASSUME DiscreetAssumption == Discreet \subseteq Connections

VARIABLES
    user,           \* connection -> its presence_user_id
    invisible,      \* the connections with presence_invisible
    phase,          \* connection -> how far it got
    registered,     \* whether the application still has this channel object
    listeners,      \* the connections subscribed to the EM::Channel
    subscriptors,   \* the connections in @subscriptors
    ahead,          \* connection -> the WebSockets that subscribed before it
    closing,        \* WebSockets that saw a close frame and are not unbound yet
    stalled,        \* the connections whose queue processor raised and stopped
    stage,          \* task -> how far its thread got
    seen,           \* task -> the entries its iteration goes over
    logged,         \* task -> already_logged, until its last use
    current,        \* connection -> the users it is still to be sent as current
    knows           \* connection -> user -> the last event it was sent of the user

connectionVars == <<user, invisible, phase, registered, listeners, subscriptors,
                    ahead, closing, stalled>>
threadVars == <<stage, seen, logged, current>>
presenceVars == <<loopVars, connectionVars, threadVars, knows>>

(* A connection is "unlisted" when it was subscribed to the EM::Channel    *)
(* but an exception kept it out of the table, "elsewhere" when it was      *)
(* subscribed to a later channel object.                                   *)
Phases == {"idle", "accepted", "subscribed", "unlisted", "elsewhere", "departed"}

Tasks == {"open", "close"} \X Connections

Stages == {"none", "deferred", "counting", "counted", "announced", "listing", "listed", "done"}

PresenceJobs ==
    [kind : {"prepare"}, connection : Connections] \union [kind : {"cleanup"}]
    \union [kind : {"push"}, event : {"open", "close"}, user : Users]

(* Every variable has its type.                                            *)
PresenceTypeOK ==
    /\ ticks \in Seq(PresenceJobs) /\ left \in 0 .. Len(ticks)
    /\ user \in [Connections -> Users] /\ invisible \subseteq Connections
    /\ phase \in [Connections -> Phases] /\ registered \in BOOLEAN
    /\ listeners \subseteq Connections /\ subscriptors \subseteq listeners
    /\ ahead \in [Connections -> SUBSET WebSockets]
    /\ closing \subseteq WebSockets /\ stalled \subseteq WebSockets
    /\ stage \in [Tasks -> Stages] /\ seen \in [Tasks -> SUBSET Connections]
    /\ logged \in [Tasks -> BOOLEAN]
    /\ current \in [Connections -> SUBSET Users]
    /\ knows \in [Connections -> [Users -> {"nothing", "there", "gone"}]]

PresenceInit ==
    /\ LoopInit
    /\ user \in [Connections -> Users] /\ invisible \in SUBSET Discreet
    /\ phase = [c \in Connections |-> "idle"]
    /\ registered = TRUE /\ listeners = {} /\ subscriptors = {}
    /\ ahead = [c \in Connections |-> {}]
    /\ closing = {} /\ stalled = {}
    /\ stage = [t \in Tasks |-> "none"] /\ seen = [t \in Tasks |-> {}]
    /\ logged = [t \in Tasks |-> FALSE]
    /\ current = [c \in Connections |-> {}]
    /\ knows = [c \in Connections |-> [u \in Users |-> "nothing"]]

EnterPresencePhase(c, p) == phase' = [phase EXCEPT ![c] = p]

EnterStage(t, s) == stage' = [stage EXCEPT ![t] = s]
-----------------------------------------------------------------------------
(* The reactor.                                                            *)

(* A successful login queues prepare_connection.                           *)
Login(c) ==
    /\ Idle
    /\ phase[c] = "idle"
    /\ EnterPresencePhase(c, "accepted")
    /\ Schedule([kind |-> "prepare", connection |-> c])
    /\ UNCHANGED <<user, invisible, registered, listeners, subscriptors, ahead,
                   closing, stalled, threadVars, knows>>

(* The WebSocket client sends a close frame; until the socket is unbound   *)
(* em-websocket raises on an attempt to send data.                         *)
CloseFrame(c) ==
    /\ Idle
    /\ c \in WebSockets \ closing
    /\ phase[c] \in {"accepted", "subscribed", "unlisted"}
    /\ closing' = closing \union {c}
    /\ UNCHANGED <<loopVars, user, invisible, phase, registered, listeners, subscriptors,
                   ahead, stalled, threadVars, knows>>

(* EM::Channel keeps its subscriptions in the order in which they came.    *)
SubscribeToChannel(c) ==
    /\ listeners' = listeners \union {c}
    /\ ahead' = [ahead EXCEPT ![c] = listeners \intersect WebSockets]

(* Ruby raises on a new key while a Hash is iterated over, in any thread.  *)
Iterating == \E t \in Tasks : stage[t] \in {"counting", "listing"}

(* prepare_connection: subscribe, and the open events go to a thread.      *)
Subscribe(c) ==
    /\ \/ /\ ~ registered
          /\ TakeTick(FALSE)
          /\ EnterPresencePhase(c, "elsewhere")
          /\ UNCHANGED <<listeners, ahead, subscriptors, stage>>
       \/ /\ registered /\ ~ Iterating
          /\ TakeTick(FALSE)
          /\ SubscribeToChannel(c)
          /\ subscriptors' = subscriptors \union {c}
          /\ EnterPresencePhase(c, "subscribed")
          /\ EnterStage(<<"open", c>>, "deferred")
       \/ /\ registered /\ Iterating
          /\ TakeTick(TRUE)
          /\ SubscribeToChannel(c)
          /\ EnterPresencePhase(c, "unlisted")
          /\ UNCHANGED <<subscriptors, stage>>
    /\ UNCHANGED <<user, invisible, registered, closing, stalled, seen, logged, current,
                   knows>>

(* A departure that leaves its entry in the table.                         *)
UnsubscribeListenerOnly(c) ==
    /\ Idle
    /\ c \in Leavers /\ phase[c] = "subscribed"
    /\ EnterPresencePhase(c, "departed")
    /\ closing' = closing \ {c}
    /\ listeners' = listeners \ {c}
    /\ Schedule([kind |-> "cleanup"])
    /\ EnterStage(<<"close", c>>, "deferred")
    /\ UNCHANGED <<user, invisible, registered, subscriptors, ahead, stalled, seen,
                   logged, current, knows>>

(* on_close: unsubscribe, look at the channel in the next tick, and the    *)
(* close events go to a thread.                                            *)
Unsubscribe(c) ==
    /\ Idle
    /\ c \in Leavers /\ phase[c] = "subscribed"
    /\ EnterPresencePhase(c, "departed")
    /\ closing' = closing \ {c}
    /\ listeners' = listeners \ {c}
    /\ subscriptors' = subscriptors \ {c}
    /\ Schedule([kind |-> "cleanup"])
    /\ EnterStage(<<"close", c>>, "deferred")
    /\ UNCHANGED <<user, invisible, registered, ahead, stalled, seen, logged, current,
                   knows>>

(* cleanup_after_unsubscribe: the channel goes when its table is empty,    *)
(* and the destroy of the application that may follow may raise.           *)
CleanupAfterUnsubscribe ==
    /\ \E raised \in BOOLEAN : TakeTick(raised) /\ (raised => subscriptors = {})
    /\ registered' = (registered /\ subscriptors # {})
    /\ UNCHANGED <<user, invisible, phase, listeners, subscriptors, ahead,
                   closing, stalled, threadVars, knows>>

(* The subscriptions whose processor would raise, and the ones a push      *)
(* reaches: in the order in which they came, up to the first of those.  A  *)
(* processor that raised takes no further message.                         *)
Raisers == (listeners \intersect closing) \ stalled

Reached(c) == c \in listeners /\ Raisers \intersect ahead[c] = {}

(* A push that reached the reactor.                                        *)
Push(job) ==
    /\ TakeTick(Raisers # {})
    /\ stalled' = stalled \union {r \in Raisers : Reached(r)}
    /\ knows' = [c \in Connections |->
          IF Reached(c) /\ c \notin closing
          THEN [knows[c] EXCEPT ![job.user] = IF job.event = "open" THEN "there" ELSE "gone"]
          ELSE knows[c]]
    /\ UNCHANGED <<user, invisible, phase, registered, listeners, subscriptors, ahead,
                   closing, threadVars>>

PresenceTick ==
    /\ ticks # <<>>
    /\ LET job == Head(ticks)
       IN  \/ job.kind = "prepare" /\ Subscribe(job.connection)
           \/ job.kind = "cleanup" /\ CleanupAfterUnsubscribe
           \/ job.kind = "push" /\ Push(job)
-----------------------------------------------------------------------------
(* The threads: fire_presence_open_events and fire_presence_close_events.  *)

(* subscriptions_for and unique_subscriptors begin to iterate.             *)
StartIteration(t) ==
    /\ \/ stage[t] = "deferred" /\ EnterStage(t, "counting")
       \/ stage[t] = "announced" /\ EnterStage(t, "listing")
    /\ seen' = [seen EXCEPT ![t] = subscriptors]
    /\ UNCHANGED <<loopVars, connectionVars, logged, current, knows>>

(* What an iteration may have found: an entry that was deleted on the way  *)
(* was reached before or not.                                              *)
Found(t) == {s \in SUBSET seen[t] : seen[t] \intersect subscriptors \subseteq s}

(* A length compared as in the close events.                               *)
EndCountingAboveZero(t) ==
    /\ stage[t] = "counting"
    /\ EnterStage(t, "counted")
    /\ \E s \in Found(t) :
          logged' = [logged EXCEPT ![t] = \E d \in s : user[d] = user[t[2]]]
    /\ seen' = [seen EXCEPT ![t] = {}]
    /\ UNCHANGED <<loopVars, connectionVars, current, knows>>

(* already_logged: more than one subscription of the user for the open     *)
(* events, which find their own, and more than none for the close events.  *)
EndCounting(t) ==
    /\ stage[t] = "counting"
    /\ EnterStage(t, "counted")
    /\ \E s \in Found(t) :
          logged' = [logged EXCEPT ![t] =
             Cardinality({d \in s : user[d] = user[t[2]]}) > IF t[1] = "open" THEN 1 ELSE 0]
    /\ seen' = [seen EXCEPT ![t] = {}]
    /\ UNCHANGED <<loopVars, connectionVars, current, knows>>

(* The event, unless the user has other connections or is invisible.       *)
Announce(t) ==
    /\ stage[t] = "counted"
    /\ EnterStage(t, IF t[1] = "open" THEN "announced" ELSE "done")
    /\ IF logged[t] \/ t[2] \in invisible
       THEN UNCHANGED loopVars
       ELSE Schedule([kind |-> "push", event |-> t[1], user |-> user[t[2]]])
    /\ logged' = [logged EXCEPT ![t] = @ /\ t[1] = "open"]
    /\ UNCHANGED <<connectionVars, seen, current, knows>>

(* unique_subscriptors keeps one entry of each user.                       *)
UsersOf(s) == {user[c] : c \in s}

UniqueOf(s) ==
    {one \in SUBSET s : UsersOf(one) = UsersOf(s) /\ Cardinality(one) = Cardinality(UsersOf(s))}

(* The users c is still to be sent; the task is over with the last one.   *)
WillSend(c, users) ==
    /\ current' = [current EXCEPT ![c] = users]
    /\ EnterStage(<<"open", c>>, IF users = {} THEN "done" ELSE "listed")

(* A list that forgets to look at :invisible.                              *)
EndListingOfAll(c) ==
    /\ stage[<<"open", c>>] = "listing"
    /\ \E s \in Found(<<"open", c>>) : \E one \in UniqueOf(s) :
          WillSend(c, UsersOf({k \in one : user[k] # user[c] \/ logged[<<"open", c>>]}))
    /\ seen' = [seen EXCEPT ![<<"open", c>>] = {}]
    /\ logged' = [logged EXCEPT ![<<"open", c>>] = FALSE]
    /\ UNCHANGED <<loopVars, connectionVars, knows>>

(* The others who are visible; everybody for a user who was logged in.     *)
EndListing(c) ==
    /\ stage[<<"open", c>>] = "listing"
    /\ \E s \in Found(<<"open", c>>) : \E one \in UniqueOf(s) :
          WillSend(c, UsersOf({k \in one : \/ user[k] # user[c] /\ k \notin invisible
                                           \/ logged[<<"open", c>>]}))
    /\ seen' = [seen EXCEPT ![<<"open", c>>] = {}]
    /\ logged' = [logged EXCEPT ![<<"open", c>>] = FALSE]
    /\ UNCHANGED <<loopVars, connectionVars, knows>>

(* send_to_client of one of them, past the connection's queue; on a        *)
(* WebSocket that is closing it raises, and the thread's task is over.     *)
SendCurrent(c) ==
    /\ stage[<<"open", c>>] = "listed"
    /\ \/ /\ c \in closing
          /\ WillSend(c, {})
          /\ UNCHANGED knows
       \/ /\ c \notin closing
          /\ \E u \in current[c] :
                /\ knows' = [knows EXCEPT ![c] = [@ EXCEPT ![u] = "there"]]
                /\ WillSend(c, current[c] \ {u})
    /\ UNCHANGED <<loopVars, connectionVars, seen, logged>>
-----------------------------------------------------------------------------
Thread(t) == StartIteration(t) \/ EndCounting(t) \/ Announce(t)

PresenceNext ==
    \/ \E c \in Connections :
          Login(c) \/ CloseFrame(c) \/ Unsubscribe(c) \/ EndListing(c) \/ SendCurrent(c)
    \/ \E t \in Tasks : Thread(t)
    \/ PresenceTick

PresenceSpec == PresenceInit /\ [][PresenceNext]_presenceVars
-----------------------------------------------------------------------------
Quiet == ticks = <<>> /\ \A t \in Tasks : stage[t] \in {"none", "done"}

(* No other connection of c's user has ever been in the table.             *)
Sole(c) ==
    \A d \in Connections : user[d] = user[c] /\ phase[d] \in {"subscribed", "departed"} => d = c

(* The others in the table that c must have been told of, and has not.     *)
Missed(c) ==
    {d \in subscriptors \ invisible : user[d] # user[c] /\ Sole(d) /\ knows[c][user[d]] # "there"}

(* Once the threads and the queue are done, whoever is subscribed has been *)
(* told of every other visible user who is there, by the list it was sent  *)
(* or by an open event, whatever came in between; only each closing        *)
(* WebSocket ahead of it can have cost it one of them, and never a second. *)
(* A user with several connections can be missed besides: each may take    *)
(* the other for an earlier one.                                           *)
NobodyMissed ==
    Quiet => \A c \in subscriptors \ closing :
        Cardinality(Missed(c)) <= Cardinality(ahead[c] \intersect stalled)

(* A user all of whose connections are invisible stays unseen.  Only a     *)
(* connection of a user who is logged in already is told more: the list    *)
(* is not filtered for it.                                                 *)
InvisibleUnseen ==
    \A c \in Connections, u \in Users :
        Sole(c) /\ (\A d \in Connections : user[d] = u => d \in invisible)
            => knows[c][u] = "nothing"

(* application.rb:91: the close events are sent to the channel's users.  A *)
(* close event may overtake the open event of the same connection, and the *)
(* list may be older than a close event: the user seems there for ever.    *)
NoGhosts ==
    Quiet => \A c \in Connections, u \in Users :
        c \in subscriptors /\ knows[c][u] = "there" => u \in UsersOf(subscriptors)
=============================================================================
