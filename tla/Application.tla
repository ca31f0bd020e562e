---------------------------- MODULE Application ----------------------------
(***************************************************************************)
(* application.rb with the counters of stats.rb that its operations move:  *)
(* the global table of applications, the channels of each application, and *)
(* the push timer.  An application instance is named by the endpoint whose *)
(* request created it.  Every operator is one method and runs inside one   *)
(* reactor step; it leaves the endpoints (module Broker) alone.  The       *)
(* applications modelled here do not have presence enabled, so subscribe   *)
(* and unsubscribe do not reach EM.defer.                                  *)
(***************************************************************************)
EXTENDS Channel, EventLoop, Integers

CONSTANTS
    ApiIds,         \* the api ids clients send as auth_key
    ChannelNames    \* the channel names clients ask for

VARIABLES
    applications,       \* @@applications: api id -> application or Nil
    channels,           \* application -> channel name -> channel or Nil
    appInfo,            \* the applications whose @app_info is set
    timers,             \* the applications whose @push_timer is running
    currentConnections, \* application -> @current_connections
    currentChannels,    \* application -> @current_channels
    undestroyed         \* a history variable: the applications that have no
                        \* channel and whose last destroy raised

appVars == <<applications, channels, appInfo, timers, currentConnections,
             currentChannels, undestroyed>>

AppTypeOK ==
    /\ applications \in [ApiIds -> Endpoints \union {Nil}]
    /\ channels \in [Endpoints -> [ChannelNames -> Endpoints \union {Nil}]]
    /\ appInfo \subseteq Endpoints
    /\ timers \subseteq Endpoints
    /\ currentConnections \in [Endpoints -> Int]
    /\ currentChannels \in [Endpoints -> Int]
    /\ undestroyed \subseteq Endpoints

AppInit ==
    /\ applications = [api \in ApiIds |-> Nil]
    /\ channels = [a \in Endpoints |-> [name \in ChannelNames |-> Nil]]
    /\ appInfo = {}
    /\ timers = {}
    /\ currentConnections = [a \in Endpoints |-> 0]
    /\ currentChannels = [a \in Endpoints |-> 0]
    /\ undestroyed = {}

ChannelsOf(a) == {name \in ChannelNames : channels[a][name] # Nil}

(* A channel object is registered while its application can look it up.    *)
Registered(a, ch) == ch # Nil /\ \E name \in ChannelNames : channels[a][name] = ch

(* A process that keeps using the one instance it has, whatever the api id. *)
GetAnyApplication(api, e) ==
    LET loaded == {applications[id] : id \in ApiIds} \ {Nil}
    IN  IF loaded = {} THEN e ELSE CHOOSE a \in loaded : TRUE

(* The instance get_application returns to endpoint e.                     *)
GetApplication(api, e) == IF applications[api] = Nil THEN e ELSE applications[api]

(* get_application: register the instance it returns; a new one starts its *)
(* push timer (Application.new, initialize_stats).                         *)
LoadApplication(api, e) ==
    /\ applications' = [applications EXCEPT ![api] = GetApplication(api, e)]
    /\ timers' = timers \union (IF applications[api] = Nil THEN {e} ELSE {})
    /\ UNCHANGED <<channels, appInfo, currentConnections, currentChannels, undestroyed>>

(* Application#app_info= that loses the record.                            *)
ForgetAppInfo(a) == a \in Endpoints /\ UNCHANGED appVars

(* Application#app_info=                                                   *)
SetAppInfo(a) ==
    /\ appInfo' = appInfo \union {a}
    /\ UNCHANGED <<applications, channels, timers, currentConnections,
                   currentChannels, undestroyed>>

(* connection.rb calls stat_connection_open and then subscribe.  A channel *)
(* that is not there is created, and named by e.                           *)
GetChannel(a, e, name) == IF channels[a][name] = Nil THEN e ELSE channels[a][name]

(* A subscribe that counts the channel whether it is new or not.           *)
OpenAndSubscribeCounting(a, e, name) ==
    /\ currentConnections' = [currentConnections EXCEPT ![a] = @ + 1]
    /\ channels' = [channels EXCEPT ![a][name] = GetChannel(a, e, name)]
    /\ currentChannels' = [currentChannels EXCEPT ![a] = @ + 1]
    /\ ChannelSubscribe(GetChannel(a, e, name), e)
    /\ undestroyed' = undestroyed \ {a}
    /\ UNCHANGED <<applications, appInfo, timers>>

OpenAndSubscribe(a, e, name) ==
    /\ currentConnections' = [currentConnections EXCEPT ![a] = @ + 1]
    /\ channels' = [channels EXCEPT ![a][name] = GetChannel(a, e, name)]
    /\ currentChannels' =
          [currentChannels EXCEPT ![a] = @ + (IF channels[a][name] = Nil THEN 1 ELSE 0)]
    /\ ChannelSubscribe(GetChannel(a, e, name), e)
    /\ undestroyed' = undestroyed \ {a}
    /\ UNCHANGED <<applications, appInfo, timers>>
-----------------------------------------------------------------------------
(* stat_connection_close that never takes the connection off the count.    *)
StatConnectionStays(a) == a \in Endpoints /\ UNCHANGED appVars

StatConnectionClose(a) ==
    /\ currentConnections' = [currentConnections EXCEPT ![a] = @ - 1]
    /\ UNCHANGED <<applications, channels, appInfo, timers, currentChannels, undestroyed>>

(* A cleanup that is given the name of the channel for the channel.        *)
CleanupJobByName(a, name, ch) ==
    [kind |-> "cleanup", app |-> a, name |-> name, channel |-> name]

(* The job that unsubscribe queues, with the objects its block captured.   *)
CleanupJob(a, name, ch) ==
    [kind |-> "cleanup", app |-> a, name |-> name, channel |-> ch]

(* unsubscribe that waits for the channel to be empty to schedule cleanup. *)
UnsubscribeSilently(a, name, id) ==
    IF channels[a][name] # Nil
    THEN ChannelUnsubscribe(channels[a][name], id) /\ UNCHANGED loopVars
    ELSE UNCHANGED <<subscriptors, loopVars>>

(* unsubscribe of the current object of that name, whichever it is.        *)
Unsubscribe(a, name, id) ==
    IF channels[a][name] # Nil
    THEN /\ ChannelUnsubscribe(channels[a][name], id)
         /\ Schedule(CleanupJob(a, name, channels[a][name]))
    ELSE UNCHANGED <<subscriptors, loopVars>>
-----------------------------------------------------------------------------
(* cleanup_after_unsubscribe that forgets the application.                 *)
CleanupKeepsApplication(a, api, name, ch, raised) ==
    /\ api \in ApiIds /\ ~ raised
    /\ IF Listeners(ch) # {}
       THEN UNCHANGED <<channels, currentChannels>>
       ELSE /\ channels' = [channels EXCEPT ![a][name] = Nil]
            /\ currentChannels' = [currentChannels EXCEPT ![a] = @ - 1]
    /\ UNCHANGED <<applications, timers, appInfo, currentConnections, undestroyed>>

(* destroy: stop_stats cancels the timer and pushes, and then whatever is  *)
(* registered under the api id is deleted.  The push needs @app_info       *)
(* (module Broker, AppInfoBeforeUse) and raises while mongo_db connects    *)
(* again (module Stats): the table is not reached then.                    *)
Destroy(a, api, raised) ==
    /\ timers' = timers \ {a}
    /\ IF raised
       THEN undestroyed' = undestroyed \union {a} /\ UNCHANGED applications
       ELSE /\ applications' = [applications EXCEPT ![api] = Nil]
            /\ undestroyed' = undestroyed \ {a}

(* cleanup_after_unsubscribe: the channel is deleted by its name, and with *)
(* its last channel the application goes too, unless destroy raised.       *)
CleanupAfterUnsubscribe(a, api, name, ch, raised) ==
    /\ IF Listeners(ch) # {}
       THEN UNCHANGED <<channels, currentChannels>>
       ELSE /\ channels' = [channels EXCEPT ![a][name] = Nil]
            /\ currentChannels' = [currentChannels EXCEPT ![a] = @ - 1]
    /\ IF Listeners(ch) = {} /\ ChannelsOf(a) \subseteq {name}
       THEN Destroy(a, api, raised)
       ELSE ~ raised /\ UNCHANGED <<applications, timers, undestroyed>>
    /\ UNCHANGED <<appInfo, currentConnections>>
-----------------------------------------------------------------------------
(* The push timer fires: push_stats resets the counters (module Stats) and *)
(* the timer goes on, or it raises, because @app_info is nil or mongo_db   *)
(* connects again: a PeriodicTimer only schedules its next run after its   *)
(* block returned.                                                         *)
PushTimer(a) ==
    /\ a \in timers
    /\ \/ a \in appInfo /\ UNCHANGED timers
       \/ timers' = timers \ {a}
    /\ UNCHANGED <<applications, channels, appInfo, currentConnections,
                   currentChannels, undestroyed>>
=============================================================================
