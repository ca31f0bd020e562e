------------------------------- MODULE Stats -------------------------------
(***************************************************************************)
(* stats.rb: the statistics that an application instance keeps in memory   *)
(* and pushes to mongo, by a periodic timer and when it is destroyed.  The *)
(* calls of the methods come from module Application's operations, here in *)
(* any order those allow: on_close may count a connection that is not      *)
(* counted as open yet, and an instance that was destroyed may be used on. *)
(***************************************************************************)
EXTENDS Integers, FiniteSets

CONSTANTS
    ChannelNames,   \* the channels messages are sent to
    MaxOpened,      \* bound on the connections that open
    MaxSent,        \* bound on the messages sent to a channel
    MaxListeners,   \* bound on the listeners a message is received by
    MaxChannels,    \* bound on the channels at one time
    MaxDrift,       \* bound on how far the current numbers fall below zero
    MaxInterrupted  \* bound on the pushes that end between their inserts

ASSUME BoundsAssumption ==
    /\ MaxOpened \in Nat /\ MaxSent \in Nat /\ MaxListeners \in Nat /\ MaxChannels \in Nat
    /\ MaxDrift \in Nat /\ MaxInterrupted \in Nat

VARIABLES
    registered,             \* whether the instance is in @@applications
    appInfo,                \* whether its @app_info is set
    push_timer,             \* "running", "cancelled", or "dead" after an error
    total_connections, current_connections, max_connections,
    current_channels, max_channels,
    current_messages,       \* channel -> [send, recv]
    stored,                 \* external: the sums of what mongo has
    lost,                   \* the sums of what was counted and then lost
    interrupted,            \* how many pushes ended between their two inserts
    opened, sent,           \* what there was to count: connections, messages
    connectionLevels,       \* the values of current_connections and
    channelLevels           \* current_channels since the counters were reset

counters == <<total_connections, current_connections, max_connections,
              current_channels, max_channels, current_messages>>
world == <<stored, lost, interrupted, opened, sent>>
levels == <<connectionLevels, channelLevels>>
vars == <<registered, appInfo, push_timer, counters, world, levels>>

Counts == [ChannelNames -> [send : Nat, recv : Nat]]
Sums == [conn : Nat, messages : Counts]

NoMessages == [c \in ChannelNames |-> [send |-> 0, recv |-> 0]]
Nothing == [conn |-> 0, messages |-> NoMessages]

(* The message counts of m and n together.                                 *)
Plus(m, n) == [c \in ChannelNames |->
                 [send |-> m[c].send + n[c].send, recv |-> m[c].recv + n[c].recv]]

Init ==
    /\ registered = FALSE /\ appInfo = FALSE /\ push_timer = "cancelled"
    /\ total_connections = 0 /\ current_connections = 0 /\ max_connections = 0
    /\ current_channels = 0 /\ max_channels = 0
    /\ current_messages = NoMessages
    /\ stored = Nothing /\ lost = Nothing /\ interrupted = 0
    /\ opened = 0 /\ sent = NoMessages
    /\ connectionLevels = {0} /\ channelLevels = {0}

-----------------------------------------------------------------------------
(* get_application: a new instance, its counters at zero (initialize_stats)*)
(* and its timer running.  What the last one had not pushed is lost.       *)
NewApplication ==
    /\ ~registered
    /\ registered' = TRUE /\ appInfo' = FALSE /\ push_timer' = "running"
    /\ total_connections' = 0 /\ current_connections' = 0 /\ max_connections' = 0
    /\ current_channels' = 0 /\ max_channels' = 0
    /\ current_messages' = NoMessages
    /\ lost' = [conn |-> lost.conn + total_connections,
                messages |-> Plus(lost.messages, current_messages)]
    /\ connectionLevels' = {0} /\ channelLevels' = {0}
    /\ UNCHANGED <<stored, interrupted, opened, sent>>

(* The login that sets @app_info; one that fails leaves all as it is.      *)
Login ==
    /\ registered /\ ~appInfo
    /\ appInfo' = TRUE
    /\ UNCHANGED <<registered, push_timer, counters, world, levels>>

(* Mutant: the maximum is compared before the connection is counted.       *)
stat_connection_openLate ==
    /\ appInfo /\ opened < MaxOpened
    /\ total_connections' = total_connections + 1
    /\ current_connections' = current_connections + 1
    /\ max_connections' = IF current_connections > max_connections
                          THEN current_connections ELSE max_connections
    /\ opened' = opened + 1
    /\ connectionLevels' = connectionLevels \cup {current_connections + 1}
    /\ UNCHANGED <<registered, appInfo, push_timer, current_channels, max_channels,
                   current_messages, stored, lost, interrupted, sent, channelLevels>>

stat_connection_open ==
    /\ appInfo /\ opened < MaxOpened
    /\ total_connections' = total_connections + 1
    /\ current_connections' = current_connections + 1
    /\ max_connections' = IF current_connections + 1 > max_connections
                          THEN current_connections + 1 ELSE max_connections
    /\ opened' = opened + 1
    /\ connectionLevels' = connectionLevels \cup {current_connections + 1}
    /\ UNCHANGED <<registered, appInfo, push_timer, current_channels, max_channels,
                   current_messages, stored, lost, interrupted, sent, channelLevels>>

(* Mutant: the connection is taken off both counts.                        *)
stat_connection_closeTotal ==
    /\ appInfo /\ current_connections > -MaxDrift
    /\ current_connections' = current_connections - 1
    /\ total_connections' = total_connections - 1
    /\ connectionLevels' = connectionLevels \cup {current_connections - 1}
    /\ UNCHANGED <<registered, appInfo, push_timer, max_connections,
                   current_channels, max_channels, current_messages, world, channelLevels>>

(* Once for each connection, at times before it is counted as open.        *)
stat_connection_close ==
    /\ appInfo /\ current_connections > -MaxDrift
    /\ current_connections' = current_connections - 1
    /\ connectionLevels' = connectionLevels \cup {current_connections - 1}
    /\ UNCHANGED <<registered, appInfo, push_timer, total_connections, max_connections,
                   current_channels, max_channels, current_messages, world, channelLevels>>

stat_channel_created ==
    /\ appInfo /\ current_channels < MaxChannels
    /\ current_channels' = current_channels + 1
    /\ max_channels' = IF current_channels + 1 > max_channels
                       THEN current_channels + 1 ELSE max_channels
    /\ channelLevels' = channelLevels \cup {current_channels + 1}
    /\ UNCHANGED <<registered, appInfo, push_timer, total_connections, current_connections,
                   max_connections, current_messages, world, connectionLevels>>

(* A channel may be cleaned up twice.                                      *)
stat_channel_destroyed ==
    /\ appInfo /\ current_channels > -MaxDrift
    /\ current_channels' = current_channels - 1
    /\ channelLevels' = channelLevels \cup {current_channels - 1}
    /\ UNCHANGED <<registered, appInfo, push_timer, total_connections, current_connections,
                   max_connections, max_channels, current_messages, world, connectionLevels>>

(* send_message_to_channel: stat_message_sended and stat_message_received. *)
stat_message(channel, count) ==
    /\ appInfo /\ sent[channel].send < MaxSent
    /\ LET more == [send |-> 1, recv |-> count]
       IN  /\ current_messages' =
                Plus(current_messages, [NoMessages EXCEPT ![channel] = more])
           /\ sent' = Plus(sent, [NoMessages EXCEPT ![channel] = more])
    /\ UNCHANGED <<registered, appInfo, push_timer, total_connections, current_connections,
                   max_connections, current_channels, max_channels,
                   stored, lost, interrupted, opened, levels>>

-----------------------------------------------------------------------------
(* What can become of an insert: mongo does not acknowledge it, and        *)
(* mongo_db may fail to connect again.                                     *)
Outcomes == {"stored", "lost", "raises"}

(* base_stats raises too while there is no @app_info.                      *)
PushRaises(conn, msg) == ~appInfo \/ conn = "raises" \/ msg = "raises"

(* Mutant: the message counters start again, the connections' do not.      *)
resetMessagesOnly ==
    /\ current_messages' = NoMessages
    /\ max_channels' = current_channels /\ max_connections' = current_connections
    /\ connectionLevels' = {current_connections} /\ channelLevels' = {current_channels}
    /\ UNCHANGED <<total_connections, current_connections, current_channels>>

reset ==
    /\ total_connections' = 0
    /\ current_messages' = NoMessages
    /\ max_channels' = current_channels /\ max_connections' = current_connections
    /\ connectionLevels' = {current_connections} /\ channelLevels' = {current_channels}
    /\ UNCHANGED <<current_connections, current_channels>>

(* Mutant: the reset before the inserts.                                   *)
push_statsAfterReset(conn, msg) ==
    /\ IF appInfo THEN reset ELSE UNCHANGED <<counters, levels>>
    /\ UNCHANGED world

(* Both inserts and the reset, as far as nothing raises.                   *)
push_stats(conn, msg) ==
    LET connDone == appInfo /\ conn # "raises"
        msgDone == connDone /\ msg # "raises"
        Add(sums, as) ==
            [conn |-> sums.conn + (IF connDone /\ conn = as THEN total_connections ELSE 0),
             messages |-> IF msgDone /\ msg = as THEN Plus(sums.messages, current_messages)
                          ELSE sums.messages]
    IN  /\ connDone /\ ~msgDone => interrupted < MaxInterrupted
        /\ stored' = Add(stored, "stored") /\ lost' = Add(lost, "lost")
        /\ interrupted' = interrupted + (IF connDone /\ ~msgDone THEN 1 ELSE 0)
        /\ IF msgDone THEN reset ELSE UNCHANGED <<counters, levels>>
        /\ UNCHANGED <<opened, sent>>

(* Mutant: a push that has no messages to store ends early.                *)
PushTimerFiresForMessages ==
    /\ push_timer = "running"
    /\ IF appInfo /\ current_messages = NoMessages THEN UNCHANGED vars
       ELSE \E conn, msg \in Outcomes :
               /\ push_stats(conn, msg)
               /\ push_timer' = IF PushRaises(conn, msg) THEN "dead" ELSE "running"
    /\ UNCHANGED <<registered, appInfo>>

(* The timer's block; an error that EM.error_handler logs keeps the timer  *)
(* from being set again.                                                   *)
PushTimerFires ==
    /\ push_timer = "running"
    /\ \E conn, msg \in Outcomes :
        /\ push_stats(conn, msg)
        /\ push_timer' = IF PushRaises(conn, msg) THEN "dead" ELSE "running"
    /\ UNCHANGED <<registered, appInfo>>

(* Application#destroy, again perhaps: stop_stats, and the application is  *)
(* deleted from the table unless the push raised.                          *)
Destroy ==
    /\ appInfo
    /\ push_timer' = "cancelled"
    /\ \E conn, msg \in Outcomes :
        /\ push_stats(conn, msg)
        /\ registered' = (registered /\ PushRaises(conn, msg))
    /\ UNCHANGED appInfo

Next ==
    \/ NewApplication
    \/ Login
    \/ stat_connection_open
    \/ stat_connection_close
    \/ stat_channel_created
    \/ stat_channel_destroyed
    \/ \E channel \in ChannelNames, count \in 0 .. MaxListeners : stat_message(channel, count)
    \/ PushTimerFires
    \/ Destroy

Spec == Init /\ [][Next]_vars

(* The timer fires every PUSH_STATS_FREC seconds.                          *)
FairSpec == Spec /\ WF_vars(PushTimerFires)

-----------------------------------------------------------------------------
TypeOK ==
    /\ registered \in BOOLEAN /\ appInfo \in BOOLEAN /\ interrupted \in Nat
    /\ push_timer \in {"running", "cancelled", "dead"}
    /\ total_connections \in Nat /\ opened \in Nat
    /\ current_connections \in Int /\ max_connections \in Int
    /\ current_channels \in Int /\ max_channels \in Int
    /\ connectionLevels \subseteq Int /\ channelLevels \subseteq Int
    /\ current_messages \in Counts /\ sent \in Counts
    /\ stored \in Sums /\ lost \in Sums

(* ConnectionsAccounted: each connection that was opened is in mongo, or   *)
(* still to be pushed, or known to be lost; and only a push that ended     *)
(* between its inserts makes any of them count twice.                      *)
ConnectionsAccounted ==
    /\ stored.conn + lost.conn + total_connections >= opened
    /\ interrupted = 0 => stored.conn + lost.conn + total_connections = opened

(* MessagesAccounted: the messages of a channel are counted exactly once,  *)
(* whatever becomes of the pushes: an interrupted one has not stored them. *)
MessagesAccounted ==
    sent = Plus(Plus(stored.messages, lost.messages), current_messages)

(* PeaksAreReal: the maxima to be pushed are the highest numbers there     *)
(* were since the counters were reset last, whatever closed before it was  *)
(* counted as open and whenever the pushes came.                           *)
PeaksAreReal ==
    /\ max_connections \in connectionLevels /\ \A n \in connectionLevels : n <= max_connections
    /\ max_channels \in channelLevels /\ \A n \in channelLevels : n <= max_channels

(* Pushed: a connection is in mongo at last, or the writes were lost, as   *)
(* long as the timer runs.                                                 *)
Pushed ==
    \A n \in 1 .. MaxOpened :
        opened >= n ~> (stored.conn + lost.conn >= n \/ push_timer # "running")

(* What constants.rb says of the timer: "How often stats are pushed to     *)
(* server".  An application that is in use goes on pushing.                *)
PushedAlways ==
    \A n \in 1 .. MaxOpened :
        opened >= n ~> (stored.conn + lost.conn >= n \/ ~registered)
=============================================================================
