----------------------------- MODULE StatsProofs -----------------------------
(***************************************************************************)
(* Proofs about module Stats: its counters account for every connection    *)
(* and message, and its maxima are real, whatever becomes of the pushes.   *)
(***************************************************************************)
EXTENDS Stats, TLAPS

(* Message counts are added channel by channel.                            *)
LEMMA NoMessagesTyped == NoMessages \in Counts
BY DEF NoMessages, Counts

LEMMA PlusTyped ==
    ASSUME NEW m \in Counts, NEW n \in Counts
    PROVE  Plus(m, n) \in Counts
BY DEF Plus, Counts

LEMMA PlusNothing ==
    ASSUME NEW m \in Counts
    PROVE  Plus(m, NoMessages) = m
BY DEF Plus, Counts, NoMessages

LEMMA PlusCommutes ==
    ASSUME NEW m \in Counts, NEW n \in Counts
    PROVE  Plus(m, n) = Plus(n, m)
BY DEF Plus, Counts

LEMMA PlusAssociates ==
    ASSUME NEW m \in Counts, NEW n \in Counts, NEW k \in Counts
    PROVE  Plus(Plus(m, n), k) = Plus(m, Plus(n, k))
BY DEF Plus, Counts

(* One message with its receivers.                                         *)
LEMMA MessageTyped ==
    ASSUME NEW channel \in ChannelNames, NEW count \in Nat
    PROVE  [NoMessages EXCEPT ![channel] = [send |-> 1, recv |-> count]] \in Counts
BY DEF NoMessages, Counts

-----------------------------------------------------------------------------
(* What push_stats makes of the sums: four cases, by how far it gets.      *)
NotPushed == UNCHANGED <<stored, lost, interrupted, counters, levels>>

HalfPushed ==
    /\ UNCHANGED <<counters, levels>>
    /\ stored'.messages = stored.messages /\ lost'.messages = lost.messages
    /\ interrupted' = interrupted + 1
    /\ \/ stored'.conn = stored.conn + total_connections /\ lost'.conn = lost.conn
       \/ stored'.conn = stored.conn /\ lost'.conn = lost.conn + total_connections

FullyPushed ==
    /\ reset
    /\ interrupted' = interrupted
    /\ \/ stored'.conn = stored.conn + total_connections /\ lost'.conn = lost.conn
       \/ stored'.conn = stored.conn /\ lost'.conn = lost.conn + total_connections
    /\ \/ /\ stored'.messages = Plus(stored.messages, current_messages)
          /\ lost'.messages = lost.messages
       \/ /\ stored'.messages = stored.messages
          /\ lost'.messages = Plus(lost.messages, current_messages)

LEMMA PushCases ==
    ASSUME TypeOK, NEW conn \in Outcomes, NEW msg \in Outcomes, push_stats(conn, msg)
    PROVE  /\ stored' \in Sums /\ lost' \in Sums
           /\ NotPushed \/ HalfPushed \/ FullyPushed
           /\ UNCHANGED <<opened, sent>>
<1> DEFINE connDone == appInfo /\ conn # "raises"
           msgDone == connDone /\ msg # "raises"
           After(sums, as) ==
             [conn |-> sums.conn + (IF connDone /\ conn = as THEN total_connections ELSE 0),
              messages |-> IF msgDone /\ msg = as THEN Plus(sums.messages, current_messages)
                           ELSE sums.messages]
<1>1. /\ stored \in Sums /\ lost \in Sums /\ current_messages \in Counts
      /\ total_connections \in Nat
  BY DEF TypeOK
<1>2. /\ stored' = After(stored, "stored") /\ lost' = After(lost, "lost")
      /\ interrupted' = interrupted + (IF connDone /\ ~msgDone THEN 1 ELSE 0)
      /\ IF msgDone THEN reset ELSE UNCHANGED <<counters, levels>>
      /\ UNCHANGED <<opened, sent>>
  BY DEF push_stats
<1>3. ASSUME NEW sums \in Sums, NEW as
      PROVE  After(sums, as) \in Sums
  <2>1. Plus(sums.messages, current_messages) \in Counts
    BY <1>1, <1>3, PlusTyped DEF Sums
  <2>2. After(sums, as).conn \in Nat
    <3>1. \/ After(sums, as).conn = sums.conn + total_connections
          \/ After(sums, as).conn = sums.conn + 0
      OBVIOUS
    <3>2. sums.conn \in Nat
      BY <1>3 DEF Sums
    <3>3. total_connections \in Nat
      BY <1>1
    <3>4. sums.conn + total_connections \in Nat /\ sums.conn + 0 \in Nat
      BY <3>2, <3>3
    <3> QED
      BY <3>1, <3>4
  <2>3. After(sums, as).messages \in Counts
    BY <1>3, <2>1 DEF Sums
  <2> QED
    BY <2>2, <2>3 DEF Sums
<1>4. stored' \in Sums /\ lost' \in Sums
  BY <1>1, <1>2, <1>3
<1>5. CASE ~connDone
  <2>1. After(stored, "stored") = stored /\ After(lost, "lost") = lost
    BY <1>1, <1>5 DEF Sums
  <2>2. interrupted' = interrupted
    BY <1>2, <1>5 DEF TypeOK
  <2> QED
    BY <1>2, <1>4, <1>5, <2>1, <2>2 DEF NotPushed
<1>6. CASE connDone /\ ~msgDone
  <2>1. conn \in {"stored", "lost"}
    BY <1>6 DEF Outcomes
  <2> QED
    BY <1>1, <1>2, <1>4, <1>6, <2>1 DEF HalfPushed, Sums
<1>7. CASE msgDone
  <2>1. conn \in {"stored", "lost"} /\ msg \in {"stored", "lost"}
    BY <1>7 DEF Outcomes
  <2>2. interrupted' = interrupted
    BY <1>2, <1>7 DEF TypeOK
  <2>3. \/ stored'.conn = stored.conn + total_connections /\ lost'.conn = lost.conn
        \/ stored'.conn = stored.conn /\ lost'.conn = lost.conn + total_connections
    BY <1>1, <1>2, <1>7, <2>1 DEF Sums
  <2>4. \/ /\ stored'.messages = Plus(stored.messages, current_messages)
           /\ lost'.messages = lost.messages
        \/ /\ stored'.messages = stored.messages
           /\ lost'.messages = Plus(lost.messages, current_messages)
    BY <1>1, <1>2, <1>7, <2>1
  <2> QED
    BY <1>2, <1>4, <1>7, <2>2, <2>3, <2>4 DEF FullyPushed
<1> QED
  BY <1>2, <1>5, <1>6, <1>7, <1>4

-----------------------------------------------------------------------------
(***************************************************************************)
(* Types                                                                   *)
(***************************************************************************)

(* A push, of the timer or of destroy, leaves the types alone.             *)
LEMMA PushTyped ==
    ASSUME TypeOK, NEW conn \in Outcomes, NEW msg \in Outcomes, push_stats(conn, msg),
           registered' \in BOOLEAN, appInfo' \in BOOLEAN,
           push_timer' \in {"running", "cancelled", "dead"}
    PROVE  TypeOK'
<1>1. /\ stored' \in Sums /\ lost' \in Sums
      /\ NotPushed \/ HalfPushed \/ FullyPushed
      /\ UNCHANGED <<opened, sent>>
  BY PushCases
<1>2. NotPushed => TypeOK'
  BY <1>1 DEF TypeOK, NotPushed, counters, levels
<1>3. HalfPushed => TypeOK'
  BY <1>1 DEF TypeOK, HalfPushed, counters, levels
<1>4. FullyPushed => TypeOK'
  BY <1>1, NoMessagesTyped DEF TypeOK, FullyPushed, reset
<1> QED
  BY <1>1, <1>2, <1>3, <1>4

LEMMA TypeStep == TypeOK /\ [Next]_vars => TypeOK'
<1> SUFFICES ASSUME TypeOK, [Next]_vars PROVE TypeOK'
  OBVIOUS
<1>1. CASE NewApplication
  <2>1. Plus(lost.messages, current_messages) \in Counts
    BY PlusTyped DEF TypeOK, Sums
  <2>2. lost' \in Sums
    BY <1>1, <2>1 DEF NewApplication, TypeOK, Sums
  <2>3. registered' \in BOOLEAN /\ appInfo' \in BOOLEAN
    BY <1>1 DEF NewApplication
  <2> QED
    BY <1>1, <2>2, <2>3, NoMessagesTyped DEF NewApplication, TypeOK
<1>2. CASE Login
  BY <1>2 DEF Login, TypeOK, counters, world, levels
<1>3. CASE stat_connection_open
  BY <1>3 DEF stat_connection_open, TypeOK
<1>4. CASE stat_connection_close
  BY <1>4 DEF stat_connection_close, TypeOK, world
<1>5. CASE stat_channel_created
  BY <1>5 DEF stat_channel_created, TypeOK, world
<1>6. CASE stat_channel_destroyed
  BY <1>6 DEF stat_channel_destroyed, TypeOK, world
<1>7. ASSUME NEW channel \in ChannelNames, NEW count \in 0 .. MaxListeners,
             stat_message(channel, count)
      PROVE  TypeOK'
  <2> DEFINE more == [NoMessages EXCEPT ![channel] = [send |-> 1, recv |-> count]]
  <2>1. count \in Nat
    BY BoundsAssumption
  <2>2. more \in Counts
    BY <2>1, MessageTyped
  <2>3. Plus(current_messages, more) \in Counts /\ Plus(sent, more) \in Counts
    BY <2>2, PlusTyped DEF TypeOK
  <2> HIDE DEF more
  <2>4. current_messages' = Plus(current_messages, more) /\ sent' = Plus(sent, more)
    BY <1>7 DEF stat_message, more
  <2> QED
    BY <1>7, <2>3, <2>4 DEF stat_message, TypeOK, levels
<1>8. CASE PushTimerFires
  <2>1. PICK conn \in Outcomes, msg \in Outcomes : push_stats(conn, msg)
    BY <1>8 DEF PushTimerFires
  <2> QED
    BY <1>8, <2>1, PushTyped DEF PushTimerFires, TypeOK
<1>9. CASE Destroy
  <2>1. PICK conn \in Outcomes, msg \in Outcomes :
          push_stats(conn, msg) /\ registered' = (registered /\ PushRaises(conn, msg))
    BY <1>9 DEF Destroy
  <2> QED
    BY <1>9, <2>1, PushTyped DEF Destroy, TypeOK
<1>10. CASE UNCHANGED vars
  BY <1>10 DEF vars, TypeOK, counters, world, levels
<1> QED
  BY <1>1, <1>2, <1>3, <1>4, <1>5, <1>6, <1>7, <1>8, <1>9, <1>10 DEF Next

(* TypeCorrect: the statistics have their types at all times.              *)
THEOREM TypeCorrect == Spec => []TypeOK
<1>1. Init => TypeOK
  <2>1. Init => registered \in BOOLEAN /\ appInfo \in BOOLEAN
    BY DEF Init
  <2>2. Init => stored \in Sums /\ lost \in Sums
    BY NoMessagesTyped DEF Init, Nothing, Sums
  <2> QED
    BY <2>1, <2>2, NoMessagesTyped DEF Init, TypeOK
<1> QED
  BY <1>1, TypeStep, PTL DEF Spec

-----------------------------------------------------------------------------
(***************************************************************************)
(* Accounts                                                                *)
(***************************************************************************)

(* ConnectionsNeverForgotten: every connection that was opened has been    *)
(* pushed, waits to be pushed or went with a lost write, and is counted    *)
(* once as long as no push was interrupted.                                *)
THEOREM ConnectionsNeverForgotten == Spec => []ConnectionsAccounted
<1>1. Init => ConnectionsAccounted
  BY DEF Init, ConnectionsAccounted, Nothing
<1>2. TypeOK /\ ConnectionsAccounted /\ [Next]_vars => ConnectionsAccounted'
  <2> SUFFICES ASSUME TypeOK, ConnectionsAccounted, [Next]_vars
               PROVE  ConnectionsAccounted'
    OBVIOUS
  <2>1. ASSUME NEW conn \in Outcomes, NEW msg \in Outcomes, push_stats(conn, msg)
        PROVE  ConnectionsAccounted'
    <3>1. NotPushed \/ HalfPushed \/ FullyPushed
      BY <2>1, PushCases
    <3>2. UNCHANGED opened
      BY <2>1, PushCases
    <3> QED
      BY <3>1, <3>2 DEF NotPushed, HalfPushed, FullyPushed, reset, counters,
                        ConnectionsAccounted, TypeOK, Sums
  <2>2. CASE NewApplication
    BY <2>2 DEF NewApplication, ConnectionsAccounted, TypeOK, Sums
  <2>3. CASE stat_connection_open
    BY <2>3 DEF stat_connection_open, ConnectionsAccounted, TypeOK, Sums
  <2>4. CASE PushTimerFires \/ Destroy
    BY <2>1, <2>4 DEF PushTimerFires, Destroy
  <2>5. CASE \/ Login \/ stat_connection_close
             \/ stat_channel_created \/ stat_channel_destroyed
             \/ \E channel \in ChannelNames, count \in 0 .. MaxListeners :
                  stat_message(channel, count)
             \/ UNCHANGED vars
    BY <2>5 DEF Login, stat_connection_close, stat_channel_created, stat_channel_destroyed,
                stat_message, vars, counters, world, ConnectionsAccounted
  <2> QED
    BY <2>2, <2>3, <2>4, <2>5 DEF Next
<1> QED
  BY <1>1, <1>2, TypeCorrect, PTL DEF Spec

(* MessagesCountedOnce: every message and every receiver of it is counted  *)
(* exactly once in what was pushed, what waits and what was lost.          *)
THEOREM MessagesCountedOnce == Spec => []MessagesAccounted
<1>1. Init => MessagesAccounted
  <2>1. Plus(Plus(NoMessages, NoMessages), NoMessages) = NoMessages
    BY NoMessagesTyped, PlusNothing
  <2> QED
    BY <2>1 DEF Init, MessagesAccounted, Nothing
<1>2. TypeOK /\ MessagesAccounted /\ [Next]_vars => MessagesAccounted'
  <2> SUFFICES ASSUME TypeOK, MessagesAccounted, [Next]_vars
               PROVE  MessagesAccounted'
    OBVIOUS
  <2> DEFINE s == stored.messages  l == lost.messages  c == current_messages
  <2>1. s \in Counts /\ l \in Counts /\ c \in Counts /\ sent \in Counts
    BY DEF TypeOK, Sums
  <2>2. sent = Plus(Plus(s, l), c)
    BY DEF MessagesAccounted
  <2>3. Plus(Plus(s, l), c) = Plus(Plus(s, Plus(l, c)), NoMessages)
    <3>1. Plus(l, c) \in Counts
      BY <2>1, PlusTyped
    <3>2. Plus(s, Plus(l, c)) \in Counts
      BY <2>1, <3>1, PlusTyped
    <3>3. Plus(Plus(s, l), c) = Plus(s, Plus(l, c))
      BY <2>1, PlusAssociates
    <3> QED
      BY <3>2, <3>3, PlusNothing
  <2>4. Plus(Plus(s, l), c) = Plus(Plus(Plus(s, c), l), NoMessages)
    <3>1. Plus(Plus(s, l), c) = Plus(s, Plus(c, l))
      BY <2>1, PlusAssociates, PlusCommutes
    <3>2. Plus(s, Plus(c, l)) = Plus(Plus(s, c), l)
      BY <2>1, PlusAssociates
    <3>3. Plus(Plus(s, c), l) \in Counts
      BY <2>1, PlusTyped
    <3> QED
      BY <3>1, <3>2, <3>3, PlusNothing
  <2>5. ASSUME NEW conn \in Outcomes, NEW msg \in Outcomes, push_stats(conn, msg)
        PROVE  MessagesAccounted'
    <3>1. NotPushed \/ HalfPushed \/ FullyPushed
      BY <2>5, PushCases
    <3>2. UNCHANGED sent
      BY <2>5, PushCases
    <3>3. NotPushed \/ HalfPushed => MessagesAccounted'
      BY <3>2 DEF NotPushed, HalfPushed, counters, MessagesAccounted
    <3>4. FullyPushed => MessagesAccounted'
      BY <2>2, <2>3, <2>4, <3>2 DEF FullyPushed, reset, MessagesAccounted
    <3> QED
      BY <3>1, <3>3, <3>4
  <2>6. CASE NewApplication
    BY <2>2, <2>3, <2>6 DEF NewApplication, MessagesAccounted
  <2>7. ASSUME NEW channel \in ChannelNames, NEW count \in 0 .. MaxListeners,
               stat_message(channel, count)
        PROVE  MessagesAccounted'
    <3> DEFINE more == [NoMessages EXCEPT ![channel] = [send |-> 1, recv |-> count]]
    <3>1. more \in Counts
      BY BoundsAssumption, MessageTyped
    <3>2. /\ current_messages' = Plus(c, more) /\ sent' = Plus(sent, more)
          /\ UNCHANGED <<stored, lost>>
      BY <2>7 DEF stat_message
    <3> HIDE DEF more
    <3>3. Plus(s, l) \in Counts
      BY <2>1, PlusTyped
    <3>4. Plus(Plus(Plus(s, l), c), more) = Plus(Plus(s, l), Plus(c, more))
      BY <2>1, <3>1, <3>3, PlusAssociates
    <3> QED
      BY <2>2, <3>2, <3>4 DEF MessagesAccounted
  <2>8. CASE PushTimerFires \/ Destroy
    BY <2>5, <2>8 DEF PushTimerFires, Destroy
  <2>9. CASE \/ Login \/ stat_connection_open \/ stat_connection_close
             \/ stat_channel_created \/ stat_channel_destroyed \/ UNCHANGED vars
    BY <2>9 DEF Login, stat_connection_open, stat_connection_close, stat_channel_created,
                stat_channel_destroyed, vars, counters, world, MessagesAccounted
  <2> QED
    BY <2>6, <2>7, <2>8, <2>9 DEF Next
<1> QED
  BY <1>1, <1>2, TypeCorrect, PTL DEF Spec

-----------------------------------------------------------------------------
(***************************************************************************)
(* Peaks                                                                   *)
(***************************************************************************)

(* The number there is now is one of those there were, so a close cannot   *)
(* take a maximum away.                                                    *)
CurrentIsALevel ==
    current_connections \in connectionLevels /\ current_channels \in channelLevels

PeaksInv == PeaksAreReal /\ CurrentIsALevel

(* PeaksNeverWrong: a maximum is a number that was reached since the       *)
(* counters were reset, and none was higher.                               *)
THEOREM PeaksNeverWrong == Spec => []PeaksAreReal
<1>1. Init => PeaksInv
  BY DEF Init, PeaksInv, PeaksAreReal, CurrentIsALevel
<1>2. TypeOK /\ PeaksInv /\ [Next]_vars => PeaksInv'
  <2> SUFFICES ASSUME TypeOK, PeaksInv, [Next]_vars
               PROVE  PeaksInv'
    OBVIOUS
  <2> USE DEF PeaksInv, PeaksAreReal, CurrentIsALevel
  <2>1. ASSUME NEW conn \in Outcomes, NEW msg \in Outcomes, push_stats(conn, msg)
        PROVE  PeaksInv'
    <3>1. NotPushed \/ HalfPushed \/ FullyPushed
      BY <2>1, PushCases
    <3>2. NotPushed \/ HalfPushed => PeaksInv'
      BY DEF NotPushed, HalfPushed, counters, levels
    <3>3. FullyPushed => PeaksInv'
      BY DEF FullyPushed, reset, TypeOK
    <3> QED
      BY <3>1, <3>2, <3>3
  <2>2. CASE NewApplication
    BY <2>2 DEF NewApplication
  <2>3. CASE stat_connection_open
    BY <2>3 DEF stat_connection_open, TypeOK
  <2>4. CASE stat_connection_close
    BY <2>4 DEF stat_connection_close, TypeOK
  <2>5. CASE stat_channel_created
    BY <2>5 DEF stat_channel_created, TypeOK
  <2>6. CASE stat_channel_destroyed
    BY <2>6 DEF stat_channel_destroyed, TypeOK
  <2>7. CASE PushTimerFires \/ Destroy
    BY <2>1, <2>7 DEF PushTimerFires, Destroy
  <2>8. CASE \/ Login
             \/ \E channel \in ChannelNames, count \in 0 .. MaxListeners :
                  stat_message(channel, count)
             \/ UNCHANGED vars
    BY <2>8 DEF Login, stat_message, vars, counters, levels
  <2> QED
    BY <2>2, <2>3, <2>4, <2>5, <2>6, <2>7, <2>8 DEF Next
<1>3. PeaksInv => PeaksAreReal
  BY DEF PeaksInv
<1> QED
  BY <1>1, <1>2, <1>3, TypeCorrect, PTL DEF Spec
=============================================================================
