---------------------------- MODULE BrokerProofs ----------------------------
(***************************************************************************)
(* Proofs about Broker for every set of endpoints, api ids and channel     *)
(* names and every bound on the messages.                                  *)
(***************************************************************************)
EXTENDS BrokerPubSub, SequenceFacts, FiniteSetTheorems

-----------------------------------------------------------------------------
(* Removing the entry at one place keeps the sequence and the others.      *)
LEMMA EraseFacts ==
    ASSUME NEW S, NEW s \in Seq(S), NEW nil \in S, NEW id,
           NEW t, t = [i \in DOMAIN s |-> IF i = id THEN nil ELSE s[i]]
    PROVE  /\ t \in Seq(S)
           /\ DOMAIN t = DOMAIN s
           /\ \A i \in DOMAIN s : t[i] = IF i = id THEN nil ELSE s[i]
  OBVIOUS

-----------------------------------------------------------------------------
IInv == TypeOK /\ StructureOK

(* The constants' assumptions, in the form the proofs use them.            *)
LEMMA ConstantFacts ==
    /\ Nil \notin Endpoints /\ Nil \notin ChannelNames
    /\ MaxMessages \in Nat
    /\ EventSources \subseteq Subscribers /\ WebSockets \subseteq Subscribers
    /\ Subscribers \subseteq Endpoints
    /\ Subscribers \intersect Senders = {}
  BY NilAssumption, NameAssumption, MaxMessagesAssumption, EndpointsAssumption
     DEF Subscribers

(* The reactor takes a prepare, a cleanup or a publish job of the right    *)
(* type; a prepare job is for an accepted subscriber.                      *)
LEMMA TickCases ==
    ASSUME IInv, Tick
    PROVE  /\ ticks # <<>>
           /\ \/ \E e \in Subscribers :
                    Head(ticks) = PrepareJob(e) /\ Prepare(e) /\ phase[e] = "accepted"
              \/ \E a \in Endpoints, name \in ChannelNames, ch \in Endpoints :
                    /\ Head(ticks) = CleanupJob(a, name, ch)
                    /\ Cleanup(CleanupJob(a, name, ch))
              \/ \E e \in Endpoints, m \in Messages :
                    /\ Head(ticks) = PublishJob(e, m) /\ Publish(e, m)
                    /\ phase[e] # "idle" /\ m.from = e
<1>1. ticks # <<>> /\ ticks \in Seq(Jobs)
  BY DEF IInv, TypeOK, Tick
<1>2. Head(ticks) \in Jobs /\ Head(ticks) = ticks[1] /\ 1 \in DOMAIN ticks
  BY <1>1, TailFacts
<1>3. CASE Head(ticks) \in [kind : {"prepare"}, endpoint : Subscribers]
  <2>1. PICK e \in Subscribers : Head(ticks) = PrepareJob(e)
    BY <1>3 DEF PrepareJob
  <2>2. phase[e] = "accepted"
    BY <1>2, <2>1 DEF IInv, StructureOK, JobsOK, PrepareJob
  <2>3. Prepare(e)
    BY <2>1 DEF Tick, PrepareJob
  <2> QED BY <1>1, <2>1, <2>2, <2>3
<1>4. CASE Head(ticks) \in [kind : {"cleanup"}, app : Endpoints, name : ChannelNames,
                            channel : Endpoints]
  <2>1. PICK a \in Endpoints, name \in ChannelNames, ch \in Endpoints :
            Head(ticks) = CleanupJob(a, name, ch)
    BY <1>4 DEF CleanupJob
  <2>2. Cleanup(CleanupJob(a, name, ch))
    BY <2>1 DEF Tick, CleanupJob
  <2> QED BY <1>1, <2>1, <2>2
<1>5. CASE Head(ticks) \in [kind : {"publish"}, endpoint : Endpoints, message : Messages]
  <2>1. PICK e \in Endpoints, m \in Messages : Head(ticks) = PublishJob(e, m)
    BY <1>5 DEF PublishJob
  <2>2. phase[e] # "idle" /\ m.from = e
    BY <1>2, <2>1 DEF IInv, StructureOK, JobsOK, PublishJob
  <2>3. Publish(e, m)
    BY <2>1 DEF Tick, PublishJob
  <2> QED BY <1>1, <2>1, <2>2, <2>3
<1> QED BY <1>2, <1>3, <1>4, <1>5 DEF Jobs

-----------------------------------------------------------------------------
(* Typing, one operation of the components at a time.                      *)

(* EM.next_tick keeps the queue a queue of jobs and the batch within it.   *)
LEMMA ScheduleType ==
    ASSUME ticks \in Seq(Jobs), left \in Nat, left <= Len(ticks),
           NEW job \in Jobs, Schedule(job)
    PROVE  (ticks \in Seq(Jobs) /\ left \in Nat /\ left <= Len(ticks))'
  BY AppendFacts DEF Schedule

(* So does the reactor.                                                    *)
LEMMA TakeTickType ==
    ASSUME ticks \in Seq(Jobs), left \in Nat, left <= Len(ticks),
           NEW raised, TakeTick(raised)
    PROVE  (ticks \in Seq(Jobs) /\ left \in Nat /\ left <= Len(ticks))'
<1>1. ticks # <<>> /\ ticks' = Tail(ticks)
  BY DEF TakeTick
<1>2. /\ Tail(ticks) \in Seq(Jobs) /\ Len(Tail(ticks)) = Len(ticks) - 1
      /\ Len(ticks) \in Nat /\ Len(ticks) > 0
  BY <1>1, TailFacts
<1>3. left' \in {0, Len(ticks) - 1} \/ (left # 0 /\ left' = left - 1)
  BY DEF TakeTick
<1> QED BY <1>1, <1>2, <1>3

(* The message prepare_send_request makes is a message, its id in bounds.  *)
LEMMA PrepareSendRequestType ==
    ASSUME TypeOK, NEW e \in Endpoints, PrepareSendRequest(e)
    PROVE  /\ NewMessage(e) \in Messages
           /\ Schedule(PublishJob(e, NewMessage(e)))
           /\ PublishJob(e, NewMessage(e)) \in Jobs
           /\ nextMessageId' \in 1 .. (MaxMessages + 1)
<1>1. nextMessageId \in 1 .. MaxMessages
  BY MaxMessagesAssumption DEF PrepareSendRequest, TypeOK
<1>2. nextMessageId + 1 \in 2 .. (MaxMessages + 1)
  BY <1>1, MaxMessagesAssumption
<1>3. ConnectionChannel(e) \in ChannelNames \union {Nil}
  BY DEF ConnectionChannel, TypeOK
<1>4. NewMessage(e) \in Messages
  BY <1>2, <1>3 DEF NewMessage, Messages
<1>5. PublishJob(e, NewMessage(e)) \in Jobs
  BY <1>4 DEF PublishJob, Jobs
<1> QED BY <1>1, <1>2, <1>4, <1>5, MaxMessagesAssumption DEF PrepareSendRequest

(* Subscribing keeps the table of subscriptions a table of sequences.      *)
LEMMA ChannelSubscribeType ==
    ASSUME ChannelTypeOK, NEW ch \in Endpoints, NEW e \in Endpoints, ChannelSubscribe(ch, e)
    PROVE  ChannelTypeOK' /\ NextSubscriptionId(ch) \in Nat
<1>1. subscriptors[ch] \in Seq(Endpoints \union {Nil})
  BY DEF ChannelTypeOK
<1>2. Append(subscriptors[ch], e) \in Seq(Endpoints \union {Nil}) /\ Len(subscriptors[ch]) \in Nat
  BY <1>1, AppendFacts
<1> QED BY <1>2 DEF ChannelSubscribe, ChannelTypeOK, NextSubscriptionId

(* And so does unsubscribing, whether the id is known or not.              *)
LEMMA ChannelUnsubscribeType ==
    ASSUME ChannelTypeOK, NEW ch \in Endpoints, NEW id, ChannelUnsubscribe(ch, id)
    PROVE  ChannelTypeOK'
<1> DEFINE erased == [i \in DOMAIN subscriptors[ch] |->
                         IF i = id THEN Nil ELSE subscriptors[ch][i]]
<1>1. subscriptors[ch] \in Seq(Endpoints \union {Nil})
  BY DEF ChannelTypeOK
<1>2. erased \in Seq(Endpoints \union {Nil})
  BY <1>1, EraseFacts
<1>3. subscriptors' = [subscriptors EXCEPT ![ch] = erased]
  BY DEF ChannelUnsubscribe
<1> HIDE DEF erased
<1> QED BY <1>2, <1>3 DEF ChannelTypeOK

(* Updating one entry of the channel tables keeps them typed.              *)
LEMMA SetChannelType ==
    ASSUME AppTypeOK, NEW a \in Endpoints, NEW name \in ChannelNames,
           NEW ch \in Endpoints \union {Nil},
           channels' = [channels EXCEPT ![a][name] = ch]
    PROVE  channels' \in [Endpoints -> [ChannelNames -> Endpoints \union {Nil}]]
<1>1. [channels[a] EXCEPT ![name] = ch] \in [ChannelNames -> Endpoints \union {Nil}]
  BY DEF AppTypeOK
<1> QED BY <1>1 DEF AppTypeOK

(* The counters of the statistics stay integers.                           *)
LEMMA CountType ==
    ASSUME NEW count \in [Endpoints -> Int], NEW a \in Endpoints, NEW n \in Int
    PROVE  [count EXCEPT ![a] = count[a] + n] \in [Endpoints -> Int]
<1>1. count[a] + n \in Int
  OBVIOUS
<1> QED BY <1>1

(* stat_connection_close keeps the applications typed.                     *)
LEMMA StatConnectionCloseType ==
    ASSUME AppTypeOK, NEW a \in Endpoints, StatConnectionClose(a)
    PROVE  AppTypeOK'
<1>1. currentConnections' = [currentConnections EXCEPT ![a] = currentConnections[a] + (-1)]
  BY DEF StatConnectionClose, AppTypeOK
<1>2. currentConnections' \in [Endpoints -> Int]
  BY <1>1, CountType DEF AppTypeOK
<1> QED BY <1>2 DEF StatConnectionClose, AppTypeOK

(* So do stat_connection_open and subscribe.                               *)
LEMMA OpenAndSubscribeType ==
    ASSUME AppTypeOK, NEW a \in Endpoints, NEW e \in Endpoints, NEW name \in ChannelNames,
           GetChannel(a, e, name) \in Endpoints, OpenAndSubscribe(a, e, name)
    PROVE  AppTypeOK'
<1>1. channels' \in [Endpoints -> [ChannelNames -> Endpoints \union {Nil}]]
  BY SetChannelType DEF OpenAndSubscribe
<1>2. currentConnections' \in [Endpoints -> Int]
  BY CountType DEF OpenAndSubscribe, AppTypeOK
<1>3. (IF channels[a][name] = Nil THEN 1 ELSE 0) \in Int
  OBVIOUS
<1>4. currentChannels' \in [Endpoints -> Int]
  BY <1>3, CountType DEF OpenAndSubscribe, AppTypeOK
<1> QED BY <1>1, <1>2, <1>4 DEF OpenAndSubscribe, AppTypeOK

(* So does cleanup_after_unsubscribe, with destroy.                        *)
LEMMA CleanupType ==
    ASSUME AppTypeOK, NEW a \in Endpoints, NEW api \in ApiIds, NEW name \in ChannelNames,
           NEW ch, NEW raised, CleanupAfterUnsubscribe(a, api, name, ch, raised)
    PROVE  AppTypeOK'
<1>1. channels' \in [Endpoints -> [ChannelNames -> Endpoints \union {Nil}]]
  BY SetChannelType DEF CleanupAfterUnsubscribe, AppTypeOK
<1>2. currentChannels' \in [Endpoints -> Int]
  <2>1. CASE currentChannels' = currentChannels
    BY <2>1 DEF AppTypeOK
  <2>2. CASE currentChannels' = [currentChannels EXCEPT ![a] = currentChannels[a] - 1]
    <3>1. currentChannels' = [currentChannels EXCEPT ![a] = currentChannels[a] + (-1)]
      BY <2>2 DEF AppTypeOK
    <3> QED BY <3>1, CountType DEF AppTypeOK
  <2> QED BY <2>1, <2>2 DEF CleanupAfterUnsubscribe
<1>3. /\ applications' \in [ApiIds -> Endpoints \union {Nil}]
      /\ timers' \subseteq Endpoints /\ undestroyed' \subseteq Endpoints
  BY DEF CleanupAfterUnsubscribe, Destroy, AppTypeOK
<1> QED BY <1>1, <1>2, <1>3 DEF CleanupAfterUnsubscribe, AppTypeOK

(* Every step of the broker keeps the types.                               *)
LEMMA TypeStep == IInv /\ [Next]_vars => TypeOK'
<1> SUFFICES ASSUME IInv, [Next]_vars PROVE TypeOK'
  OBVIOUS
<1> USE ConstantFacts
<1>0. TypeOK /\ ApplicationsOK
  BY DEF IInv, StructureOK
<1>1. ASSUME NEW e \in Endpoints, Authenticate(e) PROVE TypeOK'
  <2>1. params[e].api \in ApiIds /\ GetApplication(params[e].api, e) \in Endpoints
    BY <1>0 DEF TypeOK, AppTypeOK, GetApplication
  <2>2. AppTypeOK'
    BY <1>0, <1>1, <2>1 DEF Authenticate, LoadApplication, AppTypeOK, TypeOK
  <2> QED BY <1>0, <1>1, <2>1, <2>2
          DEF Authenticate, EnterPhase, Phases, TypeOK, ChannelTypeOK, loopVars
<1>2. ASSUME NEW e \in Endpoints, LoginFailed(e) PROVE TypeOK'
  BY <1>0, <1>2 DEF LoginFailed, EnterPhase, Phases, TypeOK, ChannelTypeOK, AppTypeOK,
                    loopVars, appVars
<1>3. ASSUME NEW e \in Endpoints, LoginOk(e) PROVE TypeOK'
  <2>1. PrepareJob(e) \in Jobs /\ Schedule(PrepareJob(e))
    BY <1>3 DEF LoginOk, PrepareJob, Jobs
  <2>2. (ticks \in Seq(Jobs) /\ left \in Nat /\ left <= Len(ticks))'
    BY <1>0, <2>1, ScheduleType DEF TypeOK
  <2>3. AppTypeOK'
    BY <1>0, <1>3 DEF LoginOk, SetAppInfo, AppTypeOK, TypeOK, ApplicationsOK
  <2> QED BY <1>0, <1>3, <2>2, <2>3 DEF LoginOk, EnterPhase, Phases, TypeOK, ChannelTypeOK
<1>4. ASSUME NEW e \in Endpoints, SendRequest(e) PROVE TypeOK'
  <2>1. /\ PublishJob(e, NewMessage(e)) \in Jobs /\ Schedule(PublishJob(e, NewMessage(e)))
        /\ nextMessageId' \in 1 .. (MaxMessages + 1)
    BY <1>0, <1>4, PrepareSendRequestType DEF SendRequest
  <2>2. (ticks \in Seq(Jobs) /\ left \in Nat /\ left <= Len(ticks))'
    BY <1>0, <2>1, ScheduleType DEF TypeOK
  <2>3. AppTypeOK'
    BY <1>0, <1>4 DEF SendRequest, SetAppInfo, AppTypeOK, TypeOK, ApplicationsOK
  <2> QED BY <1>0, <1>4, <2>1, <2>2, <2>3
          DEF SendRequest, EnterPhase, Phases, TypeOK, ChannelTypeOK
<1>5. ASSUME NEW e \in Endpoints, OnMessage(e) PROVE TypeOK'
  <2>1. /\ PublishJob(e, NewMessage(e)) \in Jobs /\ Schedule(PublishJob(e, NewMessage(e)))
        /\ nextMessageId' \in 1 .. (MaxMessages + 1)
    BY <1>0, <1>5, PrepareSendRequestType DEF OnMessage
  <2>2. (ticks \in Seq(Jobs) /\ left \in Nat /\ left <= Len(ticks))'
    BY <1>0, <2>1, ScheduleType DEF TypeOK
  <2> QED BY <1>0, <1>5, <2>1, <2>2
          DEF OnMessage, TypeOK, ChannelTypeOK, AppTypeOK, appVars
<1>6. ASSUME NEW e \in Endpoints, CloseFrame(e) PROVE TypeOK'
  BY <1>0, <1>6 DEF CloseFrame, TypeOK, ChannelTypeOK, AppTypeOK, loopVars, appVars
<1>7. ASSUME NEW e \in Endpoints, OnClose(e) PROVE TypeOK'
  <2> DEFINE a == application[e]
             name == params[e].channel
  <2>1. /\ closed' \subseteq Subscribers /\ keepAlive' \subseteq EventSources
        /\ UNCHANGED <<params, closing, application, subscription, stalled,
                       nextMessageId, received>>
    BY <1>0, <1>7 DEF OnClose, TypeOK
  <2>2. phase[e] # "idle" /\ a \in Endpoints /\ name \in ChannelNames
    BY <1>0, <1>7 DEF OnClose, ApplicationsOK, TypeOK
  <2>3. /\ phase' \in [Endpoints -> Phases]
        /\ AppTypeOK'
    <3>1. phase' \in [Endpoints -> Phases]
      BY <1>0, <1>7 DEF OnClose, EnterPhase, Phases, TypeOK
    <3>2. CASE UNCHANGED appVars
      BY <1>0, <3>1, <3>2 DEF TypeOK, AppTypeOK, appVars
    <3>3. CASE StatConnectionClose(a)
      BY <1>0, <2>2, <3>1, <3>3, StatConnectionCloseType DEF TypeOK
    <3> QED BY <1>7, <3>2, <3>3 DEF OnClose
  <2>4. (ticks \in Seq(Jobs) /\ left \in Nat /\ left <= Len(ticks) /\ ChannelTypeOK)'
    <3>1. CASE UNCHANGED <<subscriptors, loopVars>>
      BY <1>0, <3>1 DEF TypeOK, ChannelTypeOK, loopVars
    <3>2. CASE Unsubscribe(a, name, subscription[e]) /\ channels[a][name] # Nil
      <4>1. channels[a][name] \in Endpoints
        BY <1>0, <2>2, <3>2 DEF TypeOK, AppTypeOK
      <4>2. ChannelTypeOK'
        BY <1>0, <3>2, <4>1, ChannelUnsubscribeType DEF Unsubscribe, TypeOK
      <4>3. CleanupJob(a, name, channels[a][name]) \in Jobs
        BY <2>2, <4>1 DEF CleanupJob, Jobs
      <4> QED BY <1>0, <3>2, <4>2, <4>3, ScheduleType DEF Unsubscribe, TypeOK
    <3> QED BY <1>7, <3>1, <3>2 DEF OnClose, Unsubscribe
  <2> QED BY <1>0, <2>1, <2>3, <2>4 DEF TypeOK
<1>8. ASSUME NEW e \in Endpoints, PushTimerFires(e) PROVE TypeOK'
  BY <1>0, <1>8 DEF PushTimerFires, PushTimer, TypeOK, ChannelTypeOK, AppTypeOK, loopVars,
                    connVars
<1>9. ASSUME Tick PROVE TypeOK'
  <2>1. ASSUME NEW e \in Subscribers, Prepare(e), phase[e] = "accepted" PROVE TypeOK'
    <3> DEFINE a == application[e]
               name == params[e].channel
               ch == GetChannel(a, e, name)
    <3>1. a \in Endpoints /\ name \in ChannelNames
      BY <1>0, <2>1 DEF ApplicationsOK, TypeOK
    <3>2. ch \in Endpoints
      BY <1>0, <3>1 DEF GetChannel, TypeOK, AppTypeOK
    <3>3. ChannelTypeOK' /\ NextSubscriptionId(ch) \in Nat
      BY <1>0, <2>1, <3>2, ChannelSubscribeType DEF Prepare, OpenAndSubscribe, TypeOK
    <3>4. AppTypeOK'
      BY <1>0, <2>1, <3>1, <3>2, OpenAndSubscribeType DEF Prepare, TypeOK
    <3>5. (ticks \in Seq(Jobs) /\ left \in Nat /\ left <= Len(ticks))'
      BY <1>0, <2>1, TakeTickType DEF Prepare, TypeOK
    <3> QED BY <1>0, <2>1, <3>3, <3>4, <3>5 DEF Prepare, EnterPhase, Phases, TypeOK
  <2>2. ASSUME NEW a \in Endpoints, NEW name \in ChannelNames, NEW ch \in Endpoints,
               Cleanup(CleanupJob(a, name, ch))
        PROVE  TypeOK'
    <3>1. AppTypeOK'
      <4>1. \E raised : CleanupAfterUnsubscribe(a, params[a].api, name, ch, raised)
        BY <2>2 DEF Cleanup, CleanupJob
      <4>2. params[a].api \in ApiIds
        BY <1>0 DEF TypeOK
      <4> QED BY <1>0, <4>1, <4>2, CleanupType DEF TypeOK
    <3>2. (ticks \in Seq(Jobs) /\ left \in Nat /\ left <= Len(ticks))'
      BY <1>0, <2>2, TakeTickType DEF Cleanup, TypeOK
    <3> QED BY <1>0, <2>2, <3>1, <3>2 DEF Cleanup, TypeOK, ChannelTypeOK, connVars
  <2>3. ASSUME NEW e \in Endpoints, NEW m \in Messages, Publish(e, m) PROVE TypeOK'
    <3>1. (ticks \in Seq(Jobs) /\ left \in Nat /\ left <= Len(ticks))'
      BY <1>0, <2>3, TakeTickType DEF Publish, TypeOK
    <3>2. stalled' \subseteq WebSockets
      BY <1>0, <2>3 DEF Publish, TypeOK
    <3>3. received' \in [Endpoints -> Seq(Messages)]
      <4>1. \A r \in Endpoints : received[r] \in Seq(Messages) /\ Append(received[r], m) \in Seq(Messages)
        BY <1>0, AppendFacts DEF TypeOK
      <4>2. \/ received' = received
            \/ \E to \in SUBSET Endpoints :
                  received' = [r \in Endpoints |-> IF r \in to THEN Append(received[r], m)
                                                              ELSE received[r]]
        <5> DEFINE c == IF ConnectionChannel(e) = Nil THEN Nil
                        ELSE channels[application[e]][ConnectionChannel(e)]
                   to == {r \in Endpoints : Reached(c, r) /\ r \notin closed \union closing}
        <5>1. CASE c = Nil
          BY <2>3, <5>1 DEF Publish
        <5>2. CASE c # Nil
          <6>1. received' = [r \in Endpoints |->
                   IF Reached(c, r) /\ r \notin closed \union closing
                   THEN Append(received[r], m) ELSE received[r]]
            BY <2>3, <5>2 DEF Publish
          <6>2. received' = [r \in Endpoints |->
                   IF r \in to THEN Append(received[r], m) ELSE received[r]]
            BY <6>1
          <6> QED BY <6>2
        <5> QED BY <5>1, <5>2
      <4> QED BY <1>0, <4>1, <4>2 DEF TypeOK
    <3> QED BY <1>0, <2>3, <3>1, <3>2, <3>3 DEF Publish, TypeOK, ChannelTypeOK, AppTypeOK, appVars
  <2> QED BY <1>9, <2>1, <2>2, <2>3, TickCases
<1>10. ASSUME UNCHANGED vars PROVE TypeOK'
  BY <1>0, <1>10 DEF vars, loopVars, appVars, connVars, TypeOK, ChannelTypeOK, AppTypeOK
<1> QED BY <1>1, <1>2, <1>3, <1>4, <1>5, <1>6, <1>7, <1>8, <1>9, <1>10 DEF Next
-----------------------------------------------------------------------------
(* What no step takes back.                                                *)

(* An endpoint keeps its parameters and, from its request on, its          *)
(* application; once subscribed it keeps its subscription id; an           *)
(* application keeps its record.                                           *)
Kept ==
    /\ params' = params
    /\ appInfo \subseteq appInfo'
    /\ \A f \in Endpoints : phase[f] # "idle" =>
          phase'[f] # "idle" /\ application'[f] = application[f]
    /\ \A f \in Endpoints : EverSubscribed(f) =>
          EverSubscribed(f)' /\ subscription'[f] = subscription[f]

(* Every step keeps what Kept lists.                                       *)
LEMMA KeptStep == IInv /\ [Next]_vars => Kept
<1> SUFFICES ASSUME IInv, [Next]_vars PROVE Kept
  OBVIOUS
<1>0. phase \in [Endpoints -> Phases] /\ application \in [Endpoints -> Endpoints \union {Nil}]
      /\ subscription \in [Endpoints -> Nat]
  BY DEF IInv, TypeOK
<1>1. ASSUME NEW e \in Endpoints, Authenticate(e) PROVE Kept
  BY <1>0, <1>1 DEF Authenticate, LoadApplication, EnterPhase, Kept, EverSubscribed
<1>2. ASSUME NEW e \in Endpoints, LoginFailed(e) PROVE Kept
  BY <1>0, <1>2 DEF LoginFailed, EnterPhase, Kept, EverSubscribed, appVars
<1>3. ASSUME NEW e \in Endpoints, LoginOk(e) PROVE Kept
  BY <1>0, <1>3 DEF LoginOk, SetAppInfo, EnterPhase, Kept, EverSubscribed
<1>4. ASSUME NEW e \in Endpoints, SendRequest(e) PROVE Kept
  BY <1>0, <1>4 DEF SendRequest, SetAppInfo, EnterPhase, Kept, EverSubscribed
<1>5. ASSUME NEW e \in Endpoints, OnMessage(e) PROVE Kept
  BY <1>0, <1>5 DEF OnMessage, Kept, EverSubscribed, appVars
<1>6. ASSUME NEW e \in Endpoints, CloseFrame(e) PROVE Kept
  BY <1>0, <1>6 DEF CloseFrame, Kept, EverSubscribed, appVars
<1>7. ASSUME NEW e \in Endpoints, OnClose(e) PROVE Kept
  BY <1>0, <1>7 DEF OnClose, StatConnectionClose, EnterPhase, Kept, EverSubscribed, appVars
<1>8. ASSUME NEW e \in Endpoints, PushTimerFires(e) PROVE Kept
  BY <1>0, <1>8 DEF PushTimerFires, PushTimer, Kept, EverSubscribed, connVars
<1>9. ASSUME NEW e \in Subscribers, Prepare(e), phase[e] = "accepted" PROVE Kept
  BY <1>0, <1>9, ConstantFacts DEF Prepare, OpenAndSubscribe, EnterPhase, Kept, EverSubscribed
<1>10. ASSUME NEW job, Cleanup(job) PROVE Kept
  BY <1>0, <1>10 DEF Cleanup, CleanupAfterUnsubscribe, Kept, EverSubscribed, connVars
<1>11. ASSUME NEW e, NEW m, Publish(e, m) PROVE Kept
  BY <1>0, <1>11 DEF Publish, Kept, EverSubscribed, appVars
<1>12. ASSUME UNCHANGED vars PROVE Kept
  BY <1>12 DEF vars, appVars, connVars, Kept, EverSubscribed
<1> QED BY <1>1, <1>2, <1>3, <1>4, <1>5, <1>6, <1>7, <1>8, <1>9, <1>10, <1>11, <1>12,
           TickCases DEF Next

(* Only a request registers an application, and only under its api id;     *)
(* what else changes @@applications deletes from it.                       *)
LEMMA RegisterStep ==
    ASSUME IInv, [Next]_vars, NEW api \in ApiIds, applications'[api] # Nil
    PROVE  \/ applications'[api] = applications[api]
           \/ \E e \in Endpoints : /\ Authenticate(e) /\ params[e].api = api
                                   /\ applications'[api] = e
<1>0. applications \in [ApiIds -> Endpoints \union {Nil}]
  BY DEF IInv, TypeOK, AppTypeOK
<1>1. ASSUME NEW e \in Endpoints, Authenticate(e), applications'[api] # applications[api]
      PROVE  params[e].api = api /\ applications'[api] = e
  BY <1>0, <1>1 DEF Authenticate, LoadApplication, GetApplication
<1>2. ASSUME NEW e \in Endpoints,
             LoginFailed(e) \/ LoginOk(e) \/ SendRequest(e) \/ OnMessage(e)
             \/ CloseFrame(e) \/ OnClose(e) \/ PushTimerFires(e)
      PROVE  applications' = applications
  BY <1>2 DEF LoginFailed, LoginOk, SendRequest, OnMessage, CloseFrame, OnClose,
              PushTimerFires, SetAppInfo, StatConnectionClose, PushTimer, appVars
<1>3. ASSUME NEW e \in Subscribers, Prepare(e) PROVE applications' = applications
  BY <1>3 DEF Prepare, OpenAndSubscribe
<1>4. ASSUME NEW job, Cleanup(job) PROVE applications'[api] = applications[api]
  BY <1>0, <1>4 DEF Cleanup, CleanupAfterUnsubscribe, Destroy
<1>5. ASSUME NEW e, NEW m, Publish(e, m) PROVE applications' = applications
  BY <1>5 DEF Publish, appVars
<1>6. ASSUME UNCHANGED vars PROVE applications' = applications
  BY <1>6 DEF vars, appVars
<1> QED BY <1>1, <1>2, <1>3, <1>4, <1>5, <1>6, TickCases DEF Next

(* Endpoints go on working on instances of their own api id, although the  *)
(* table of instances changes under them.                                  *)
LEMMA ApplicationsStep == IInv /\ [Next]_vars => ApplicationsOK'
<1> SUFFICES ASSUME IInv, [Next]_vars PROVE ApplicationsOK'
  OBVIOUS
<1> USE ConstantFacts
<1>0. TypeOK /\ ApplicationsOK /\ Kept
  BY KeptStep DEF IInv, StructureOK
<1>1. ASSUME NEW api \in ApiIds, applications'[api] # Nil
      PROVE  (phase[applications[api]] # "idle" /\ params[applications[api]].api = api)'
  <2>1. CASE applications'[api] = applications[api]
    <3>1. applications[api] \in Endpoints
      BY <1>0, <1>1, <2>1 DEF TypeOK, AppTypeOK
    <3> QED BY <1>0, <1>1, <2>1, <3>1 DEF ApplicationsOK, Kept
  <2>2. CASE \E e \in Endpoints : /\ Authenticate(e) /\ params[e].api = api
                                  /\ applications'[api] = e
    BY <1>0, <2>2 DEF Authenticate, EnterPhase, TypeOK, Kept
  <2> QED BY <1>1, <2>1, <2>2, RegisterStep
<1>2. ASSUME NEW f \in Endpoints, phase'[f] # "idle"
      PROVE  (/\ application[f] \in Endpoints
              /\ phase[application[f]] # "idle"
              /\ params[application[f]].api = params[f].api)'
  <2>1. CASE phase[f] # "idle"
    BY <1>0, <2>1 DEF ApplicationsOK, Kept
  <2>2. CASE phase[f] = "idle"
    <3>1. Authenticate(f)
      <4>1. ASSUME NEW e \in Endpoints, e # f,
                   \/ Authenticate(e) \/ LoginFailed(e) \/ LoginOk(e) \/ SendRequest(e)
                   \/ OnClose(e) \/ Prepare(e)
            PROVE  FALSE
        BY <1>0, <1>2, <2>2, <4>1
           DEF Authenticate, LoginFailed, LoginOk, SendRequest, OnClose, Prepare, EnterPhase, TypeOK
      <4>2. ASSUME \/ LoginFailed(f) \/ LoginOk(f) \/ SendRequest(f) \/ OnClose(f)
            PROVE  FALSE
        BY <2>2, <4>2 DEF LoginFailed, LoginOk, SendRequest, OnClose
      <4>3. ASSUME \/ UNCHANGED vars
                   \/ \E e \in Endpoints : OnMessage(e) \/ CloseFrame(e) \/ PushTimerFires(e)
                   \/ \E job : Cleanup(job)
                   \/ \E e, m : Publish(e, m)
            PROVE  FALSE
        BY <1>2, <2>2, <4>3
           DEF vars, OnMessage, CloseFrame, PushTimerFires, Cleanup, Publish, connVars
      <4> QED BY <2>2, <4>1, <4>2, <4>3, TickCases DEF Next
    <3>2. /\ application'[f] = GetApplication(params[f].api, f)
          /\ params[f].api \in ApiIds
      BY <1>0, <3>1 DEF Authenticate, TypeOK
    <3>3. CASE applications[params[f].api] = Nil
      BY <1>0, <1>2, <3>2, <3>3 DEF GetApplication, Kept
    <3>4. CASE applications[params[f].api] # Nil
      <4>1. applications[params[f].api] \in Endpoints
        BY <1>0, <3>2, <3>4 DEF TypeOK, AppTypeOK
      <4> QED BY <1>0, <3>2, <3>4, <4>1 DEF GetApplication, ApplicationsOK, Kept
    <3> QED BY <3>3, <3>4
  <2> QED BY <2>1, <2>2
<1> QED BY <1>1, <1>2 DEF ApplicationsOK
-----------------------------------------------------------------------------
(* The jobs in the queue.                                                  *)

(* A job's fields, by its kind.                                            *)
LEMMA JobFacts ==
    ASSUME TypeOK, NEW i \in DOMAIN ticks
    PROVE  /\ ticks[i] \in Jobs
           /\ ticks[i].kind = "prepare" =>
                 ticks[i].endpoint \in Endpoints /\ ticks[i] = PrepareJob(ticks[i].endpoint)
           /\ ticks[i].kind = "cleanup" =>
                 /\ ticks[i].app \in Endpoints /\ ticks[i].channel \in Endpoints
                 /\ ticks[i].name \in ChannelNames
           /\ ticks[i].kind = "publish" =>
                 ticks[i].endpoint \in Endpoints /\ ticks[i].message \in Messages
<1>1. ticks[i] \in Jobs
  BY DEF TypeOK
<1> QED BY <1>1, ConstantFacts DEF Jobs, PrepareJob

(* A queued job stays right while accepted endpoints stay accepted.        *)
LEMMA JobsKept ==
    ASSUME IInv, Kept, UNCHANGED ticks,
           \A f \in Endpoints : phase[f] = "accepted" => phase'[f] = "accepted"
    PROVE  JobsOK'
<1>1. TypeOK /\ JobsOK
  BY DEF IInv, StructureOK
<1> QED BY <1>1, JobFacts DEF JobsOK, Kept

(* So it does when a new job is queued behind it.                          *)
LEMMA JobsScheduled ==
    ASSUME IInv, Kept, NEW job \in Jobs, Schedule(job),
           \A f \in Endpoints : phase[f] = "accepted" => phase'[f] = "accepted",
           job.kind = "prepare" =>
              phase'[job.endpoint] = "accepted" /\ \A i \in DOMAIN ticks : ticks[i] # job,
           job.kind = "publish" =>
              phase'[job.endpoint] # "idle" /\ job.message.from = job.endpoint
    PROVE  JobsOK'
<1>1. TypeOK /\ JobsOK /\ ticks \in Seq(Jobs)
  BY DEF IInv, StructureOK, TypeOK
<1>2. /\ DOMAIN ticks' = 1 .. Len(ticks) + 1 /\ DOMAIN ticks = 1 .. Len(ticks)
      /\ Len(ticks) \in Nat
      /\ \A i \in DOMAIN ticks : ticks'[i] = ticks[i]
      /\ ticks'[Len(ticks) + 1] = job
  BY <1>1, AppendFacts DEF Schedule
<1>3. \A i \in DOMAIN ticks' : i \in DOMAIN ticks \/ i = Len(ticks) + 1
  BY <1>2
<1>4. ASSUME NEW i \in DOMAIN ticks', ticks'[i].kind = "prepare"
      PROVE  /\ phase'[ticks'[i].endpoint] = "accepted"
             /\ \A k \in DOMAIN ticks' : ticks'[k] = ticks'[i] => k = i
  <2>1. CASE i = Len(ticks) + 1
    BY <1>2, <1>3, <1>4, <2>1
  <2>2. CASE i \in DOMAIN ticks
    <3>1. phase'[ticks'[i].endpoint] = "accepted"
      BY <1>1, <1>2, <1>4, <2>2, JobFacts DEF JobsOK
    <3>2. ticks[i] # job
      BY <1>2, <1>4, <2>2
    <3> QED BY <1>1, <1>2, <1>3, <1>4, <2>2, <3>1, <3>2 DEF JobsOK
  <2> QED BY <1>3, <2>1, <2>2
<1>5. ASSUME NEW i \in DOMAIN ticks', ticks'[i].kind = "publish"
      PROVE  /\ phase'[ticks'[i].endpoint] # "idle"
             /\ ticks'[i].message.from = ticks'[i].endpoint
  BY <1>1, <1>2, <1>3, <1>5, JobFacts DEF JobsOK, Kept
<1> QED BY <1>4, <1>5 DEF JobsOK

(* And when the reactor takes the job at the head.                         *)
LEMMA JobsTaken ==
    ASSUME IInv, Kept, NEW raised, TakeTick(raised),
           \A i \in DOMAIN ticks : i # 1 /\ ticks[i].kind = "prepare" =>
              phase'[ticks[i].endpoint] = "accepted"
    PROVE  JobsOK'
<1>1. TypeOK /\ JobsOK /\ ticks \in Seq(Jobs) /\ ticks # <<>> /\ ticks' = Tail(ticks)
  BY DEF IInv, StructureOK, TypeOK, TakeTick
<1>2. /\ DOMAIN ticks' = 1 .. Len(ticks) - 1 /\ Len(ticks) \in Nat
      /\ \A i \in DOMAIN ticks' : ticks'[i] = ticks[i + 1] /\ i + 1 \in DOMAIN ticks
  BY <1>1, TailFacts
<1>3. ASSUME NEW i \in DOMAIN ticks', ticks'[i].kind = "prepare"
      PROVE  /\ phase'[ticks'[i].endpoint] = "accepted"
             /\ \A k \in DOMAIN ticks' : ticks'[k] = ticks'[i] => k = i
  <2>1. /\ i \in Nat /\ i # 0 /\ i + 1 # 1
    BY <1>2
  <2>2. ASSUME NEW k \in DOMAIN ticks', ticks'[k] = ticks'[i] PROVE k = i
    <3>1. k + 1 = i + 1
      BY <1>1, <1>2, <1>3, <2>2 DEF JobsOK
    <3>2. k \in Nat
      BY <1>2
    <3> QED BY <2>1, <3>1, <3>2
  <2> QED BY <1>2, <1>3, <2>1, <2>2
<1>4. ASSUME NEW i \in DOMAIN ticks', ticks'[i].kind = "publish"
      PROVE  /\ phase'[ticks'[i].endpoint] # "idle"
             /\ ticks'[i].message.from = ticks'[i].endpoint
  BY <1>1, <1>2, <1>4, JobFacts DEF JobsOK, Kept
<1> QED BY <1>3, <1>4 DEF JobsOK

(* prepare_connection is queued once and still finds its endpoint accepted *)
(* when it runs, and messages stay with the endpoint that issued them.     *)
LEMMA JobsStep == IInv /\ [Next]_vars => JobsOK'
<1> SUFFICES ASSUME IInv, [Next]_vars PROVE JobsOK'
  OBVIOUS
<1>0. TypeOK /\ JobsOK /\ Kept
  BY KeptStep DEF IInv, StructureOK
<1>1. ASSUME NEW e \in Endpoints,
             Authenticate(e) \/ LoginFailed(e) \/ CloseFrame(e) \/ PushTimerFires(e)
      PROVE  JobsOK'
  <2>1. UNCHANGED ticks
    BY <1>1 DEF Authenticate, LoginFailed, CloseFrame, PushTimerFires, loopVars
  <2>2. \A f \in Endpoints : phase[f] = "accepted" => phase'[f] = "accepted"
    BY <1>0, <1>1 DEF Authenticate, LoginFailed, CloseFrame, PushTimerFires, EnterPhase,
                      TypeOK, connVars
  <2> QED BY <1>0, <2>1, <2>2, JobsKept
<1>2. ASSUME NEW e \in Endpoints, LoginOk(e) PROVE JobsOK'
  <2>1. PrepareJob(e) \in Jobs /\ Schedule(PrepareJob(e))
    BY <1>2 DEF LoginOk, PrepareJob, Jobs
  <2>2. /\ \A f \in Endpoints : phase[f] = "accepted" => phase'[f] = "accepted"
        /\ phase[e] = "awaiting" /\ phase'[e] = "accepted"
    BY <1>0, <1>2 DEF LoginOk, EnterPhase, TypeOK
  <2>3. \A i \in DOMAIN ticks : ticks[i] # PrepareJob(e)
    BY <1>0, <2>2 DEF JobsOK, PrepareJob
  <2> QED BY <1>0, <2>1, <2>2, <2>3, JobsScheduled DEF PrepareJob
<1>3. ASSUME NEW e \in Endpoints, SendRequest(e) \/ OnMessage(e) PROVE JobsOK'
  <2>1. PublishJob(e, NewMessage(e)) \in Jobs /\ Schedule(PublishJob(e, NewMessage(e)))
    BY <1>0, <1>3, PrepareSendRequestType DEF SendRequest, OnMessage
  <2>2. /\ \A f \in Endpoints : phase[f] = "accepted" => phase'[f] = "accepted"
        /\ phase'[e] # "idle"
    BY <1>0, <1>3 DEF SendRequest, OnMessage, EnterPhase, TypeOK
  <2> QED BY <1>0, <2>1, <2>2, JobsScheduled DEF PublishJob, NewMessage
<1>4. ASSUME NEW e \in Endpoints, OnClose(e) PROVE JobsOK'
  <2>1. \A f \in Endpoints : phase[f] = "accepted" => phase'[f] = "accepted"
    BY <1>0, <1>4 DEF OnClose, EnterPhase, TypeOK
  <2>2. CASE UNCHANGED ticks
    BY <1>0, <2>1, <2>2, JobsKept
  <2>3. CASE /\ phase[e] = "subscribed"
             /\ Unsubscribe(application[e], params[e].channel, subscription[e])
             /\ channels[application[e]][params[e].channel] # Nil
    <3> DEFINE job == CleanupJob(application[e], params[e].channel,
                                 channels[application[e]][params[e].channel])
    <3>1. Schedule(job)
      BY <2>3 DEF Unsubscribe
    <3>2. job \in Jobs /\ job.kind = "cleanup"
      BY <1>0, <2>3 DEF IInv, StructureOK, ApplicationsOK, TypeOK, AppTypeOK, CleanupJob, Jobs
    <3> HIDE DEF job
    <3> QED BY <1>0, <2>1, <3>1, <3>2, JobsScheduled
  <2> QED BY <1>4, <2>2, <2>3 DEF OnClose, Unsubscribe, loopVars
<1>5. ASSUME NEW e \in Subscribers, Prepare(e), Head(ticks) = PrepareJob(e) PROVE JobsOK'
  <2>1. TakeTick(FALSE) /\ ticks # <<>> /\ ticks \in Seq(Jobs)
    BY <1>0, <1>5 DEF Prepare, TakeTick, TypeOK
  <2>2. ticks[1] = PrepareJob(e) /\ 1 \in DOMAIN ticks
    BY <1>5, <2>1, TailFacts
  <2>3. \A i \in DOMAIN ticks : ticks[i] = PrepareJob(e) => i = 1
    BY <1>0, <2>2 DEF JobsOK, PrepareJob
  <2>4. \A f \in Endpoints : f # e => phase'[f] = phase[f]
    BY <1>0, <1>5 DEF Prepare, EnterPhase, TypeOK
  <2>5. ASSUME NEW i \in DOMAIN ticks, i # 1, ticks[i].kind = "prepare"
        PROVE  phase'[ticks[i].endpoint] = "accepted"
    <3>1. ticks[i].endpoint \in Endpoints /\ ticks[i].endpoint # e
      BY <1>0, <2>3, <2>5, JobFacts
    <3> QED BY <1>0, <2>4, <2>5, <3>1 DEF JobsOK
  <2> QED BY <1>0, <2>1, <2>5, JobsTaken
<1>6. ASSUME (\E job : Cleanup(job)) \/ (\E e, m : Publish(e, m)) PROVE JobsOK'
  <2>1. (\E raised : TakeTick(raised)) /\ UNCHANGED phase
    BY <1>6 DEF Cleanup, Publish, connVars
  <2> QED BY <1>0, <2>1, JobsTaken DEF JobsOK
<1>7. ASSUME UNCHANGED vars PROVE JobsOK'
  BY <1>0, <1>7, JobsKept DEF vars, loopVars, connVars
<1> QED BY <1>1, <1>2, <1>3, <1>4, <1>5, <1>6, <1>7, TickCases DEF Next
-----------------------------------------------------------------------------
(* The channel tables and the subscriptions.                               *)

(* Where a step of the broker can change a channel table or a subscription *)
(* table, and how.                                                         *)
LEMMA TablesStep ==
    ASSUME IInv, [Next]_vars
    PROVE  \/ UNCHANGED <<channels, subscriptors>>
           \/ \E e \in Subscribers : /\ Prepare(e) /\ phase[e] = "accepted"
                                     /\ Head(ticks) = PrepareJob(e)
           \/ \E a \in Endpoints, name \in ChannelNames, ch \in Endpoints :
                 /\ Cleanup(CleanupJob(a, name, ch))
                 /\ Head(ticks) = CleanupJob(a, name, ch)
                 /\ Listeners(ch) = {} /\ UNCHANGED subscriptors
                 /\ channels' = [channels EXCEPT ![a][name] = Nil]
           \/ \E e \in Endpoints :
                 /\ OnClose(e) /\ phase[e] = "subscribed" /\ UNCHANGED channels
                 /\ channels[application[e]][params[e].channel] # Nil
                 /\ Unsubscribe(application[e], params[e].channel, subscription[e])
<1>1. ASSUME NEW e \in Endpoints,
             \/ Authenticate(e) \/ LoginFailed(e) \/ LoginOk(e) \/ SendRequest(e)
             \/ OnMessage(e) \/ CloseFrame(e) \/ PushTimerFires(e)
      PROVE  UNCHANGED <<channels, subscriptors>>
  BY <1>1 DEF Authenticate, LoginFailed, LoginOk, SendRequest, OnMessage, CloseFrame,
              PushTimerFires, LoadApplication, SetAppInfo, PushTimer, appVars
<1>2. ASSUME NEW e \in Endpoints, OnClose(e)
      PROVE  \/ UNCHANGED <<channels, subscriptors>>
             \/ /\ phase[e] = "subscribed" /\ UNCHANGED channels
                /\ channels[application[e]][params[e].channel] # Nil
                /\ Unsubscribe(application[e], params[e].channel, subscription[e])
  BY <1>2 DEF OnClose, StatConnectionClose, Unsubscribe, appVars
<1>3. ASSUME NEW a \in Endpoints, NEW name \in ChannelNames, NEW ch \in Endpoints,
             Cleanup(CleanupJob(a, name, ch))
      PROVE  \/ UNCHANGED <<channels, subscriptors>>
             \/ /\ Listeners(ch) = {} /\ UNCHANGED subscriptors
                /\ channels' = [channels EXCEPT ![a][name] = Nil]
  BY <1>3 DEF Cleanup, CleanupAfterUnsubscribe, CleanupJob
<1>4. ASSUME NEW e, NEW m, Publish(e, m) PROVE UNCHANGED <<channels, subscriptors>>
  BY <1>4 DEF Publish, appVars
<1>5. ASSUME UNCHANGED vars PROVE UNCHANGED <<channels, subscriptors>>
  BY <1>5 DEF vars, appVars
<1> QED BY <1>1, <1>2, <1>3, <1>4, <1>5, TickCases DEF Next

(* The channel object prepare_connection subscribes e to, and the one that *)
(* is registered under its channel name now.                               *)
Room(e) == GetChannel(application[e], e, params[e].channel)
CurrentRoom(e) == channels[application[e]][params[e].channel]

(* What prepare_connection does to the tables: e becomes the last entry of *)
(* the object its channel name stands for, which is e's own if it is new.  *)
LEMMA PrepareFacts ==
    ASSUME IInv, NEW e \in Subscribers, Prepare(e), phase[e] = "accepted"
    PROVE  /\ application[e] \in Endpoints /\ params[e].channel \in ChannelNames
           /\ Room(e) \in Endpoints
           /\ phase' = [phase EXCEPT ![e] = "subscribed"]
           /\ subscription' = [subscription EXCEPT ![e] = Len(subscriptors[Room(e)]) + 1]
           /\ channels' = [channels EXCEPT ![application[e]][params[e].channel] = Room(e)]
           /\ subscriptors' = [subscriptors EXCEPT ![Room(e)] = Append(subscriptors[Room(e)], e)]
           /\ DOMAIN subscriptors'[Room(e)] = DOMAIN subscriptors[Room(e)] \union {Len(subscriptors[Room(e)]) + 1}
           /\ \A id \in DOMAIN subscriptors[Room(e)] : subscriptors'[Room(e)][id] = subscriptors[Room(e)][id]
           /\ subscriptors'[Room(e)][Len(subscriptors[Room(e)]) + 1] = e
           /\ \A c \in Endpoints : c # Room(e) => subscriptors'[c] = subscriptors[c]
           /\ application' = application /\ params' = params
<1> DEFINE a == application[e]
           name == params[e].channel
           ch == Room(e)
<1>0. TypeOK /\ ApplicationsOK
  BY DEF IInv, StructureOK
<1>1. a \in Endpoints /\ name \in ChannelNames /\ e \in Endpoints
  BY <1>0, ConstantFacts DEF ApplicationsOK, TypeOK
<1>2. ch \in Endpoints
  BY <1>0, <1>1 DEF Room, GetChannel, TypeOK, AppTypeOK
<1>3. subscriptors[ch] \in Seq(Endpoints \union {Nil}) /\ subscriptors \in [Endpoints -> Seq(Endpoints \union {Nil})]
  BY <1>0, <1>2 DEF TypeOK, ChannelTypeOK
<1>4. /\ DOMAIN Append(subscriptors[ch], e) = 1 .. Len(subscriptors[ch]) + 1
      /\ DOMAIN subscriptors[ch] = 1 .. Len(subscriptors[ch]) /\ Len(subscriptors[ch]) \in Nat
      /\ \A id \in DOMAIN subscriptors[ch] : Append(subscriptors[ch], e)[id] = subscriptors[ch][id]
      /\ Append(subscriptors[ch], e)[Len(subscriptors[ch]) + 1] = e
  BY <1>1, <1>3, AppendFacts
<1>5. /\ phase' = [phase EXCEPT ![e] = "subscribed"]
      /\ subscription' = [subscription EXCEPT ![e] = Len(subscriptors[ch]) + 1]
      /\ channels' = [channels EXCEPT ![a][name] = ch]
      /\ subscriptors' = [subscriptors EXCEPT ![ch] = Append(subscriptors[ch], e)]
      /\ application' = application /\ params' = params
  BY DEF Room, Prepare, EnterPhase, OpenAndSubscribe, NextSubscriptionId, ChannelSubscribe
<1>6. /\ subscriptors'[ch] = Append(subscriptors[ch], e)
      /\ \A c \in Endpoints : c # ch => subscriptors'[c] = subscriptors[c]
  BY <1>2, <1>3, <1>5
<1>7. 1 .. Len(subscriptors[ch]) + 1 = 1 .. Len(subscriptors[ch]) \union {Len(subscriptors[ch]) + 1}
  BY <1>4
<1> QED BY <1>1, <1>2, <1>4, <1>5, <1>6, <1>7

(* What on_close does to the tables: the id e holds is erased in the       *)
(* object that is registered under e's channel name now.                   *)
LEMMA UnsubscribeFacts ==
    ASSUME IInv, NEW e \in Endpoints, phase[e] # "idle", CurrentRoom(e) # Nil,
           Unsubscribe(application[e], params[e].channel, subscription[e])
    PROVE  /\ application[e] \in Endpoints /\ params[e].channel \in ChannelNames
           /\ CurrentRoom(e) \in Endpoints
           /\ \A c \in Endpoints :
                 /\ DOMAIN subscriptors'[c] = DOMAIN subscriptors[c]
                 /\ \A id \in DOMAIN subscriptors[c] :
                       subscriptors'[c][id] = IF c = CurrentRoom(e) /\ id = subscription[e]
                                              THEN Nil ELSE subscriptors[c][id]
           /\ Schedule(CleanupJob(application[e], params[e].channel, CurrentRoom(e)))
<1> DEFINE a == application[e]
           name == params[e].channel
           ch == CurrentRoom(e)
<1>0. TypeOK /\ ApplicationsOK
  BY DEF IInv, StructureOK
<1>1. a \in Endpoints /\ name \in ChannelNames
  BY <1>0 DEF ApplicationsOK, TypeOK
<1>2. ch \in Endpoints
  BY <1>0, <1>1 DEF CurrentRoom, TypeOK, AppTypeOK
<1>3. ChannelUnsubscribe(ch, subscription[e]) /\ Schedule(CleanupJob(a, name, ch))
  BY DEF Unsubscribe, CurrentRoom
<1>4. subscriptors \in [Endpoints -> Seq(Endpoints \union {Nil})]
  BY <1>0 DEF TypeOK, ChannelTypeOK
<1>5. subscriptors'[ch] = [i \in DOMAIN subscriptors[ch] |->
                             IF i = subscription[e] THEN Nil ELSE subscriptors[ch][i]]
  BY <1>2, <1>3, <1>4 DEF ChannelUnsubscribe
<1>6. \A c \in Endpoints : c # ch => subscriptors'[c] = subscriptors[c]
  BY <1>2, <1>3, <1>4 DEF ChannelUnsubscribe
<1>7. /\ DOMAIN subscriptors'[ch] = DOMAIN subscriptors[ch]
      /\ \A id \in DOMAIN subscriptors[ch] : subscriptors'[ch][id] =
            IF id = subscription[e] THEN Nil ELSE subscriptors[ch][id]
  BY <1>5
<1>8. ASSUME NEW c \in Endpoints
      PROVE  /\ DOMAIN subscriptors'[c] = DOMAIN subscriptors[c]
             /\ \A id \in DOMAIN subscriptors[c] :
                   subscriptors'[c][id] = IF c = ch /\ id = subscription[e]
                                          THEN Nil ELSE subscriptors[c][id]
  <2>1. CASE c = ch
    BY <1>7, <2>1
  <2>2. CASE c # ch
    BY <1>6, <2>2
  <2> QED BY <2>1, <2>2
<1> QED BY <1>1, <1>2, <1>3, <1>8

(* A channel is only ever found under its own name, in its own             *)
(* application.                                                            *)
LEMMA ChannelsStep == IInv /\ [Next]_vars => ChannelsOK'
<1> SUFFICES ASSUME IInv, [Next]_vars, NEW b \in Endpoints, NEW n \in ChannelNames,
                    channels'[b][n] # Nil
             PROVE  (/\ application[channels[b][n]] = b
                     /\ params[channels[b][n]].channel = n
                     /\ EverSubscribed(channels[b][n]))'
  BY DEF ChannelsOK
<1>0. TypeOK /\ ChannelsOK /\ Kept
  BY KeptStep DEF IInv, StructureOK
<1>1. CASE channels'[b][n] = channels[b][n]
  <2>1. channels[b][n] \in Endpoints /\ EverSubscribed(channels[b][n])
    BY <1>0, <1>1 DEF ChannelsOK, TypeOK, AppTypeOK
  <2>2. phase[channels[b][n]] # "idle"
    BY <2>1 DEF EverSubscribed
  <2> QED BY <1>0, <1>1, <2>1, <2>2 DEF ChannelsOK, Kept, EverSubscribed
<1>2. ASSUME NEW e \in Subscribers, Prepare(e), phase[e] = "accepted",
             channels'[b][n] # channels[b][n]
      PROVE  /\ channels'[b][n] = e /\ application'[e] = b
             /\ params'[e].channel = n /\ phase'[e] = "subscribed"
  <2>1. /\ channels' = [channels EXCEPT ![application[e]][params[e].channel] =
                          Room(e)]
        /\ phase' = [phase EXCEPT ![e] = "subscribed"]
        /\ application' = application /\ params' = params
    BY <1>2, PrepareFacts
  <2>2. b = application[e] /\ n = params[e].channel
    BY <1>0, <1>2, <2>1 DEF TypeOK, AppTypeOK
  <2>3. channels'[b][n] = GetChannel(b, e, n)
    BY <1>0, <2>1, <2>2 DEF Room, TypeOK, AppTypeOK
  <2> QED BY <1>0, <1>2, <2>1, <2>2, <2>3, ConstantFacts DEF GetChannel, TypeOK
<1>3. ASSUME NEW a \in Endpoints, NEW name \in ChannelNames,
             channels' = [channels EXCEPT ![a][name] = Nil]
      PROVE  channels'[b][n] = channels[b][n]
  BY <1>0, <1>3 DEF TypeOK, AppTypeOK
<1> QED BY <1>1, <1>2, <1>3, TablesStep DEF EverSubscribed

(* An entry stays at the id its endpoint holds, and with the endpoints of  *)
(* one application and channel name.                                       *)
LEMMA SubscriptionsStep == IInv /\ [Next]_vars => SubscriptionsOK'
<1> SUFFICES ASSUME IInv, [Next]_vars, NEW c \in Endpoints, NEW id \in DOMAIN subscriptors'[c],
                    subscriptors'[c][id] # Nil
             PROVE  (/\ EverSubscribed(c)
                     /\ EverSubscribed(subscriptors[c][id])
                     /\ subscription[subscriptors[c][id]] = id
                     /\ application[subscriptors[c][id]] = application[c]
                     /\ params[subscriptors[c][id]].channel = params[c].channel)'
  BY DEF SubscriptionsOK
<1>0. TypeOK /\ ChannelsOK /\ SubscriptionsOK /\ Kept
  BY KeptStep DEF IInv, StructureOK
<1>1. CASE id \in DOMAIN subscriptors[c] /\ subscriptors'[c][id] = subscriptors[c][id]
  <2> DEFINE f == subscriptors[c][id]
  <2>1. f \in Endpoints
    BY <1>0, <1>1 DEF TypeOK, ChannelTypeOK
  <2>2. /\ EverSubscribed(c) /\ EverSubscribed(f) /\ subscription[f] = id
        /\ application[f] = application[c] /\ params[f].channel = params[c].channel
    BY <1>0, <1>1 DEF SubscriptionsOK
  <2>3. phase[c] # "idle" /\ phase[f] # "idle"
    BY <2>2 DEF EverSubscribed
  <2> QED BY <1>0, <1>1, <2>1, <2>2, <2>3 DEF Kept, EverSubscribed
<1>2. ASSUME NEW e \in Subscribers, Prepare(e), phase[e] = "accepted",
             ~ (id \in DOMAIN subscriptors[c] /\ subscriptors'[c][id] = subscriptors[c][id])
      PROVE  /\ subscriptors'[c][id] = e /\ subscription'[e] = id
             /\ EverSubscribed(c)' /\ EverSubscribed(e)'
             /\ application'[e] = application'[c] /\ params'[e].channel = params'[c].channel
  <2> DEFINE a == application[e]
             name == params[e].channel
             ch == Room(e)
  <2>1. /\ ch \in Endpoints /\ a \in Endpoints /\ name \in ChannelNames
        /\ phase' = [phase EXCEPT ![e] = "subscribed"]
        /\ subscription' = [subscription EXCEPT ![e] = Len(subscriptors[ch]) + 1]
        /\ DOMAIN subscriptors'[ch] = DOMAIN subscriptors[ch] \union {Len(subscriptors[ch]) + 1}
        /\ \A i \in DOMAIN subscriptors[ch] : subscriptors'[ch][i] = subscriptors[ch][i]
        /\ subscriptors'[ch][Len(subscriptors[ch]) + 1] = e
        /\ \A x \in Endpoints : x # ch => subscriptors'[x] = subscriptors[x]
        /\ application' = application /\ params' = params
    BY <1>2, PrepareFacts
  <2>2. c = ch /\ id = Len(subscriptors[ch]) + 1
    BY <1>2, <2>1
  <2>3. \/ ch = e
        \/ /\ EverSubscribed(ch) /\ application[ch] = a /\ params[ch].channel = name
    BY <1>0, <2>1 DEF Room, GetChannel, ChannelsOK
  <2>4. e \in Endpoints /\ phase'[e] = "subscribed" /\ subscription'[e] = id
    BY <1>0, <2>1, <2>2, ConstantFacts DEF TypeOK
  <2>5. phase'[ch] \in {"subscribed", "departed"}
    BY <1>0, <2>1, <2>3, <2>4 DEF Kept, EverSubscribed
  <2>6. application[c] = application[e] /\ params[c].channel = params[e].channel
    BY <2>2, <2>3
  <2> QED BY <2>1, <2>2, <2>4, <2>5, <2>6 DEF EverSubscribed
<1>3. ASSUME NEW e \in Endpoints, phase[e] = "subscribed",
             channels[application[e]][params[e].channel] # Nil,
             Unsubscribe(application[e], params[e].channel, subscription[e])
      PROVE  id \in DOMAIN subscriptors[c] /\ subscriptors'[c][id] = subscriptors[c][id]
  <2>1. CurrentRoom(e) # Nil
    BY <1>3 DEF CurrentRoom
  <2> QED BY <1>3, <2>1, UnsubscribeFacts
<1> QED BY <1>1, <1>2, <1>3, TablesStep
-----------------------------------------------------------------------------
(* The queue, one step at a time.                                          *)

(* A job that is queued, and not the one the reactor takes, stays queued.  *)
LEMMA PendingStays ==
    ASSUME ticks \in Seq(Jobs), NEW job, Pending(job),
           \/ UNCHANGED ticks
           \/ \E new \in Jobs : Schedule(new)
           \/ (\E raised : TakeTick(raised)) /\ Head(ticks) # job
    PROVE  \E i \in DOMAIN ticks' : ticks'[i] = job
<1>1. CASE UNCHANGED ticks
  BY <1>1 DEF Pending
<1>2. ASSUME NEW new \in Jobs, Schedule(new) PROVE \E i \in DOMAIN ticks' : ticks'[i] = job
  <2>1. /\ DOMAIN ticks' = 1 .. Len(ticks) + 1 /\ DOMAIN ticks = 1 .. Len(ticks)
        /\ Len(ticks) \in Nat
        /\ \A i \in DOMAIN ticks : ticks'[i] = ticks[i]
    BY <1>2, AppendFacts DEF Schedule
  <2> QED BY <2>1 DEF Pending
<1>3. ASSUME NEW raised, TakeTick(raised), Head(ticks) # job PROVE \E i \in DOMAIN ticks' : ticks'[i] = job
  <2>1. /\ Head(ticks) = ticks[1]
        /\ \A i \in DOMAIN ticks : i # 1 => i - 1 \in DOMAIN ticks' /\ ticks'[i - 1] = ticks[i]
    BY <1>3, TailFacts DEF TakeTick
  <2> QED BY <1>3, <2>1 DEF Pending
<1> QED BY <1>1, <1>2, <1>3

(* A step queues a job, or takes one, or leaves the queue alone.           *)
LEMMA QueueStep ==
    ASSUME IInv, [Next]_vars
    PROVE  \/ UNCHANGED ticks
           \/ \E new \in Jobs : Schedule(new)
           \/ \E raised : TakeTick(raised) /\ Tick
<1>0. TypeOK /\ ApplicationsOK
  BY DEF IInv, StructureOK
<1>1. ASSUME NEW e \in Endpoints,
             Authenticate(e) \/ LoginFailed(e) \/ CloseFrame(e) \/ PushTimerFires(e)
      PROVE  UNCHANGED ticks
  BY <1>1 DEF Authenticate, LoginFailed, CloseFrame, PushTimerFires, loopVars
<1>2. ASSUME NEW e \in Endpoints, LoginOk(e) PROVE \E new \in Jobs : Schedule(new)
  BY <1>2 DEF LoginOk, PrepareJob, Jobs
<1>3. ASSUME NEW e \in Endpoints, SendRequest(e) \/ OnMessage(e)
      PROVE  \E new \in Jobs : Schedule(new)
  BY <1>0, <1>3, PrepareSendRequestType DEF SendRequest, OnMessage
<1>4. ASSUME NEW e \in Endpoints, OnClose(e)
      PROVE  UNCHANGED ticks \/ \E new \in Jobs : Schedule(new)
  <2>1. CASE UNCHANGED ticks
    BY <2>1
  <2>2. CASE /\ Unsubscribe(application[e], params[e].channel, subscription[e])
             /\ channels[application[e]][params[e].channel] # Nil
    BY <1>0, <1>4, <2>2
       DEF OnClose, Unsubscribe, ApplicationsOK, TypeOK, AppTypeOK, CleanupJob, Jobs
  <2> QED BY <1>4, <2>1, <2>2 DEF OnClose, Unsubscribe, loopVars
<1>5. ASSUME Tick PROVE \E raised : TakeTick(raised)
  BY <1>5 DEF Tick, Prepare, Cleanup, Publish
<1>6. ASSUME UNCHANGED vars PROVE UNCHANGED ticks
  BY <1>6 DEF vars, loopVars
<1> QED BY <1>1, <1>2, <1>3, <1>4, <1>5, <1>6 DEF Next

(* A job that is queued is there afterwards.                               *)
LEMMA ScheduledIsPending ==
    ASSUME ticks \in Seq(Jobs), NEW job \in Jobs, Schedule(job)
    PROVE  \E i \in DOMAIN ticks' : ticks'[i] = job
<1>1. /\ DOMAIN ticks' = 1 .. Len(ticks) + 1 /\ Len(ticks) \in Nat
      /\ ticks'[Len(ticks) + 1] = job
  BY AppendFacts DEF Schedule
<1> QED BY <1>1

(* Only its login makes a subscriber an accepted one, and only its         *)
(* prepare_connection takes its job.                                       *)
LEMMA AcceptedOKStep == IInv /\ [Next]_vars => AcceptedOK'
<1> SUFFICES ASSUME IInv, [Next]_vars, NEW f \in Endpoints, phase'[f] = "accepted"
             PROVE  f \in Subscribers /\ \E i \in DOMAIN ticks' : ticks'[i] = PrepareJob(f)
  BY DEF AcceptedOK, Pending, PrepareJob
<1> DEFINE job == PrepareJob(f)
<1>0. TypeOK /\ AcceptedOK /\ ticks \in Seq(Jobs) /\ phase \in [Endpoints -> Phases]
  BY DEF IInv, StructureOK, TypeOK
<1>1. ASSUME NEW e \in Endpoints, LoginOk(e), e = f
      PROVE  f \in Subscribers /\ \E i \in DOMAIN ticks' : ticks'[i] = job
  <2>1. job \in Jobs /\ Schedule(job) /\ f \in Subscribers
    BY <1>1 DEF LoginOk, PrepareJob, Jobs
  <2> HIDE DEF job
  <2> QED BY <1>0, <2>1, ScheduledIsPending
<1>2. ASSUME phase[f] = "accepted", Tick => Head(ticks) # job
      PROVE  f \in Subscribers /\ \E i \in DOMAIN ticks' : ticks'[i] = job
  <2>1. f \in Subscribers /\ Pending(job)
    BY <1>0, <1>2 DEF AcceptedOK
  <2> HIDE DEF job
  <2>2. CASE UNCHANGED ticks
    BY <2>1, <2>2 DEF Pending
  <2>3. CASE \E new \in Jobs : Schedule(new)
    BY <1>0, <2>1, <2>3, PendingStays
  <2>4. CASE \E raised : TakeTick(raised) /\ Tick
    BY <1>0, <1>2, <2>1, <2>4, PendingStays
  <2> QED BY <2>1, <2>2, <2>3, <2>4, QueueStep
<1>3. CASE Tick
  <2>1. phase[f] = "accepted" /\ Head(ticks) # job
    <3>1. ASSUME NEW e \in Subscribers, Head(ticks) = PrepareJob(e), Prepare(e)
          PROVE  phase[f] = "accepted" /\ Head(ticks) # job
      <4>1. phase' = [phase EXCEPT ![e] = "subscribed"] /\ e \in Endpoints
        BY <3>1, ConstantFacts DEF Prepare, EnterPhase
      <4>2. e # f /\ phase[f] = "accepted"
        BY <1>0, <4>1
      <4> QED BY <3>1, <4>2 DEF PrepareJob
    <3>2. ASSUME NEW a, NEW name, NEW ch, Head(ticks) = CleanupJob(a, name, ch),
                 Cleanup(CleanupJob(a, name, ch))
          PROVE  phase[f] = "accepted" /\ Head(ticks) # job
      BY <3>2 DEF Cleanup, connVars, CleanupJob, PrepareJob
    <3>3. ASSUME NEW e, NEW m, Head(ticks) = PublishJob(e, m), Publish(e, m)
          PROVE  phase[f] = "accepted" /\ Head(ticks) # job
      BY <3>3 DEF Publish, PublishJob, PrepareJob
    <3> QED BY <1>3, <3>1, <3>2, <3>3, TickCases
  <2> QED BY <1>2, <2>1
<1>4. ASSUME NEW e \in Endpoints, LoginOk(e), e # f, ~ Tick
      PROVE  f \in Subscribers /\ \E i \in DOMAIN ticks' : ticks'[i] = job
  <2>1. phase[f] = "accepted"
    BY <1>0, <1>4 DEF LoginOk, EnterPhase
  <2> QED BY <1>2, <1>4, <2>1
<1>5. ASSUME NEW e \in Endpoints, ~ Tick,
             \/ Authenticate(e) \/ LoginFailed(e) \/ SendRequest(e) \/ OnMessage(e)
             \/ CloseFrame(e) \/ OnClose(e) \/ PushTimerFires(e)
      PROVE  f \in Subscribers /\ \E i \in DOMAIN ticks' : ticks'[i] = job
  <2>1. phase[f] = "accepted"
    BY <1>0, <1>5 DEF Authenticate, LoginFailed, SendRequest, OnMessage, CloseFrame,
                      OnClose, PushTimerFires, EnterPhase, connVars
  <2> QED BY <1>2, <1>5, <2>1
<1>6. ASSUME UNCHANGED vars, ~ Tick
      PROVE  f \in Subscribers /\ \E i \in DOMAIN ticks' : ticks'[i] = job
  <2>1. phase[f] = "accepted"
    BY <1>6 DEF vars, connVars
  <2> QED BY <1>2, <1>6, <2>1
<1> HIDE DEF job
<1> QED BY <1>1, <1>3, <1>4, <1>5, <1>6 DEF Next, job
-----------------------------------------------------------------------------
(* The inductive invariant.                                                *)

(* A process that has just started has it.                                 *)
LEMMA InitIInv == Init => IInv
<1> SUFFICES ASSUME Init PROVE IInv
  OBVIOUS
<1> USE ConstantFacts DEF Init, LoopInit, ChannelInit, AppInit
<1>1. ChannelTypeOK /\ AppTypeOK
  BY DEF ChannelTypeOK, AppTypeOK
<1>2. ticks \in Seq(Jobs) /\ left \in Nat /\ left <= Len(ticks) /\ DOMAIN ticks = {}
  OBVIOUS
<1>3. received \in [Endpoints -> Seq(Messages)] /\ nextMessageId \in 1 .. (MaxMessages + 1)
  OBVIOUS
<1>4. TypeOK
  BY <1>1, <1>2, <1>3 DEF TypeOK, Phases
<1>5. ApplicationsOK /\ JobsOK /\ AcceptedOK /\ ChannelsOK
  BY <1>2 DEF ApplicationsOK, JobsOK, AcceptedOK, ChannelsOK
<1>6. SubscriptionsOK
  <2>1. \A ch \in Endpoints : subscriptors[ch] = <<>>
    OBVIOUS
  <2>2. DOMAIN <<>> = {}
    OBVIOUS
  <2> QED BY <2>1, <2>2 DEF SubscriptionsOK
<1> QED BY <1>4, <1>5, <1>6 DEF IInv, StructureOK

(* Every behaviour has it for ever.                                        *)
LEMMA IInvAlways == Spec => []IInv
<1>1. IInv /\ [Next]_vars => IInv'
  BY TypeStep, ApplicationsStep, JobsStep, AcceptedOKStep, ChannelsStep, SubscriptionsStep
     DEF IInv, StructureOK
<1> QED BY InitIInv, <1>1, PTL DEF Spec

(* In every behaviour every variable keeps its type, the reactor's batch   *)
(* never outlives its queue and no message gets an id twice or an id that  *)
(* is out of bounds.                                                       *)
THEOREM TypeCorrect == Spec => []TypeOK
<1>1. IInv => TypeOK
  BY DEF IInv
<1> QED BY IInvAlways, <1>1, PTL

(* In every behaviour endpoints, applications, channel objects,            *)
(* subscriptions and queued jobs fit together as StructureOK says; among   *)
(* them, an accepted subscriber's prepare_connection is queued.            *)
THEOREM StructureCorrect == Spec => []StructureOK
<1>1. IInv => StructureOK
  BY DEF IInv
<1> QED BY IInvAlways, <1>1, PTL
-----------------------------------------------------------------------------
(* Channels are not leaked.                                                *)

(* The listeners of ch after a step.                                       *)
NextListeners(ch) ==
    {f \in Endpoints : \E id \in DOMAIN subscriptors'[ch] : subscriptors'[ch][id] = f}

(* A step keeps the promise that a channel without listeners is about to   *)
(* be cleaned up: it becomes empty only in an unsubscribe, which queues    *)
(* the cleanup, and a cleanup that finds the channel empty removes it.     *)
LEMMA NoEmptyChannelLeakStep == IInv /\ NoEmptyChannelLeak /\ [Next]_vars => NoEmptyChannelLeak'
<1> SUFFICES ASSUME IInv, NoEmptyChannelLeak, [Next]_vars,
                    NEW b \in Endpoints, NEW n \in ChannelNames,
                    channels'[b][n] # Nil, NextListeners(channels'[b][n]) = {}
             PROVE  \E i \in DOMAIN ticks' : ticks'[i] = CleanupJob(b, n, channels'[b][n])
  BY DEF NoEmptyChannelLeak, CleanupJob, Pending, Listeners, NextListeners
<1>0. TypeOK /\ ApplicationsOK /\ ChannelsOK /\ ticks \in Seq(Jobs)
  BY DEF IInv, StructureOK, TypeOK
<1> DEFINE ch == channels[b][n]
           job == CleanupJob(b, n, ch)
<1>1. ASSUME ch # Nil, Listeners(ch) = {}, channels'[b][n] = ch, ~ (Tick /\ Head(ticks) = job)
      PROVE  \E i \in DOMAIN ticks' : ticks'[i] = job
  <2>1. Pending(job)
    BY <1>1 DEF NoEmptyChannelLeak
  <2> HIDE DEF job
  <2>2. CASE UNCHANGED ticks
    BY <2>1, <2>2 DEF Pending
  <2>3. CASE \E new \in Jobs : Schedule(new)
    BY <1>0, <2>1, <2>3, PendingStays
  <2>4. CASE \E raised : TakeTick(raised) /\ Tick
    BY <1>0, <1>1, <2>1, <2>4, PendingStays
  <2> QED BY <2>2, <2>3, <2>4, QueueStep
<1>2. CASE UNCHANGED <<channels, subscriptors>>
  <2>1. ch # Nil /\ ch \in Endpoints /\ Listeners(ch) = {} /\ channels'[b][n] = ch
    BY <1>0, <1>2 DEF Listeners, NextListeners, TypeOK, AppTypeOK
  <2>2. CASE Tick /\ Head(ticks) = job
    <3>1. PICK a \in Endpoints, name \in ChannelNames, c \in Endpoints :
              Head(ticks) = CleanupJob(a, name, c) /\ Cleanup(CleanupJob(a, name, c))
      <4>1. Head(ticks).kind = "cleanup"
        BY <2>2 DEF CleanupJob
      <4>2. \A e, m : PrepareJob(e).kind = "prepare" /\ PublishJob(e, m).kind = "publish"
        BY DEF PrepareJob, PublishJob
      <4> QED BY <2>2, <4>1, <4>2, TickCases
    <3>2. a = b /\ name = n /\ c = ch
      BY <2>2, <3>1 DEF CleanupJob
    <3>3. channels' = [channels EXCEPT ![b][n] = Nil]
      BY <2>1, <3>1, <3>2 DEF Cleanup, CleanupAfterUnsubscribe, CleanupJob
    <3> QED BY <1>0, <3>3 DEF TypeOK, AppTypeOK
  <2> QED BY <1>1, <2>1, <2>2
<1>3. ASSUME NEW e \in Subscribers, Prepare(e), phase[e] = "accepted",
             Head(ticks) = PrepareJob(e)
      PROVE  \E i \in DOMAIN ticks' : ticks'[i] = CleanupJob(b, n, channels'[b][n])
  <2>1. /\ Room(e) \in Endpoints /\ e \in Endpoints
        /\ application[e] \in Endpoints /\ params[e].channel \in ChannelNames
        /\ channels' = [channels EXCEPT ![application[e]][params[e].channel] = Room(e)]
        /\ DOMAIN subscriptors'[Room(e)]
              = DOMAIN subscriptors[Room(e)] \union {Len(subscriptors[Room(e)]) + 1}
        /\ subscriptors'[Room(e)][Len(subscriptors[Room(e)]) + 1] = e
        /\ \A c \in Endpoints : c # Room(e) => subscriptors'[c] = subscriptors[c]
    BY <1>3, PrepareFacts, ConstantFacts
  <2>2. e \in NextListeners(Room(e))
    BY <2>1 DEF NextListeners
  <2>3. channels'[b][n] # Room(e)
    BY <2>2
  <2>4. channels'[b][n] = ch
    BY <1>0, <2>1, <2>3 DEF TypeOK, AppTypeOK
  <2>5. ch \in Endpoints /\ Listeners(ch) = {}
    <3>1. ch \in Endpoints
      BY <1>0, <2>4 DEF TypeOK, AppTypeOK
    <3>2. subscriptors'[ch] = subscriptors[ch]
      BY <2>1, <2>3, <2>4, <3>1
    <3>3. NextListeners(ch) = {}
      BY <2>4
    <3> QED BY <3>1, <3>2, <3>3 DEF Listeners, NextListeners
  <2>6. Head(ticks) # job
    BY <1>3 DEF PrepareJob, CleanupJob
  <2> QED BY <1>1, <2>4, <2>5, <2>6
<1>4. ASSUME NEW a \in Endpoints, NEW name \in ChannelNames, NEW c \in Endpoints,
             Head(ticks) = CleanupJob(a, name, c), UNCHANGED subscriptors,
             channels' = [channels EXCEPT ![a][name] = Nil]
      PROVE  \E i \in DOMAIN ticks' : ticks'[i] = CleanupJob(b, n, channels'[b][n])
  <2>1. ~ (a = b /\ name = n) /\ channels'[b][n] = ch
    BY <1>0, <1>4 DEF TypeOK, AppTypeOK
  <2>2. ch # Nil /\ Listeners(ch) = {}
    BY <1>4, <2>1 DEF Listeners, NextListeners
  <2>3. Head(ticks) # job
    BY <1>4, <2>1 DEF CleanupJob
  <2> QED BY <1>1, <2>1, <2>2, <2>3
<1>5. ASSUME NEW e \in Endpoints, OnClose(e), phase[e] = "subscribed", UNCHANGED channels,
             channels[application[e]][params[e].channel] # Nil,
             Unsubscribe(application[e], params[e].channel, subscription[e])
      PROVE  \E i \in DOMAIN ticks' : ticks'[i] = CleanupJob(b, n, channels'[b][n])
  <2> DEFINE a == application[e]
             name == params[e].channel
  <2>1. CurrentRoom(e) # Nil /\ channels'[b][n] = ch
    BY <1>5 DEF CurrentRoom
  <2>2. /\ a \in Endpoints /\ name \in ChannelNames /\ CurrentRoom(e) \in Endpoints
        /\ \A c \in Endpoints :
              /\ DOMAIN subscriptors'[c] = DOMAIN subscriptors[c]
              /\ \A id \in DOMAIN subscriptors[c] :
                    subscriptors'[c][id] = IF c = CurrentRoom(e) /\ id = subscription[e]
                                           THEN Nil ELSE subscriptors[c][id]
        /\ Schedule(CleanupJob(a, name, CurrentRoom(e)))
    BY <1>5, <2>1, UnsubscribeFacts
  <2>3. CASE ch = CurrentRoom(e)
    <3>1. a = b /\ name = n
      BY <1>0, <2>1, <2>2, <2>3 DEF ChannelsOK, CurrentRoom
    <3>2. job \in Jobs /\ Schedule(job)
      BY <2>2, <2>3, <3>1 DEF Jobs, CleanupJob
    <3> HIDE DEF job
    <3> QED BY <1>0, <2>1, <3>2, ScheduledIsPending DEF job
  <2>4. CASE ch # CurrentRoom(e)
    <3>1. ch \in Endpoints
      BY <1>0, <2>1 DEF TypeOK, AppTypeOK
    <3>2. Listeners(ch) = {}
      BY <2>1, <2>2, <2>4, <3>1 DEF Listeners, NextListeners
    <3>3. ~ (Tick /\ Head(ticks) = job)
      <4>1. ASSUME Tick PROVE FALSE
        BY <1>5, <4>1, TickCases DEF OnClose, Prepare, Cleanup, Publish, connVars
      <4> QED BY <4>1
    <3> QED BY <1>1, <2>1, <3>2, <3>3
  <2> QED BY <2>3, <2>4
<1> QED BY <1>2, <1>3, <1>4, <1>5, TablesStep

(* In every behaviour a channel that can be looked up and has lost its     *)
(* last listener has a cleanup of this very object in the queue.           *)
THEOREM NoEmptyChannelLeakAlways == Spec => []NoEmptyChannelLeak
<1>1. Init => NoEmptyChannelLeak
  BY DEF Init, AppInit, NoEmptyChannelLeak
<1>2. NoEmptyChannelLeak /\ IInv /\ [Next]_vars => NoEmptyChannelLeak'
  BY NoEmptyChannelLeakStep
<1> QED BY IInvAlways, <1>1, <1>2, PTL DEF Spec
-----------------------------------------------------------------------------
(* Connections that are gone hold nothing.                                 *)

(* Only its own on_close makes a connection a departed one, and no step    *)
(* starts a departed connection's keep-alive timer again.                  *)
LEMMA DepartStep ==
    ASSUME IInv, [Next]_vars, NEW f \in Endpoints, phase'[f] = "departed"
    PROVE  \/ /\ phase[f] = "departed"
              /\ f \in keepAlive' => f \in keepAlive
           \/ /\ phase[f] = "subscribed" /\ f \notin keepAlive' /\ UNCHANGED channels
              /\ Unsubscribe(application[f], params[f].channel, subscription[f])
<1>0. phase \in [Endpoints -> Phases]
  BY DEF IInv, TypeOK
<1>1. ASSUME NEW e \in Endpoints,
             \/ Authenticate(e) \/ LoginFailed(e) \/ LoginOk(e) \/ SendRequest(e)
             \/ OnMessage(e) \/ CloseFrame(e) \/ PushTimerFires(e)
      PROVE  phase[f] = "departed" /\ keepAlive' = keepAlive
  BY <1>0, <1>1 DEF Authenticate, LoginFailed, LoginOk, SendRequest, OnMessage, CloseFrame,
                    PushTimerFires, EnterPhase, connVars
<1>2. ASSUME NEW e \in Endpoints, OnClose(e), e # f
      PROVE  phase[f] = "departed" /\ (f \in keepAlive' => f \in keepAlive)
  BY <1>0, <1>2 DEF OnClose, EnterPhase
<1>3. ASSUME OnClose(f)
      PROVE  \/ phase[f] = "departed" /\ f \notin keepAlive'
             \/ /\ phase[f] = "subscribed" /\ f \notin keepAlive' /\ UNCHANGED channels
                /\ Unsubscribe(application[f], params[f].channel, subscription[f])
  BY <1>0, <1>3 DEF OnClose, EnterPhase, StatConnectionClose
<1>4. ASSUME NEW e \in Subscribers, Prepare(e)
      PROVE  phase[f] = "departed" /\ (f \in keepAlive' => f \in keepAlive)
  BY <1>0, <1>4, ConstantFacts DEF Prepare, EnterPhase
<1>5. ASSUME (\E job : Cleanup(job)) \/ (\E e, m : Publish(e, m)) \/ UNCHANGED vars
      PROVE  phase[f] = "departed" /\ keepAlive' = keepAlive
  BY <1>5 DEF Cleanup, Publish, vars, connVars
<1> QED BY <1>1, <1>2, <1>3, <1>4, <1>5, TickCases DEF Next

(* A listener of a registered channel object finds exactly this object     *)
(* under the application and the channel name it holds, at the id it       *)
(* holds.                                                                  *)
LEMMA ListenerFacts ==
    ASSUME IInv, NEW b \in Endpoints, NEW n \in ChannelNames, channels[b][n] # Nil,
           NEW f \in Endpoints, NEW id \in DOMAIN subscriptors[channels[b][n]],
           subscriptors[channels[b][n]][id] = f
    PROVE  /\ application[f] = b /\ params[f].channel = n /\ CurrentRoom(f) = channels[b][n]
           /\ subscription[f] = id /\ f \in Listeners(channels[b][n]) /\ EverSubscribed(f)
<1>1. channels[b][n] \in Endpoints /\ f # Nil
  BY ConstantFacts DEF IInv, TypeOK, AppTypeOK
<1>2. /\ application[channels[b][n]] = b /\ params[channels[b][n]].channel = n
      /\ application[f] = application[channels[b][n]]
      /\ params[f].channel = params[channels[b][n]].channel /\ subscription[f] = id
      /\ EverSubscribed(f)
  BY <1>1 DEF IInv, StructureOK, ChannelsOK, SubscriptionsOK
<1> QED BY <1>2 DEF CurrentRoom, Listeners

(* The entries of a registered channel after a step were there before, in  *)
(* the same registered object, but for the one prepare_connection adds.    *)
LEMMA EntriesStep ==
    ASSUME IInv, [Next]_vars, NEW b \in Endpoints, NEW n \in ChannelNames,
           NEW c \in Endpoints, channels'[b][n] = c,
           NEW f \in Endpoints, NEW id \in DOMAIN subscriptors'[c], subscriptors'[c][id] = f
    PROVE  \/ /\ channels[b][n] = c /\ id \in DOMAIN subscriptors[c]
              /\ subscriptors[c][id] = f
           \/ phase[f] = "accepted"
<1>0. TypeOK /\ SubscriptionsOK
  BY DEF IInv, StructureOK
<1>1. CASE UNCHANGED <<channels, subscriptors>>
  BY <1>1
<1>2. ASSUME NEW e \in Subscribers, Prepare(e), phase[e] = "accepted", phase[f] # "accepted"
      PROVE  /\ channels[b][n] = c /\ id \in DOMAIN subscriptors[c]
             /\ subscriptors[c][id] = f
  <2>1. /\ Room(e) \in Endpoints
        /\ application[e] \in Endpoints /\ params[e].channel \in ChannelNames
        /\ channels' = [channels EXCEPT ![application[e]][params[e].channel] = Room(e)]
        /\ DOMAIN subscriptors'[Room(e)]
              = DOMAIN subscriptors[Room(e)] \union {Len(subscriptors[Room(e)]) + 1}
        /\ \A i \in DOMAIN subscriptors[Room(e)] :
              subscriptors'[Room(e)][i] = subscriptors[Room(e)][i]
        /\ subscriptors'[Room(e)][Len(subscriptors[Room(e)]) + 1] = e
        /\ \A x \in Endpoints : x # Room(e) => subscriptors'[x] = subscriptors[x]
    BY <1>2, PrepareFacts
  <2>2. id \in DOMAIN subscriptors[c] /\ subscriptors[c][id] = f
    <3>1. CASE c = Room(e)
      BY <1>2, <2>1, <3>1
    <3>2. CASE c # Room(e)
      BY <2>1, <3>2
    <3> QED BY <3>1, <3>2
  <2>3. EverSubscribed(c)
    BY <1>0, <2>2, ConstantFacts DEF SubscriptionsOK
  <2>4. c # e
    BY <1>2, <2>3 DEF EverSubscribed
  <2>5. CASE b = application[e] /\ n = params[e].channel
    <3>1. Room(e) = c
      BY <1>0, <2>1, <2>5 DEF TypeOK, AppTypeOK
    <3> QED BY <2>2, <2>4, <2>5, <3>1 DEF Room, GetChannel
  <2>6. CASE ~ (b = application[e] /\ n = params[e].channel)
    BY <1>0, <2>1, <2>2, <2>6 DEF TypeOK, AppTypeOK
  <2> QED BY <2>5, <2>6
<1>3. ASSUME NEW a \in Endpoints, NEW name \in ChannelNames, UNCHANGED subscriptors,
             channels' = [channels EXCEPT ![a][name] = Nil]
      PROVE  /\ channels[b][n] = c /\ id \in DOMAIN subscriptors[c]
             /\ subscriptors[c][id] = f
  BY <1>0, <1>3, ConstantFacts DEF TypeOK, AppTypeOK
<1>4. ASSUME NEW e \in Endpoints, phase[e] = "subscribed", UNCHANGED channels,
             channels[application[e]][params[e].channel] # Nil,
             Unsubscribe(application[e], params[e].channel, subscription[e])
      PROVE  /\ channels[b][n] = c /\ id \in DOMAIN subscriptors[c]
             /\ subscriptors[c][id] = f
  <2>1. CurrentRoom(e) # Nil
    BY <1>4 DEF CurrentRoom
  <2>2. /\ DOMAIN subscriptors'[c] = DOMAIN subscriptors[c]
        /\ \A i \in DOMAIN subscriptors[c] :
              subscriptors'[c][i] = IF c = CurrentRoom(e) /\ i = subscription[e]
                                    THEN Nil ELSE subscriptors[c][i]
    BY <1>4, <2>1, UnsubscribeFacts
  <2> QED BY <1>4, <2>2, ConstantFacts
<1> QED BY <1>1, <1>2, <1>3, <1>4, TablesStep

(* A departed connection stays out of every registered channel.            *)
LEMMA DepartedHoldsNothingStep ==
    IInv /\ DepartedHoldsNothing /\ [Next]_vars => DepartedHoldsNothing'
<1> SUFFICES ASSUME IInv, DepartedHoldsNothing, [Next]_vars,
                    NEW f \in Endpoints, phase'[f] = "departed"
             PROVE  /\ f \notin keepAlive'
                    /\ \A b \in Endpoints, n \in ChannelNames :
                          channels'[b][n] # Nil => f \notin NextListeners(channels'[b][n])
  BY DEF DepartedHoldsNothing, Listeners, NextListeners
<1>0. TypeOK' /\ IInv
  BY TypeStep
<1>1. f \notin keepAlive'
  BY DepartStep DEF DepartedHoldsNothing
<1>2. ASSUME NEW b \in Endpoints, NEW n \in ChannelNames, NEW c \in Endpoints,
             channels'[b][n] = c, NEW id \in DOMAIN subscriptors'[c], subscriptors'[c][id] = f
      PROVE  FALSE
  <2>1. phase[f] # "accepted"
    BY DepartStep
  <2>2. channels[b][n] = c /\ id \in DOMAIN subscriptors[c] /\ subscriptors[c][id] = f
    BY <1>2, <2>1, EntriesStep
  <2>3. /\ f \in Listeners(c) /\ CurrentRoom(f) = c /\ subscription[f] = id /\ c # Nil
    BY <2>2, ListenerFacts, ConstantFacts
  <2>4. phase[f] # "departed"
    BY <2>2, <2>3 DEF DepartedHoldsNothing
  <2>5. /\ phase[f] = "subscribed"
        /\ Unsubscribe(application[f], params[f].channel, subscription[f])
    BY <2>4, DepartStep
  <2>6. subscriptors'[c][id] = Nil
    BY <2>2, <2>3, <2>5, UnsubscribeFacts
  <2> QED BY <1>2, <2>6, ConstantFacts
<1>3. \A b \in Endpoints, n \in ChannelNames : channels'[b][n] \in Endpoints \union {Nil}
  BY <1>0 DEF TypeOK, AppTypeOK
<1> QED BY <1>1, <1>2, <1>3 DEF NextListeners

(* In every behaviour a connection whose on_close unsubscribed it is       *)
(* nobody's listener any more, in any channel a message can be sent to.    *)
THEOREM DepartedHoldsNothingAlways == Spec => []DepartedHoldsNothing
<1>1. Init => DepartedHoldsNothing
  BY DEF Init, DepartedHoldsNothing
<1>2. DepartedHoldsNothing /\ IInv /\ [Next]_vars => DepartedHoldsNothing'
  BY DepartedHoldsNothingStep
<1> QED BY IInvAlways, <1>1, <1>2, PTL DEF Spec
-----------------------------------------------------------------------------
(* Clients only hear their own topic.                                      *)

(* Only a publish sends anything to a client.                              *)
LEMMA ReceivedStep ==
    ASSUME IInv, [Next]_vars
    PROVE  \/ received' = received
           \/ \E e \in Endpoints, m \in Messages :
                 /\ phase[e] # "idle" /\ m.from = e
                 /\ CurrentRoom(e) # Nil
                 /\ received' = [r \in Endpoints |->
                       IF Reached(CurrentRoom(e), r) /\ r \notin closed \union closing
                       THEN Append(received[r], m) ELSE received[r]]
<1>1. ASSUME NEW e \in Endpoints,
             \/ Authenticate(e) \/ LoginFailed(e) \/ LoginOk(e) \/ SendRequest(e)
             \/ OnMessage(e) \/ CloseFrame(e) \/ OnClose(e) \/ PushTimerFires(e)
      PROVE  received' = received
  BY <1>1 DEF Authenticate, LoginFailed, LoginOk, SendRequest, OnMessage, CloseFrame, OnClose,
              PushTimerFires, connVars
<1>2. ASSUME (\E e \in Subscribers : Prepare(e)) \/ (\E job : Cleanup(job)) \/ UNCHANGED vars
      PROVE  received' = received
  BY <1>2 DEF Prepare, Cleanup, vars, connVars
<1>3. ASSUME NEW e \in Endpoints, NEW m \in Messages, Publish(e, m), received' # received
      PROVE  /\ CurrentRoom(e) # Nil
             /\ received' = [r \in Endpoints |->
                   IF Reached(CurrentRoom(e), r) /\ r \notin closed \union closing
                   THEN Append(received[r], m) ELSE received[r]]
  <2>1. CASE ConnectionChannel(e) = Nil
    BY <1>3, <2>1 DEF Publish
  <2>2. CASE ConnectionChannel(e) # Nil
    <3>1. ConnectionChannel(e) = params[e].channel
      BY <2>2 DEF ConnectionChannel
    <3> QED BY <1>3, <2>2, <3>1 DEF Publish, CurrentRoom
  <2> QED BY <2>1, <2>2
<1> QED BY <1>1, <1>2, <1>3, TickCases DEF Next

(* Two endpoints of one application that asked for one channel name have   *)
(* one topic.                                                              *)
LEMMA SameTopic ==
    ASSUME IInv, NEW e \in Endpoints, NEW f \in Endpoints,
           phase[e] # "idle", phase[f] # "idle", application[e] = application[f],
           params[e].channel = params[f].channel
    PROVE  params[e] = params[f]
<1>1. params[e].api = params[f].api
  BY DEF IInv, StructureOK, ApplicationsOK
<1>2. /\ params[e] \in [api : ApiIds, channel : ChannelNames]
      /\ params[f] \in [api : ApiIds, channel : ChannelNames]
  BY DEF IInv, TypeOK
<1> QED BY <1>1, <1>2

(* A step sends a message to nobody with another topic than its sender's.  *)
LEMMA IsolationStep == IInv /\ Isolation /\ [Next]_vars => Isolation'
<1> SUFFICES ASSUME IInv, Isolation, [Next]_vars,
                    NEW f \in Endpoints, NEW i \in DOMAIN received'[f]
             PROVE  params[received'[f][i].from] = params[f]
  BY KeptStep DEF Isolation, Kept
<1>0. TypeOK
  BY DEF IInv
<1>1. CASE received' = received
  BY <1>1 DEF Isolation
<1>2. ASSUME NEW e \in Endpoints, NEW m \in Messages, phase[e] # "idle", m.from = e,
             CurrentRoom(e) # Nil,
             received' = [r \in Endpoints |->
                   IF Reached(CurrentRoom(e), r) /\ r \notin closed \union closing
                   THEN Append(received[r], m) ELSE received[r]]
      PROVE  params[received'[f][i].from] = params[f]
  <2>1. CASE ~ Reached(CurrentRoom(e), f) \/ f \in closed \union closing
    <3>1. received'[f] = received[f]
      BY <1>2, <2>1
    <3> QED BY <3>1 DEF Isolation
  <2>2. CASE Reached(CurrentRoom(e), f) /\ f \notin closed \union closing
    <3>1. received'[f] = Append(received[f], m) /\ received[f] \in Seq(Messages)
      BY <1>0, <1>2, <2>2 DEF TypeOK
    <3>2. PICK id \in DOMAIN subscriptors[CurrentRoom(e)] : subscriptors[CurrentRoom(e)][id] = f
      BY <2>2 DEF Reached
    <3>3. application[e] \in Endpoints /\ params[e].channel \in ChannelNames
      BY <1>0, <1>2 DEF IInv, StructureOK, ApplicationsOK, TypeOK
    <3>4. application[f] = application[e] /\ params[f].channel = params[e].channel /\ EverSubscribed(f)
      <4> DEFINE b == application[e]
                 n == params[e].channel
      <4>1. /\ channels[b][n] # Nil /\ id \in DOMAIN subscriptors[channels[b][n]]
            /\ subscriptors[channels[b][n]][id] = f
        BY <1>2, <3>2 DEF CurrentRoom
      <4>2. b \in Endpoints /\ n \in ChannelNames
        BY <3>3
      <4> HIDE DEF b, n
      <4>3. application[f] = b /\ params[f].channel = n /\ EverSubscribed(f)
        BY <4>1, <4>2, ListenerFacts
      <4> QED BY <4>3 DEF b, n
    <3>5. params[e] = params[f]
      BY <1>2, <3>4, SameTopic DEF EverSubscribed
    <3>6. \/ i \in DOMAIN received[f] /\ received'[f][i] = received[f][i]
          \/ received'[f][i] = m
      <4>1. /\ DOMAIN received'[f] = 1 .. Len(received[f]) + 1
            /\ DOMAIN received[f] = 1 .. Len(received[f]) /\ Len(received[f]) \in Nat
            /\ \A k \in DOMAIN received[f] : received'[f][k] = received[f][k]
            /\ received'[f][Len(received[f]) + 1] = m
        BY <3>1, AppendFacts
      <4>2. i \in 1 .. Len(received[f]) \/ i = Len(received[f]) + 1
        BY <4>1
      <4> QED BY <4>1, <4>2
    <3> QED BY <1>2, <3>5, <3>6 DEF Isolation
  <2> QED BY <2>1, <2>2
<1> QED BY <1>1, <1>2, ReceivedStep

(* In every behaviour a client only receives what a client of the same api *)
(* id, asking for the same channel, sent.                                  *)
THEOREM IsolationAlways == Spec => []Isolation
<1>1. Init => Isolation
  <2>1. DOMAIN <<>> = {}
    OBVIOUS
  <2> QED BY <2>1 DEF Init, Isolation
<1>2. Isolation /\ IInv /\ [Next]_vars => Isolation'
  BY IsolationStep
<1> QED BY IInvAlways, <1>1, <1>2, PTL DEF Spec
-----------------------------------------------------------------------------
(* Applications have their record before it is used.                       *)

(* A cleanup job is queued by the on_close of a subscribed connection, in  *)
(* its application.                                                        *)
LEMMA CleanupJobStep ==
    ASSUME IInv, [Next]_vars, NEW i \in DOMAIN ticks', ticks'[i].kind = "cleanup"
    PROVE  \/ \E k \in DOMAIN ticks : ticks'[i] = ticks[k]
           \/ \E e \in Endpoints : phase[e] = "subscribed" /\ ticks'[i].app = application[e]
<1>0. TypeOK /\ ticks \in Seq(Jobs)
  BY DEF IInv, TypeOK
<1>1. ASSUME NEW job \in Jobs, Schedule(job)
      PROVE  (\E k \in DOMAIN ticks : ticks'[i] = ticks[k]) \/ ticks'[i] = job
  <2>1. /\ DOMAIN ticks' = 1 .. Len(ticks) + 1 /\ DOMAIN ticks = 1 .. Len(ticks)
        /\ Len(ticks) \in Nat
        /\ \A k \in DOMAIN ticks : ticks'[k] = ticks[k]
        /\ ticks'[Len(ticks) + 1] = job
    BY <1>0, <1>1, AppendFacts DEF Schedule
  <2>2. i \in 1 .. Len(ticks) \/ i = Len(ticks) + 1
    BY <2>1
  <2> QED BY <2>1, <2>2
<1>2. CASE UNCHANGED ticks
  BY <1>2
<1>3. ASSUME NEW raised, TakeTick(raised) PROVE \E k \in DOMAIN ticks : ticks'[i] = ticks[k]
  BY <1>0, <1>3, TailFacts DEF TakeTick
<1>4. ASSUME NEW e \in Endpoints, LoginOk(e) PROVE \E k \in DOMAIN ticks : ticks'[i] = ticks[k]
  <2>1. PrepareJob(e) \in Jobs /\ Schedule(PrepareJob(e)) /\ PrepareJob(e).kind = "prepare"
    BY <1>4 DEF LoginOk, PrepareJob, Jobs
  <2> QED BY <1>1, <2>1
<1>5. ASSUME NEW e \in Endpoints, SendRequest(e) \/ OnMessage(e)
      PROVE  \E k \in DOMAIN ticks : ticks'[i] = ticks[k]
  <2>1. /\ PublishJob(e, NewMessage(e)) \in Jobs /\ Schedule(PublishJob(e, NewMessage(e)))
        /\ PublishJob(e, NewMessage(e)).kind = "publish"
    BY <1>0, <1>5, PrepareSendRequestType DEF SendRequest, OnMessage, PublishJob
  <2> QED BY <1>1, <2>1
<1>6. ASSUME NEW e \in Endpoints, OnClose(e), ~ UNCHANGED ticks
      PROVE  \/ \E k \in DOMAIN ticks : ticks'[i] = ticks[k]
             \/ phase[e] = "subscribed" /\ ticks'[i].app = application[e]
  <2>1. /\ phase[e] = "subscribed" /\ CurrentRoom(e) # Nil
        /\ Unsubscribe(application[e], params[e].channel, subscription[e])
    BY <1>6 DEF OnClose, Unsubscribe, CurrentRoom, loopVars
  <2> DEFINE job == CleanupJob(application[e], params[e].channel, CurrentRoom(e))
  <2>2. Schedule(job) /\ job \in Jobs /\ job.app = application[e]
    BY <2>1, UnsubscribeFacts DEF CleanupJob, Jobs
  <2> HIDE DEF job
  <2> QED BY <1>1, <2>1, <2>2
<1>7. ASSUME NEW e \in Endpoints,
             Authenticate(e) \/ LoginFailed(e) \/ CloseFrame(e) \/ PushTimerFires(e)
      PROVE  UNCHANGED ticks
  BY <1>7 DEF Authenticate, LoginFailed, CloseFrame, PushTimerFires, loopVars
<1>8. ASSUME Tick PROVE \E raised : TakeTick(raised)
  BY <1>8 DEF Tick, Prepare, Cleanup, Publish
<1>9. ASSUME UNCHANGED vars PROVE UNCHANGED ticks
  BY <1>9 DEF vars, loopVars
<1> QED BY <1>2, <1>3, <1>4, <1>5, <1>6, <1>7, <1>8, <1>9 DEF Next

(* A login reaches "accepted" with the record set on its own instance.     *)
LEMMA AcceptedStep ==
    ASSUME IInv, [Next]_vars, NEW e \in Endpoints,
           phase'[e] \in {"accepted", "subscribed", "departed"},
           phase[e] \notin {"accepted", "subscribed", "departed"}
    PROVE  application[e] \in appInfo' /\ phase[e] = "awaiting"
<1>0. phase \in [Endpoints -> Phases]
  BY DEF IInv, TypeOK
<1>1. ASSUME NEW f \in Endpoints,
             \/ Authenticate(f) \/ LoginFailed(f) \/ SendRequest(f) \/ OnMessage(f)
             \/ CloseFrame(f) \/ OnClose(f) \/ PushTimerFires(f)
      PROVE  FALSE
  BY <1>0, <1>1 DEF Authenticate, LoginFailed, SendRequest, OnMessage, CloseFrame, OnClose,
                    PushTimerFires, EnterPhase, connVars
<1>2. ASSUME NEW f \in Endpoints, LoginOk(f)
      PROVE  application[e] \in appInfo' /\ phase[e] = "awaiting"
  BY <1>0, <1>2 DEF LoginOk, EnterPhase, SetAppInfo
<1>3. ASSUME NEW f \in Subscribers, Prepare(f), phase[f] = "accepted" PROVE FALSE
  BY <1>0, <1>3 DEF Prepare, EnterPhase
<1>4. ASSUME (\E job : Cleanup(job)) \/ (\E f, m : Publish(f, m)) \/ UNCHANGED vars PROVE FALSE
  BY <1>4 DEF Cleanup, Publish, vars, connVars
<1> QED BY <1>1, <1>2, <1>3, <1>4, TickCases DEF Next

(* The steps keep it: a cleanup or a channel only comes after a login, and *)
(* no step takes a record away.                                            *)
LEMMA AppInfoBeforeUseStep == IInv /\ AppInfoBeforeUse /\ [Next]_vars => AppInfoBeforeUse'
<1> SUFFICES ASSUME IInv, AppInfoBeforeUse, [Next]_vars PROVE AppInfoBeforeUse'
  OBVIOUS
<1>0. TypeOK /\ ApplicationsOK /\ Kept /\ ChannelsOK' /\ TypeOK'
  BY KeptStep, ChannelsStep, TypeStep DEF IInv, StructureOK
<1>1. ASSUME NEW e \in Endpoints, phase'[e] \in {"accepted", "subscribed", "departed"}
      PROVE  application'[e] \in appInfo'
  <2>1. CASE phase[e] \in {"accepted", "subscribed", "departed"}
    BY <1>0, <2>1 DEF AppInfoBeforeUse, Kept
  <2>2. CASE phase[e] \notin {"accepted", "subscribed", "departed"}
    BY <1>0, <1>1, <2>2, AcceptedStep DEF Kept
  <2> QED BY <2>1, <2>2
<1>2. ASSUME NEW a \in Endpoints, NEW name \in ChannelNames, channels'[a][name] # Nil
      PROVE  a \in appInfo'
  <2>1. /\ channels'[a][name] \in Endpoints
        /\ application'[channels'[a][name]] = a
        /\ phase'[channels'[a][name]] \in {"subscribed", "departed"}
    BY <1>0, <1>2 DEF ChannelsOK, EverSubscribed, TypeOK, AppTypeOK
  <2> QED BY <1>1, <2>1
<1>3. ASSUME NEW i \in DOMAIN ticks', ticks'[i].kind = "cleanup"
      PROVE  ticks'[i].app \in appInfo'
  <2>1. CASE \E k \in DOMAIN ticks : ticks'[i] = ticks[k]
    BY <1>0, <1>3, <2>1 DEF AppInfoBeforeUse, Kept
  <2>2. CASE \E e \in Endpoints : phase[e] = "subscribed" /\ ticks'[i].app = application[e]
    BY <1>0, <2>2 DEF AppInfoBeforeUse, Kept
  <2> QED BY <1>3, <2>1, <2>2, CleanupJobStep
<1> QED BY <1>1, <1>2, <1>3 DEF AppInfoBeforeUse, ChannelsOf

(* In every behaviour no step finds the @app_info of an application it     *)
(* subscribes to, or destroys, nil.                                        *)
THEOREM AppInfoBeforeUseAlways == Spec => []AppInfoBeforeUse
<1>1. Init => AppInfoBeforeUse
  <2>1. DOMAIN <<>> = {}
    OBVIOUS
  <2> QED BY <2>1 DEF Init, AppInit, LoopInit, AppInfoBeforeUse, ChannelsOf
<1>2. AppInfoBeforeUse /\ IInv /\ [Next]_vars => AppInfoBeforeUse'
  BY AppInfoBeforeUseStep
<1> QED BY IInvAlways, <1>1, <1>2, PTL DEF Spec
-----------------------------------------------------------------------------
(* Applications are not leaked by those who used them.                     *)

(* Only a subscription and a cleanup change which applications have raised *)
(* in their destroy.                                                       *)
LEMMA UndestroyedStep ==
    ASSUME IInv, [Next]_vars
    PROVE  \/ undestroyed' = undestroyed
           \/ \E f \in Subscribers : Prepare(f) /\ phase[f] = "accepted"
           \/ \E b \in Endpoints, n \in ChannelNames, ch \in Endpoints :
                 Cleanup(CleanupJob(b, n, ch))
<1>1. ASSUME NEW e \in Endpoints,
             \/ Authenticate(e) \/ LoginFailed(e) \/ LoginOk(e) \/ SendRequest(e)
             \/ OnMessage(e) \/ CloseFrame(e) \/ OnClose(e) \/ PushTimerFires(e)
      PROVE  undestroyed' = undestroyed
  BY <1>1 DEF Authenticate, LoginFailed, LoginOk, SendRequest, OnMessage, CloseFrame, OnClose,
              PushTimerFires, LoadApplication, SetAppInfo, StatConnectionClose, PushTimer, appVars
<1>2. ASSUME NEW e, NEW m, Publish(e, m) PROVE undestroyed' = undestroyed
  BY <1>2 DEF Publish, appVars
<1>3. ASSUME UNCHANGED vars PROVE undestroyed' = undestroyed
  BY <1>3 DEF vars, appVars
<1> QED BY <1>1, <1>2, <1>3, TickCases DEF Next

(* The step that removes the last channel of a registered application      *)
(* takes it out of @@applications, or destroy raised; every other step     *)
(* that leaves it without a channel leaves who has subscribed to it as it  *)
(* was.                                                                    *)
LEMMA ApplicationReclaimedStep ==
    IInv /\ ApplicationReclaimed /\ [Next]_vars => ApplicationReclaimed'
<1> SUFFICES ASSUME IInv, ApplicationReclaimed, [Next]_vars,
                    NEW api \in ApiIds, applications'[api] # Nil,
                    \A name \in ChannelNames : channels'[applications'[api]][name] = Nil,
                    applications'[api] \notin undestroyed',
                    NEW e \in Endpoints, application'[e] = applications'[api],
                    phase'[e] \in {"subscribed", "departed"}
             PROVE  FALSE
  BY DEF ApplicationReclaimed, ChannelsOf
<1> DEFINE a == applications'[api]
<1>0. TypeOK /\ ApplicationsOK /\ Kept /\ TypeOK'
  BY KeptStep, TypeStep DEF IInv, StructureOK
<1>1. a \in Endpoints
  BY <1>0 DEF TypeOK, AppTypeOK
<1>2. ASSUME NEW f \in Endpoints, Authenticate(f), a = f PROVE FALSE
  <2>1. phase[f] = "idle" /\ phase'[f] = "awaiting" /\ (e # f => phase'[e] = phase[e])
    BY <1>0, <1>2 DEF Authenticate, EnterPhase, TypeOK
  <2>2. e # f /\ phase[e] # "idle"
    BY <2>1
  <2>3. application[e] = f
    BY <1>0, <1>2, <2>2 DEF Kept
  <2> QED BY <1>0, <2>1, <2>2, <2>3 DEF ApplicationsOK
<1>3. CASE applications[api] = a
  <2>1. phase[a] # "idle" /\ params[a].api = api
    BY <1>0, <1>3 DEF ApplicationsOK
  <2>2. ASSUME NEW f \in Subscribers, Prepare(f), phase[f] = "accepted"
        PROVE  application[f] # a
    <3>1. /\ Room(f) \in Endpoints /\ application[f] \in Endpoints
          /\ params[f].channel \in ChannelNames
          /\ channels' = [channels EXCEPT ![application[f]][params[f].channel] = Room(f)]
      BY <2>2, PrepareFacts
    <3>2. channels'[application[f]][params[f].channel] = Room(f)
      BY <1>0, <3>1 DEF TypeOK, AppTypeOK
    <3>3. channels'[a][params[f].channel] = Nil
      BY <3>1
    <3> HIDE DEF a
    <3> QED BY <3>1, <3>2, <3>3, ConstantFacts
  <2>3. EverSubscribed(e) /\ application[e] = a
    <3>1. CASE phase[e] \in {"subscribed", "departed"}
      BY <1>0, <3>1 DEF Kept, EverSubscribed
    <3>2. CASE phase[e] \notin {"subscribed", "departed"}
      <4>1. Prepare(e) /\ e \in Subscribers /\ phase[e] = "accepted"
        <5>1. ASSUME NEW f \in Endpoints,
                     \/ Authenticate(f) \/ LoginFailed(f) \/ LoginOk(f) \/ SendRequest(f)
                     \/ OnMessage(f) \/ CloseFrame(f) \/ OnClose(f) \/ PushTimerFires(f)
              PROVE  FALSE
          BY <1>0, <3>2, <5>1
             DEF Authenticate, LoginFailed, LoginOk, SendRequest, OnMessage, CloseFrame, OnClose,
                 PushTimerFires, EnterPhase, connVars, TypeOK
        <5>2. ASSUME NEW f \in Subscribers, Prepare(f), f # e PROVE FALSE
          BY <1>0, <3>2, <5>2 DEF Prepare, EnterPhase, TypeOK
        <5>3. ASSUME (\E job : Cleanup(job)) \/ (\E f, m : Publish(f, m)) \/ UNCHANGED vars
              PROVE FALSE
          BY <3>2, <5>3 DEF Cleanup, Publish, vars, connVars
        <5> QED BY <5>1, <5>2, <5>3, TickCases DEF Next
      <4>2. application[e] = a
        BY <1>0, <4>1 DEF Kept
      <4> QED BY <2>2, <4>1, <4>2
    <3> QED BY <3>1, <3>2
  <2>0. a \notin undestroyed
    <3>1. ASSUME NEW f \in Subscribers, Prepare(f), phase[f] = "accepted"
          PROVE  undestroyed' = undestroyed \ {application[f]}
      BY <3>1 DEF Prepare, OpenAndSubscribe
    <3>2. ASSUME NEW f \in Subscribers, Prepare(f), phase[f] = "accepted"
          PROVE  a \notin undestroyed
      BY <2>2, <3>1, <3>2
    <3>3. ASSUME NEW b \in Endpoints, NEW n \in ChannelNames, NEW ch \in Endpoints,
                 Cleanup(CleanupJob(b, n, ch)), a \in undestroyed
          PROVE  FALSE
      <4>1. PICK raised \in BOOLEAN : CleanupAfterUnsubscribe(b, params[b].api, n, ch, raised)
        BY <3>3 DEF Cleanup, CleanupJob
      <4>2. b = a /\ applications' = [applications EXCEPT ![params[b].api] = Nil]
        BY <3>3, <4>1 DEF CleanupAfterUnsubscribe, Destroy
      <4> QED BY <1>0, <2>1, <4>2 DEF TypeOK, AppTypeOK
    <3>4. ASSUME undestroyed' = undestroyed PROVE a \notin undestroyed
      BY <3>4
    <3> HIDE DEF a
    <3> QED BY <3>2, <3>3, <3>4, UndestroyedStep
  <2>4. PICK name \in ChannelNames : channels[a][name] # Nil
    BY <1>3, <2>0, <2>3 DEF ApplicationReclaimed, ChannelsOf, EverSubscribed
  <2>5. channels'[a][name] # channels[a][name]
    BY <2>4
  <2>6. ASSUME NEW f \in Subscribers, Prepare(f), phase[f] = "accepted" PROVE FALSE
    <3>1. /\ application[f] \in Endpoints
          /\ channels' = [channels EXCEPT ![application[f]][params[f].channel] = Room(f)]
      BY <2>6, PrepareFacts
    <3> QED BY <1>0, <1>1, <2>2, <2>5, <2>6, <3>1 DEF TypeOK, AppTypeOK
  <2>7. ASSUME NEW b \in Endpoints, NEW n \in ChannelNames, NEW ch \in Endpoints,
               Cleanup(CleanupJob(b, n, ch)), Listeners(ch) = {},
               channels' = [channels EXCEPT ![b][n] = Nil]
        PROVE  FALSE
    <3>1. b = a /\ n = name
      BY <1>0, <1>1, <2>5, <2>7 DEF TypeOK, AppTypeOK
    <3>2. \A x \in ChannelNames : x # name => channels[a][x] = Nil
      BY <1>0, <1>1, <2>7, <3>1 DEF TypeOK, AppTypeOK
    <3>3. ChannelsOf(a) \subseteq {name}
      BY <3>2 DEF ChannelsOf
    <3>4. applications' = [applications EXCEPT ![params[a].api] = Nil]
      <4>1. PICK raised \in BOOLEAN : CleanupAfterUnsubscribe(a, params[a].api, name, ch, raised)
        BY <2>7, <3>1 DEF Cleanup, CleanupJob
      <4> QED BY <2>7, <3>3, <4>1 DEF CleanupAfterUnsubscribe, Destroy
    <3> QED BY <1>0, <2>1, <3>4 DEF TypeOK, AppTypeOK
  <2> QED BY <2>5, <2>6, <2>7, TablesStep
<1> QED BY <1>2, <1>3, RegisterStep

(* In every behaviour an application that is registered without a channel  *)
(* never had a subscriber, or its destroy raised when its last channel was *)
(* cleaned up and nobody has subscribed to it since.                       *)
THEOREM ApplicationReclaimedAlways == Spec => []ApplicationReclaimed
<1>1. Init => ApplicationReclaimed
  BY DEF Init, AppInit, ApplicationReclaimed
<1>2. ApplicationReclaimed /\ IInv /\ [Next]_vars => ApplicationReclaimed'
  BY ApplicationReclaimedStep
<1> QED BY IInvAlways, <1>1, <1>2, PTL DEF Spec
-----------------------------------------------------------------------------
(***************************************************************************)
(* How many connections and channels an application counts, compared with  *)
(* how many there are.  The sets that are compared stay finite however     *)
(* many endpoints there may be, as a behaviour has only begun finitely     *)
(* many requests at any moment.                                            *)
(***************************************************************************)

(* Channels.                                                               *)

FiniteChannels == \A a \in Endpoints : IsFiniteSet(ChannelsOf(a))

(* What a step does to the channels of an application and to their count:  *)
(* nothing, one is created and counted, or cleaned up, perhaps again.      *)
LEMMA ChannelsCounted ==
    ASSUME IInv, [Next]_vars, NEW a \in Endpoints
    PROVE  \/ ChannelsOf(a)' = ChannelsOf(a) /\ currentChannels'[a] = currentChannels[a]
           \/ \E name \in ChannelNames :
                \/ /\ name \notin ChannelsOf(a) /\ ChannelsOf(a)' = ChannelsOf(a) \union {name}
                   /\ currentChannels'[a] = currentChannels[a] + 1
                \/ /\ ChannelsOf(a)' = ChannelsOf(a) \ {name}
                   /\ currentChannels'[a] = currentChannels[a] - 1
<1> USE ConstantFacts
<1> DEFINE Unchanged == ChannelsOf(a)' = ChannelsOf(a) /\ currentChannels'[a] = currentChannels[a]
<1>0. TypeOK /\ currentChannels \in [Endpoints -> Int]
      /\ channels \in [Endpoints -> [ChannelNames -> Endpoints \union {Nil}]]
  BY DEF IInv, TypeOK, AppTypeOK
<1>1. ASSUME UNCHANGED <<channels, currentChannels>> PROVE Unchanged
  BY <1>1 DEF ChannelsOf
<1>2. ASSUME NEW e \in Endpoints,
             \/ Authenticate(e) \/ LoginFailed(e) \/ LoginOk(e) \/ SendRequest(e)
             \/ OnMessage(e) \/ CloseFrame(e) \/ OnClose(e) \/ PushTimerFires(e)
      PROVE  UNCHANGED <<channels, currentChannels>>
  BY <1>2 DEF Authenticate, LoginFailed, LoginOk, SendRequest, OnMessage, CloseFrame, OnClose,
              PushTimerFires, LoadApplication, SetAppInfo, PushTimer, StatConnectionClose, appVars
<1>3. ASSUME NEW e, NEW m, Publish(e, m) PROVE UNCHANGED <<channels, currentChannels>>
  BY <1>3 DEF Publish, appVars
<1>4. ASSUME UNCHANGED vars PROVE UNCHANGED <<channels, currentChannels>>
  BY <1>4 DEF vars, appVars
<1>5. ASSUME NEW e \in Subscribers, Prepare(e), phase[e] = "accepted"
      PROVE  \/ Unchanged
             \/ \E name \in ChannelNames :
                  /\ name \notin ChannelsOf(a) /\ ChannelsOf(a)' = ChannelsOf(a) \union {name}
                  /\ currentChannels'[a] = currentChannels[a] + 1
  <2> DEFINE name == params[e].channel
  <2>1. /\ name \in ChannelNames /\ application[e] \in Endpoints /\ Room(e) \in Endpoints
        /\ channels' = [channels EXCEPT ![application[e]][name] = Room(e)]
    BY <1>5, PrepareFacts
  <2>2. currentChannels' = [currentChannels EXCEPT ![application[e]] =
            currentChannels[application[e]] + (IF channels[application[e]][name] = Nil THEN 1 ELSE 0)]
    BY <1>5 DEF Prepare, OpenAndSubscribe
  <2>3. CASE a # application[e]
    <3>1. channels'[a] = channels[a] /\ currentChannels'[a] = currentChannels[a]
      BY <1>0, <2>1, <2>2, <2>3
    <3> QED BY <3>1 DEF ChannelsOf
  <2>4. CASE a = application[e]
    <3>1. \A n \in ChannelNames : channels'[a][n] = IF n = name THEN Room(e) ELSE channels[a][n]
      BY <1>0, <2>1, <2>4
    <3>2. ChannelsOf(a)' = ChannelsOf(a) \union {name}
      BY <2>1, <3>1 DEF ChannelsOf
    <3>3. CASE channels[a][name] = Nil
      <4>1. currentChannels'[a] = currentChannels[a] + 1
        BY <1>0, <2>2, <2>4, <3>3
      <4>2. name \notin ChannelsOf(a)
        BY <3>3 DEF ChannelsOf
      <4> QED BY <2>1, <3>2, <4>1, <4>2
    <3>4. CASE channels[a][name] # Nil
      <4>1. currentChannels[a] \in Int /\ currentChannels'[a] = currentChannels[a] + 0
        BY <1>0, <2>2, <2>4, <3>4
      <4>2. currentChannels'[a] = currentChannels[a]
        BY <4>1
      <4>3. name \in ChannelsOf(a)
        BY <2>1, <3>4 DEF ChannelsOf
      <4> QED BY <3>2, <4>2, <4>3
    <3> QED BY <3>3, <3>4
  <2> QED BY <2>3, <2>4
<1>6. ASSUME NEW b \in Endpoints, NEW name \in ChannelNames, NEW ch \in Endpoints,
             Cleanup(CleanupJob(b, name, ch))
      PROVE  \/ Unchanged
             \/ \E n \in ChannelNames :
                  /\ ChannelsOf(a)' = ChannelsOf(a) \ {n}
                  /\ currentChannels'[a] = currentChannels[a] - 1
  <2>1. \/ UNCHANGED <<channels, currentChannels>>
        \/ /\ channels' = [channels EXCEPT ![b][name] = Nil]
           /\ currentChannels' = [currentChannels EXCEPT ![b] = currentChannels[b] - 1]
    BY <1>6 DEF Cleanup, CleanupAfterUnsubscribe, CleanupJob
  <2>2. CASE UNCHANGED <<channels, currentChannels>>
    BY <1>1, <2>2
  <2>3. CASE /\ channels' = [channels EXCEPT ![b][name] = Nil]
             /\ currentChannels' = [currentChannels EXCEPT ![b] = currentChannels[b] - 1]
             /\ a # b
    <3>1. channels'[a] = channels[a] /\ currentChannels'[a] = currentChannels[a]
      BY <1>0, <2>3
    <3> QED BY <3>1 DEF ChannelsOf
  <2>4. CASE /\ channels' = [channels EXCEPT ![b][name] = Nil]
             /\ currentChannels' = [currentChannels EXCEPT ![b] = currentChannels[b] - 1]
             /\ a = b
    <3>1. \A n \in ChannelNames : channels'[a][n] = IF n = name THEN Nil ELSE channels[a][n]
      BY <1>0, <2>4
    <3>2. ChannelsOf(a)' = ChannelsOf(a) \ {name}
      BY <3>1 DEF ChannelsOf
    <3>3. currentChannels'[a] = currentChannels[a] - 1
      BY <1>0, <2>4
    <3> QED BY <3>2, <3>3
  <2> QED BY <2>1, <2>2, <2>3, <2>4
<1> HIDE DEF Unchanged
<1>7. \/ Unchanged
      \/ \E name \in ChannelNames :
           \/ /\ name \notin ChannelsOf(a) /\ ChannelsOf(a)' = ChannelsOf(a) \union {name}
              /\ currentChannels'[a] = currentChannels[a] + 1
           \/ /\ ChannelsOf(a)' = ChannelsOf(a) \ {name}
              /\ currentChannels'[a] = currentChannels[a] - 1
  <2>1. CASE UNCHANGED vars
    BY <1>1, <1>4, <2>1
  <2>2. CASE \E e \in Endpoints :
                \/ Authenticate(e) \/ LoginFailed(e) \/ LoginOk(e) \/ SendRequest(e)
                \/ OnMessage(e) \/ CloseFrame(e) \/ OnClose(e) \/ PushTimerFires(e)
    BY <1>1, <1>2, <2>2
  <2>3. CASE Tick
    <3>1. CASE \E e \in Subscribers : Prepare(e) /\ phase[e] = "accepted"
      BY <1>5, <3>1
    <3>2. CASE \E b \in Endpoints, name \in ChannelNames, ch \in Endpoints :
                    Cleanup(CleanupJob(b, name, ch))
      BY <1>6, <3>2
    <3>3. CASE \E e \in Endpoints, m \in Messages : Publish(e, m)
      BY <1>1, <1>3, <3>3
    <3> QED BY <2>3, <3>1, <3>2, <3>3, TickCases
  <2> QED BY <2>1, <2>2, <2>3 DEF Next
<1> QED BY <1>7 DEF Unchanged

LEMMA ChannelCountStep ==
    IInv /\ FiniteChannels /\ ChannelCountBound /\ [Next]_vars
        => FiniteChannels' /\ ChannelCountBound'
<1> SUFFICES ASSUME IInv, FiniteChannels, ChannelCountBound, [Next]_vars, NEW a \in Endpoints
             PROVE  /\ IsFiniteSet(ChannelsOf(a)')
                    /\ currentChannels'[a] <= Cardinality(ChannelsOf(a)')
  BY DEF FiniteChannels, ChannelCountBound
<1> DEFINE C == ChannelsOf(a)
           D == ChannelsOf(a)'
<1>1. IsFiniteSet(C) /\ currentChannels[a] <= Cardinality(C) /\ currentChannels[a] \in Int
  BY DEF FiniteChannels, ChannelCountBound, IInv, TypeOK, AppTypeOK
<1>2. Cardinality(C) \in Nat
  BY <1>1, FS_CardinalityType
<1>3. \/ D = C /\ currentChannels'[a] = currentChannels[a]
      \/ \E name \in ChannelNames :
           \/ /\ name \notin C /\ D = C \union {name}
              /\ currentChannels'[a] = currentChannels[a] + 1
           \/ /\ D = C \ {name}
              /\ currentChannels'[a] = currentChannels[a] - 1
  BY ChannelsCounted
<1> HIDE DEF C, D
<1>4. CASE D = C /\ currentChannels'[a] = currentChannels[a]
  BY <1>1, <1>4 DEF C, D
<1>5. ASSUME NEW name, name \notin C, D = C \union {name},
             currentChannels'[a] = currentChannels[a] + 1
      PROVE  IsFiniteSet(D) /\ currentChannels'[a] <= Cardinality(D)
  <2>1. IsFiniteSet(D) /\ Cardinality(D) = Cardinality(C) + 1
    BY <1>1, <1>5, FS_AddElement
  <2> QED BY <1>1, <1>2, <1>5, <2>1
<1>6. ASSUME NEW name, D = C \ {name}, currentChannels'[a] = currentChannels[a] - 1
      PROVE  IsFiniteSet(D) /\ currentChannels'[a] <= Cardinality(D)
  <2>1. IsFiniteSet(D) /\ Cardinality(D) \in {Cardinality(C), Cardinality(C) - 1}
    BY <1>1, <1>6, FS_RemoveElement
  <2> QED BY <1>1, <1>2, <1>6, <2>1
<1>7. IsFiniteSet(D) /\ currentChannels'[a] <= Cardinality(D)
  BY <1>1, <1>3, <1>4, <1>5, <1>6
<1> QED BY <1>7 DEF D

(* ChannelCountBound: the statistic never counts a channel that is not     *)
(* there, although stat_channel_destroyed may take one off twice.          *)
THEOREM ChannelsNeverOvercounted == Spec => []ChannelCountBound
<1>1. Init => FiniteChannels /\ ChannelCountBound
  <2> SUFFICES ASSUME Init, NEW a \in Endpoints
               PROVE  IsFiniteSet(ChannelsOf(a)) /\ currentChannels[a] <= Cardinality(ChannelsOf(a))
    BY DEF FiniteChannels, ChannelCountBound
  <2>1. ChannelsOf(a) = {} /\ currentChannels[a] = 0
    BY DEF Init, AppInit, ChannelsOf
  <2> QED BY <2>1, FS_EmptySet
<1> QED BY <1>1, ChannelCountStep, IInvAlways, PTL DEF Spec

-----------------------------------------------------------------------------
(* Connections.                                                            *)

Requested == {e \in Endpoints : phase[e] # "idle"}

Subscribed(a) == EndpointsOf(a, "subscribed")
Open(a) == EndpointsOf(a, "subscribed") \ closed

(* Those whose close was counted before their opening.                     *)
Early(a) == EndpointsOf(a, "accepted") \intersect closed

(* What the steps of a connection do to these sets and to the count.       *)
Waits(a, e) ==
    /\ currentConnections'[a] = currentConnections[a]
    /\ Subscribed(a)' = Subscribed(a) /\ Open(a)' = Open(a)
    /\ Early(a)' \in {Early(a), Early(a) \union {e}}

ClosesEarly(a, e) ==
    /\ currentConnections'[a] = currentConnections[a] - 1
    /\ Subscribed(a)' = Subscribed(a) /\ Open(a)' = Open(a)
    /\ Early(a)' = Early(a) \union {e} /\ e \notin Early(a)

Opens(a, e) ==
    /\ currentConnections'[a] = currentConnections[a] + 1
    /\ Subscribed(a)' = Subscribed(a) \union {e} /\ e \notin Subscribed(a)
    /\ \/ Open(a)' = Open(a) /\ Early(a)' = Early(a) \ {e} /\ e \in Early(a)
       \/ Open(a)' = Open(a) \union {e} /\ e \notin Open(a) /\ Early(a)' = Early(a)

Departs(a, e) ==
    /\ currentConnections'[a] = currentConnections[a] - 1
    /\ Subscribed(a)' = Subscribed(a) \ {e} /\ e \in Subscribed(a)
    /\ Open(a)' = Open(a) \ {e} /\ e \in Open(a)
    /\ Early(a)' = Early(a)

(* A step that counts nothing and moves no connection from or to           *)
(* "subscribed" leaves the sets alone, but for an early close.             *)
LEMMA QuietStep ==
    ASSUME TypeOK, NEW a \in Endpoints, NEW e \in Endpoints,
           currentConnections' = currentConnections, closed' = closed,
           \/ phase' = phase
           \/ \E p \in {"awaiting", "rejected", "accepted", "sent"} :
                 phase' = [phase EXCEPT ![e] = p] /\ phase[e] \in {"idle", "awaiting"},
           \/ application' = application
           \/ /\ phase[e] = "idle" /\ phase'[e] = "awaiting"
              /\ \E b : application' = [application EXCEPT ![e] = b]
    PROVE  Waits(a, e)
<1>1. phase \in [Endpoints -> Phases] /\ application \in [Endpoints -> Endpoints \union {Nil}]
  BY DEF TypeOK
<1>2. \A x \in Endpoints : x # e => phase'[x] = phase[x] /\ application'[x] = application[x]
  BY <1>1
<1>3. /\ phase[e] = "subscribed" <=> phase'[e] = "subscribed"
      /\ phase[e] = "accepted" => phase'[e] = "accepted"
      /\ phase[e] \in {"subscribed", "accepted"} => application'[e] = application[e]
  BY <1>1
<1>4. Subscribed(a)' = Subscribed(a)
  BY <1>2, <1>3 DEF Subscribed, EndpointsOf
<1>5. Open(a)' = Open(a)
  BY <1>2, <1>3 DEF Open, EndpointsOf
<1>6. Early(a)' \in {Early(a), Early(a) \union {e}}
  <2>1. \A x : x # e => (x \in Early(a)' <=> x \in Early(a))
    BY <1>2 DEF Early, EndpointsOf
  <2>2. e \in Early(a) => e \in Early(a)'
    BY <1>3 DEF Early, EndpointsOf
  <2> QED BY <2>1, <2>2
<1> QED BY <1>4, <1>5, <1>6 DEF Waits

(* on_close, in the phases a connection can be in.                         *)
LEMMA OnCloseCounted ==
    ASSUME IInv, NEW e \in Endpoints, OnClose(e), NEW a \in Endpoints
    PROVE  Waits(a, e) \/ ClosesEarly(a, e) \/ Departs(a, e)
<1>0. /\ phase \in [Endpoints -> Phases] /\ currentConnections \in [Endpoints -> Int]
      /\ application[e] \in Endpoints
  BY DEF IInv, StructureOK, ApplicationsOK, TypeOK, AppTypeOK, OnClose
<1>1. e \notin closed /\ closed' = closed \union {e} /\ application' = application
  BY DEF OnClose
<1>2. CASE phase[e] \in {"awaiting", "rejected"}
  <2>1. phase' = phase /\ currentConnections' = currentConnections
    BY <1>2 DEF OnClose, appVars
  <2> QED BY <1>1, <1>2, <2>1 DEF Waits, Subscribed, Open, Early, EndpointsOf
<1>3. CASE phase[e] = "accepted"
  <2>1. phase' = phase /\ currentConnections' = [currentConnections EXCEPT ![application[e]] =
                              currentConnections[application[e]] - 1]
    BY <1>3 DEF OnClose, StatConnectionClose
  <2>2. Subscribed(a)' = Subscribed(a) /\ Open(a)' = Open(a)
    BY <1>1, <1>3, <2>1 DEF Subscribed, Open, EndpointsOf
  <2>3. CASE a = application[e]
    <3>1. currentConnections'[a] = currentConnections[a] - 1
      BY <1>0, <2>1, <2>3
    <3>2. Early(a)' = Early(a) \union {e} /\ e \notin Early(a)
      BY <1>1, <1>3, <2>1, <2>3 DEF Early, EndpointsOf
    <3> QED BY <2>2, <3>1, <3>2 DEF ClosesEarly
  <2>4. CASE a # application[e]
    <3>1. currentConnections'[a] = currentConnections[a]
      BY <1>0, <2>1, <2>4
    <3>2. Early(a)' = Early(a)
      BY <1>1, <2>1, <2>4 DEF Early, EndpointsOf
    <3> QED BY <2>2, <3>1, <3>2 DEF Waits
  <2> QED BY <2>3, <2>4
<1>4. CASE phase[e] = "subscribed"
  <2>1. /\ phase' = [phase EXCEPT ![e] = "departed"]
        /\ currentConnections' = [currentConnections EXCEPT ![application[e]] =
                                    currentConnections[application[e]] - 1]
    BY <1>4 DEF OnClose, EnterPhase, StatConnectionClose
  <2>2. /\ phase'[e] = "departed" /\ \A x \in Endpoints : x # e => phase'[x] = phase[x]
    BY <1>0, <2>1
  <2>3. Early(a)' = Early(a)
    BY <1>1, <1>4, <2>2 DEF Early, EndpointsOf
  <2>4. CASE a = application[e]
    <3>1. currentConnections'[a] = currentConnections[a] - 1
      BY <1>0, <2>1, <2>4
    <3>2. Subscribed(a)' = Subscribed(a) \ {e} /\ e \in Subscribed(a)
      BY <1>1, <1>4, <2>2, <2>4 DEF Subscribed, EndpointsOf
    <3>3. Open(a)' = Open(a) \ {e} /\ e \in Open(a)
      BY <1>1, <1>4, <2>2, <2>4 DEF Open, EndpointsOf
    <3> QED BY <2>3, <3>1, <3>2, <3>3 DEF Departs
  <2>5. CASE a # application[e]
    <3>1. currentConnections'[a] = currentConnections[a]
      BY <1>0, <2>1, <2>5
    <3>2. Subscribed(a)' = Subscribed(a) /\ Open(a)' = Open(a)
      BY <1>1, <2>2, <2>5 DEF Subscribed, Open, EndpointsOf
    <3> QED BY <2>3, <3>1, <3>2 DEF Waits
  <2> QED BY <2>4, <2>5
<1> QED BY <1>2, <1>3, <1>4 DEF OnClose

(* prepare_connection, of a connection that is open or closed already.     *)
LEMMA PrepareCounted ==
    ASSUME IInv, NEW e \in Subscribers, Prepare(e), phase[e] = "accepted", NEW a \in Endpoints
    PROVE  Waits(a, e) \/ Opens(a, e)
<1>0. /\ phase \in [Endpoints -> Phases] /\ currentConnections \in [Endpoints -> Int]
      /\ e \in Endpoints /\ application[e] \in Endpoints
  BY PrepareFacts, ConstantFacts DEF IInv, TypeOK, AppTypeOK
<1>1. /\ closed' = closed /\ application' = application
      /\ phase' = [phase EXCEPT ![e] = "subscribed"]
      /\ currentConnections' = [currentConnections EXCEPT ![application[e]] =
                                  currentConnections[application[e]] + 1]
  BY DEF Prepare, EnterPhase, OpenAndSubscribe
<1>2. phase'[e] = "subscribed" /\ \A x \in Endpoints : x # e => phase'[x] = phase[x]
  BY <1>0, <1>1
<1>3. CASE a = application[e]
  <2>1. currentConnections'[a] = currentConnections[a] + 1
    BY <1>0, <1>1, <1>3
  <2>2. Subscribed(a)' = Subscribed(a) \union {e} /\ e \notin Subscribed(a)
    BY <1>0, <1>1, <1>2, <1>3 DEF Subscribed, EndpointsOf
  <2>3. CASE e \in closed
    <3>1. Open(a)' = Open(a)
      BY <1>1, <1>2, <2>3 DEF Open, EndpointsOf
    <3>2. Early(a)' = Early(a) \ {e} /\ e \in Early(a)
      BY <1>0, <1>1, <1>2, <1>3, <2>3 DEF Early, EndpointsOf
    <3> QED BY <2>1, <2>2, <3>1, <3>2 DEF Opens
  <2>4. CASE e \notin closed
    <3>1. Open(a)' = Open(a) \union {e} /\ e \notin Open(a)
      BY <1>0, <1>1, <1>2, <1>3, <2>4 DEF Open, EndpointsOf
    <3>2. Early(a)' = Early(a)
      BY <1>1, <1>2, <2>4 DEF Early, EndpointsOf
    <3> QED BY <2>1, <2>2, <3>1, <3>2 DEF Opens
  <2> QED BY <2>3, <2>4
<1>4. CASE a # application[e]
  <2>1. currentConnections'[a] = currentConnections[a]
    BY <1>0, <1>1, <1>4
  <2>2. Subscribed(a)' = Subscribed(a) /\ Open(a)' = Open(a) /\ Early(a)' = Early(a)
    BY <1>1, <1>2, <1>4 DEF Subscribed, Open, Early, EndpointsOf
  <2> QED BY <2>1, <2>2 DEF Waits
<1> QED BY <1>3, <1>4

(* What any step does to the count of an application and to the sets.      *)
LEMMA ConnectionsCounted ==
    ASSUME IInv, [Next]_vars, NEW a \in Endpoints
    PROVE  \E e \in Endpoints : Waits(a, e) \/ ClosesEarly(a, e) \/ Opens(a, e) \/ Departs(a, e)
<1> USE ConstantFacts
<1>0. TypeOK
  BY DEF IInv
<1>1. ASSUME UNCHANGED <<currentConnections, closed, phase, application>> PROVE Waits(a, a)
  BY <1>0, <1>1, QuietStep
<1>2. ASSUME NEW e \in Endpoints, Authenticate(e) PROVE Waits(a, e)
  <2>1. /\ currentConnections' = currentConnections /\ closed' = closed
        /\ phase[e] = "idle" /\ phase' = [phase EXCEPT ![e] = "awaiting"]
        /\ application' = [application EXCEPT ![e] = GetApplication(params[e].api, e)]
    BY <1>2 DEF Authenticate, EnterPhase, LoadApplication
  <2>2. phase'[e] = "awaiting"
    BY <1>0, <2>1 DEF TypeOK
  <2> HIDE DEF GetApplication
  <2> QED BY <1>0, <2>1, <2>2, QuietStep
<1>3. ASSUME NEW e \in Endpoints, LoginFailed(e) \/ LoginOk(e) \/ SendRequest(e)
      PROVE  Waits(a, e)
  <2>1. /\ currentConnections' = currentConnections /\ closed' = closed
        /\ application' = application
        /\ \E p \in {"awaiting", "rejected", "accepted", "sent"} :
              phase' = [phase EXCEPT ![e] = p] /\ phase[e] \in {"idle", "awaiting"}
    BY <1>3 DEF LoginFailed, LoginOk, SendRequest, EnterPhase, SetAppInfo, appVars
  <2> QED BY <1>0, <2>1, QuietStep
<1>4. ASSUME NEW e \in Endpoints, OnMessage(e) \/ CloseFrame(e) \/ PushTimerFires(e)
      PROVE  UNCHANGED <<currentConnections, closed, phase, application>>
  BY <1>4 DEF OnMessage, CloseFrame, PushTimerFires, PushTimer, appVars, connVars
<1>5. ASSUME NEW b, NEW name, NEW ch, Cleanup(CleanupJob(b, name, ch))
      PROVE  UNCHANGED <<currentConnections, closed, phase, application>>
  BY <1>5 DEF Cleanup, CleanupAfterUnsubscribe, connVars
<1>6. ASSUME NEW e, NEW m, Publish(e, m)
      PROVE  UNCHANGED <<currentConnections, closed, phase, application>>
  BY <1>6 DEF Publish, appVars
<1>7. ASSUME UNCHANGED vars
      PROVE  UNCHANGED <<currentConnections, closed, phase, application>>
  BY <1>7 DEF vars, appVars, connVars
<1>8. CASE Tick
  <2>1. CASE \E e \in Subscribers : Prepare(e) /\ phase[e] = "accepted"
    BY <2>1, PrepareCounted
  <2>2. CASE \E b \in Endpoints, name \in ChannelNames, ch \in Endpoints :
                  Cleanup(CleanupJob(b, name, ch))
    BY <1>1, <1>5, <2>2
  <2>3. CASE \E e \in Endpoints, m \in Messages : Publish(e, m)
    BY <1>1, <1>6, <2>3
  <2> QED BY <1>8, <2>1, <2>2, <2>3, TickCases
<1>9. CASE \E e \in Endpoints : OnClose(e)
  BY <1>9, OnCloseCounted
<1> QED BY <1>1, <1>2, <1>3, <1>4, <1>7, <1>8, <1>9 DEF Next

(* Only finitely many requests have begun.                                 *)
LEMMA RequestedStep ==
    ASSUME IInv, [Next]_vars, IsFiniteSet(Requested)
    PROVE  IsFiniteSet(Requested)'
<1>1. PICK e \in Endpoints \union {Nil} :
        \A x \in Endpoints : x # e => (phase[x] = "idle" => phase'[x] = "idle")
  <2> USE ConstantFacts
  <2>0. phase \in [Endpoints -> Phases]
    BY DEF IInv, TypeOK
  <2>1. ASSUME NEW e \in Endpoints, Authenticate(e)
        PROVE  \A x \in Endpoints : x # e => phase'[x] = phase[x]
    BY <2>0, <2>1 DEF Authenticate, EnterPhase
  <2>2. ASSUME NEW e \in Endpoints, ~Authenticate(e), [Next]_vars,
               \/ LoginFailed(e) \/ LoginOk(e) \/ SendRequest(e)
               \/ OnMessage(e) \/ CloseFrame(e) \/ OnClose(e) \/ PushTimerFires(e)
        PROVE  \A x \in Endpoints : x # e => phase'[x] = phase[x]
    BY <2>0, <2>2 DEF LoginFailed, LoginOk, SendRequest, OnMessage, CloseFrame, OnClose,
                      PushTimerFires, EnterPhase, connVars
  <2>3. ASSUME NEW e \in Subscribers, Prepare(e)
        PROVE  \A x \in Endpoints : x # e => phase'[x] = phase[x]
    BY <2>0, <2>3 DEF Prepare, EnterPhase
  <2>4. ASSUME NEW b, NEW name, NEW ch, Cleanup(CleanupJob(b, name, ch)) PROVE phase' = phase
    BY <2>4 DEF Cleanup, connVars
  <2>5. ASSUME NEW e, NEW m, Publish(e, m) PROVE phase' = phase
    BY <2>5 DEF Publish
  <2>6. ASSUME UNCHANGED vars PROVE phase' = phase
    BY <2>6 DEF vars, connVars
  <2>7. CASE Tick
    BY <2>3, <2>4, <2>5, <2>7, TickCases
  <2> QED BY <2>1, <2>2, <2>6, <2>7 DEF Next
<1>2. Requested' \subseteq Requested \union {e}
  BY <1>1 DEF Requested
<1>3. IsFiniteSet(Requested \union {e})
  BY FS_AddElement
<1> QED BY <1>2, <1>3, FS_Subset

(* So the sets that are counted are finite.                                *)
LEMMA CountedSetsFinite ==
    ASSUME IsFiniteSet(Requested), NEW a \in Endpoints
    PROVE  /\ IsFiniteSet(Subscribed(a)) /\ IsFiniteSet(Open(a)) /\ IsFiniteSet(Early(a))
           /\ Cardinality(Subscribed(a)) \in Nat /\ Cardinality(Open(a)) \in Nat
           /\ Cardinality(Early(a)) \in Nat
<1>1. /\ Subscribed(a) \subseteq Requested /\ Open(a) \subseteq Requested
      /\ Early(a) \subseteq Requested
  BY DEF Subscribed, Open, Early, EndpointsOf, Requested
<1>2. IsFiniteSet(Subscribed(a)) /\ IsFiniteSet(Open(a)) /\ IsFiniteSet(Early(a))
  BY <1>1, FS_Subset
<1> QED BY <1>2, FS_CardinalityType

LEMMA ConnectionCountStep ==
    ASSUME IInv, [Next]_vars, IsFiniteSet(Requested), ConnectionCountBounds
    PROVE  ConnectionCountBounds'
<1> SUFFICES ASSUME NEW a \in Endpoints
             PROVE  /\ currentConnections'[a] <= Cardinality(Subscribed(a)')
                    /\ currentConnections'[a] >= Cardinality(Open(a)') - Cardinality(Early(a)')
  BY DEF ConnectionCountBounds, Subscribed, Open, Early
<1> DEFINE n == currentConnections[a]
           s == Cardinality(Subscribed(a))
           o == Cardinality(Open(a))
           y == Cardinality(Early(a))
           Bounds == /\ currentConnections'[a] <= Cardinality(Subscribed(a)')
                     /\ currentConnections'[a] >= Cardinality(Open(a)') - Cardinality(Early(a)')
<1>1. n \in Int /\ n <= s /\ n >= o - y
  BY DEF IInv, TypeOK, AppTypeOK, ConnectionCountBounds, Subscribed, Open, Early
<1>2. /\ IsFiniteSet(Subscribed(a)) /\ IsFiniteSet(Open(a)) /\ IsFiniteSet(Early(a))
      /\ s \in Nat /\ o \in Nat /\ y \in Nat
  BY CountedSetsFinite
<1>3. ASSUME NEW e \in Endpoints, Waits(a, e) PROVE Bounds
  <2>1. Cardinality(Early(a)') \in {y, y + 1}
    BY <1>2, <1>3, FS_AddElement DEF Waits
  <2>2. currentConnections'[a] = n /\ Cardinality(Subscribed(a)') = s /\ Cardinality(Open(a)') = o
    BY <1>3 DEF Waits
  <2> HIDE DEF n, s, o, y
  <2> QED BY <1>1, <1>2, <2>1, <2>2
<1>4. ASSUME NEW e \in Endpoints, ClosesEarly(a, e) PROVE Bounds
  <2>1. Cardinality(Early(a)') = y + 1
    BY <1>2, <1>4, FS_AddElement DEF ClosesEarly
  <2>2. currentConnections'[a] = n - 1 /\ Cardinality(Subscribed(a)') = s /\ Cardinality(Open(a)') = o
    BY <1>4 DEF ClosesEarly
  <2> HIDE DEF n, s, o, y
  <2> QED BY <1>1, <1>2, <2>1, <2>2
<1>5. ASSUME NEW e \in Endpoints, Opens(a, e) PROVE Bounds
  <2>1. Cardinality(Subscribed(a)') = s + 1
    BY <1>2, <1>5, FS_AddElement DEF Opens
  <2>2. \/ Cardinality(Open(a)') = o /\ Cardinality(Early(a)') = y - 1
        \/ Cardinality(Open(a)') = o + 1 /\ Cardinality(Early(a)') = y
    <3>1. ASSUME Open(a)' = Open(a), Early(a)' = Early(a) \ {e}, e \in Early(a)
          PROVE  Cardinality(Open(a)') = o /\ Cardinality(Early(a)') = y - 1
      BY <1>2, <3>1, FS_RemoveElement
    <3>2. ASSUME Open(a)' = Open(a) \union {e}, e \notin Open(a), Early(a)' = Early(a)
          PROVE  Cardinality(Open(a)') = o + 1 /\ Cardinality(Early(a)') = y
      BY <1>2, <3>2, FS_AddElement
    <3> QED BY <1>5, <3>1, <3>2 DEF Opens
  <2>3. currentConnections'[a] = n + 1
    BY <1>5 DEF Opens
  <2> HIDE DEF n, s, o, y
  <2> QED BY <1>1, <1>2, <2>1, <2>2, <2>3
<1>6. ASSUME NEW e \in Endpoints, Departs(a, e) PROVE Bounds
  <2>1. Cardinality(Subscribed(a)') = s - 1 /\ Cardinality(Open(a)') = o - 1
    BY <1>2, <1>6, FS_RemoveElement DEF Departs
  <2>2. currentConnections'[a] = n - 1 /\ Cardinality(Early(a)') = y
    BY <1>6 DEF Departs
  <2> HIDE DEF n, s, o, y
  <2> QED BY <1>1, <1>2, <2>1, <2>2
<1> HIDE DEF Bounds
<1>7. Bounds
  BY <1>3, <1>4, <1>5, <1>6, ConnectionsCounted
<1> QED BY <1>7 DEF Bounds

(* ConnectionCountBounds: the statistic never counts a connection that is  *)
(* gone, and misses only those whose on_close came before their            *)
(* prepare_connection.                                                     *)
THEOREM ConnectionsCountedWithinBounds == Spec => []ConnectionCountBounds
<1>1. Init => IsFiniteSet(Requested) /\ ConnectionCountBounds
  <2> SUFFICES ASSUME Init
               PROVE  /\ IsFiniteSet(Requested)
                      /\ \A a \in Endpoints :
                            /\ currentConnections[a] <= Cardinality(EndpointsOf(a, "subscribed"))
                            /\ currentConnections[a] >=
                                  Cardinality(EndpointsOf(a, "subscribed") \ closed)
                                  - Cardinality(EndpointsOf(a, "accepted") \intersect closed)
    BY DEF ConnectionCountBounds
  <2>1. Requested = {}
    BY DEF Init, Requested
  <2>2. ASSUME NEW a \in Endpoints
        PROVE  /\ EndpointsOf(a, "subscribed") = {} /\ EndpointsOf(a, "accepted") = {}
               /\ currentConnections[a] = 0
    BY DEF Init, AppInit, EndpointsOf
  <2>3. ASSUME NEW a \in Endpoints
        PROVE  /\ EndpointsOf(a, "subscribed") \ closed = {}
               /\ EndpointsOf(a, "accepted") \intersect closed = {}
    BY <2>2
  <2> QED BY <2>1, <2>2, <2>3, FS_EmptySet
<1>2. IInv /\ IsFiniteSet(Requested) /\ ConnectionCountBounds /\ [Next]_vars
        => IsFiniteSet(Requested)' /\ ConnectionCountBounds'
  BY RequestedStep, ConnectionCountStep
<1> QED BY <1>1, <1>2, IInvAlways, PTL DEF Spec

-----------------------------------------------------------------------------
(***************************************************************************)
(* Broker implements the safety part of PubSub.                            *)
(***************************************************************************)

Items == [id : Nat, from : Endpoints]

(* A message has a number and a sender.                                    *)
LEMMA NumberedType ==
    ASSUME NEW m \in Messages
    PROVE  Numbered(m) \in Items
BY ConstantFacts DEF Messages, Numbered, Items

(* A job adds at most a message.                                           *)
LEMMA AddMessageType ==
    ASSUME NEW list \in Seq(Items), NEW job \in Jobs
    PROVE  AddMessage(list, job) \in Seq(Items)
<1>1. CASE job.kind = "publish"
  <2>1. job.message \in Messages
    BY <1>1 DEF Jobs
  <2>2. Numbered(job.message) \in Items
    BY <2>1, NumberedType
  <2> QED
    BY <1>1, <2>2, AppendFacts DEF AddMessage
<1> QED
  BY <1>1 DEF AddMessage

(* What a job adds goes behind what was there.                             *)
LEMMA AddMessageBehind ==
    ASSUME NEW s \in Seq(Items), NEW t \in Seq(Items), NEW job \in Jobs
    PROVE  AddMessage(s \o t, job) = s \o AddMessage(t, job)
<1>1. CASE job.kind = "publish"
  <2>1. job.message \in Messages
    BY <1>1 DEF Jobs
  <2>2. Numbered(job.message) \in Items
    BY <2>1, NumberedType
  <2>3. ASSUME NEW x \in Items PROVE Append(s \o t, x) = s \o Append(t, x)
    OBVIOUS
  <2> QED
    BY <1>1, <2>2, <2>3 DEF AddMessage
<1> QED
  BY <1>1 DEF AddMessage
-----------------------------------------------------------------------------
(***************************************************************************)
(* The recursive function of MessagesOf                                    *)
(***************************************************************************)

(* g[n] is the messages of the first n jobs, as far as job k.              *)
IsUpTo(g, k, jobs) ==
    g = [n \in 0 .. k |-> IF n = 0 THEN <<>> ELSE AddMessage(g[n - 1], jobs[n])]

(* There is such a function for each k: one more job extends it.           *)
LEMMA UpToExists ==
    ASSUME NEW jobs
    PROVE  \A k \in Nat : \E g : IsUpTo(g, k, jobs)
<1> DEFINE T == {k \in Nat : \E g : IsUpTo(g, k, jobs)}
<1>1. 0 \in T
  <2>1. IsUpTo([n \in 0 .. 0 |-> <<>>], 0, jobs)
    BY DEF IsUpTo
  <2> QED
    BY <2>1
<1>2. ASSUME NEW k \in T PROVE k + 1 \in T
  <2>1. PICK g : IsUpTo(g, k, jobs)
    OBVIOUS
  <2> DEFINE h == [n \in 0 .. k + 1 |-> IF n = 0 THEN <<>> ELSE AddMessage(g[n - 1], jobs[n])]
  <2>2. \A n \in 0 .. k : h[n] = g[n]
    BY <2>1 DEF IsUpTo
  <2>3. h = [n \in 0 .. k + 1 |-> IF n = 0 THEN <<>> ELSE AddMessage(h[n - 1], jobs[n])]
    <3>1. ASSUME NEW n \in 0 .. k + 1, n # 0 PROVE h[n - 1] = g[n - 1]
      <4>1. n - 1 \in 0 .. k
        BY <3>1
      <4> HIDE DEF h
      <4> QED
        BY <2>2, <4>1
    <3> QED
      BY <3>1
  <2>4. IsUpTo(h, k + 1, jobs)
    BY <2>3 DEF IsUpTo
  <2> QED
    BY <2>4
<1> HIDE DEF T
<1>3. T = Nat
  <2>1. T \in SUBSET Nat
    BY DEF T
  <2> QED
    BY <1>1, <1>2, <2>1, Induction
<1> QED
  BY <1>3 DEF T

(* MessagesOf is the value of one of them at the last job.                 *)
LEMMA MessagesOfIs ==
    ASSUME NEW jobs, Len(jobs) \in Nat
    PROVE  \E g : /\ MessagesOf(jobs) = g[Len(jobs)]
                  /\ g[0] = <<>>
                  /\ \A n \in 1 .. Len(jobs) : g[n] = AddMessage(g[n - 1], jobs[n])
<1> DEFINE upTo[n \in 0 .. Len(jobs)] == IF n = 0 THEN <<>> ELSE AddMessage(upTo[n - 1], jobs[n])
<1>1. \E g : IsUpTo(g, Len(jobs), jobs)
  BY UpToExists
<1>2. upTo = [n \in 0 .. Len(jobs) |-> IF n = 0 THEN <<>> ELSE AddMessage(upTo[n - 1], jobs[n])]
  BY <1>1 DEF IsUpTo
<1>3. MessagesOf(jobs) = upTo[Len(jobs)]
  BY DEF MessagesOf
<1> HIDE DEF upTo
<1> QED
  BY <1>2, <1>3

(* The messages of jobs are messages.                                      *)
LEMMA MessagesOfType ==
    ASSUME NEW jobs \in Seq(Jobs)
    PROVE  MessagesOf(jobs) \in Seq(Items)
<1>1. Len(jobs) \in Nat
  OBVIOUS
<1>2. PICK g : /\ MessagesOf(jobs) = g[Len(jobs)] /\ g[0] = <<>>
               /\ \A n \in 1 .. Len(jobs) : g[n] = AddMessage(g[n - 1], jobs[n])
  BY <1>1, MessagesOfIs
<1> DEFINE T == {n \in Nat : n <= Len(jobs) => g[n] \in Seq(Items)}
<1>3. 0 \in T
  <2>1. <<>> \in Seq(Items)
    OBVIOUS
  <2> QED
    BY <1>2, <2>1
<1>4. ASSUME NEW n \in T PROVE n + 1 \in T
  <2> SUFFICES ASSUME n + 1 <= Len(jobs) PROVE g[n + 1] \in Seq(Items)
    OBVIOUS
  <2>1. g[n] \in Seq(Items) /\ n + 1 \in 1 .. Len(jobs) /\ jobs[n + 1] \in Jobs /\ (n + 1) - 1 = n
    BY <1>1
  <2>2. g[n + 1] = AddMessage(g[n], jobs[n + 1])
    BY <1>2, <2>1
  <2> QED
    BY <2>1, <2>2, AddMessageType
<1>5. T \in SUBSET Nat
  OBVIOUS
<1> HIDE DEF T
<1>6. T = Nat
  BY <1>3, <1>4, <1>5, Induction
<1> QED
  BY <1>1, <1>2, <1>6 DEF T

(* No jobs, no messages.                                                   *)
LEMMA MessagesOfNone == MessagesOf(<<>>) = <<>>
<1>1. Len(<<>>) = 0
  OBVIOUS
<1>2. Len(<<>>) \in Nat
  BY <1>1
<1> QED
  BY <1>1, <1>2, MessagesOfIs

(* A job that is queued adds its message behind the others.                *)
LEMMA MessagesOfAppend ==
    ASSUME NEW jobs \in Seq(Jobs), NEW job \in Jobs
    PROVE  MessagesOf(Append(jobs, job)) = AddMessage(MessagesOf(jobs), job)
<1> DEFINE k == Len(jobs)  more == Append(jobs, job)
<1>1. /\ Len(more) = k + 1 /\ k \in Nat /\ more[k + 1] = job
      /\ \A n \in 1 .. k : more[n] = jobs[n]
  BY AppendFacts
<1> HIDE DEF more
<1>2. PICK f : /\ MessagesOf(jobs) = f[k] /\ f[0] = <<>>
               /\ \A n \in 1 .. k : f[n] = AddMessage(f[n - 1], jobs[n])
  BY <1>1, MessagesOfIs
<1>3. PICK g : /\ MessagesOf(more) = g[k + 1] /\ g[0] = <<>>
               /\ \A n \in 1 .. k + 1 : g[n] = AddMessage(g[n - 1], more[n])
  <2>1. Len(more) \in Nat
    BY <1>1
  <2> QED
    BY <1>1, <2>1, MessagesOfIs
<1> DEFINE T == {n \in Nat : n <= k => g[n] = f[n]}
<1>4. 0 \in T
  BY <1>2, <1>3
<1>5. ASSUME NEW n \in T PROVE n + 1 \in T
  <2> SUFFICES ASSUME n + 1 <= k PROVE g[n + 1] = f[n + 1]
    OBVIOUS
  <2>1. g[n] = f[n] /\ n + 1 \in 1 .. k /\ n + 1 \in 1 .. k + 1 /\ (n + 1) - 1 = n
    BY <1>1
  <2>2. g[n + 1] = AddMessage(g[n], more[n + 1]) /\ f[n + 1] = AddMessage(f[n], jobs[n + 1])
    BY <1>2, <1>3, <2>1
  <2> QED
    BY <1>1, <2>1, <2>2
<1>6. T \in SUBSET Nat
  OBVIOUS
<1> HIDE DEF T
<1>7. T = Nat
  BY <1>4, <1>5, <1>6, Induction
<1>8. g[k] = f[k]
  BY <1>1, <1>7 DEF T
<1>9. g[k + 1] = AddMessage(g[k], more[k + 1])
  <2>1. k + 1 \in 1 .. k + 1 /\ (k + 1) - 1 = k
    BY <1>1
  <2> QED
    BY <1>3, <2>1
<1> QED
  BY <1>1, <1>2, <1>3, <1>8, <1>9 DEF more

(* The messages of more jobs come behind those that are there already.     *)
LEMMA MessagesBehind ==
    ASSUME NEW first \in Seq(Items), NEW rest \in Seq(Jobs), NEW f, NEW g,
           f[1] = first, g[0] = <<>>,
           \A n \in 1 .. Len(rest) : g[n] = AddMessage(g[n - 1], rest[n]),
           \A n \in 1 .. Len(rest) : f[n + 1] = AddMessage(f[n], rest[n])
    PROVE  f[Len(rest) + 1] = first \o g[Len(rest)]
<1> DEFINE k == Len(rest)  Joined(n) == g[n] \in Seq(Items) /\ f[n + 1] = first \o g[n]
           T == {n \in Nat : n <= k => Joined(n)}
<1>1. k \in Nat
  OBVIOUS
<1>2. Joined(0)
  <2>1. <<>> \in Seq(Items) /\ first = first \o <<>> /\ 0 + 1 = 1
    OBVIOUS
  <2> QED
    BY <2>1
<1>3. ASSUME NEW n \in Nat, n + 1 <= k, Joined(n) PROVE Joined(n + 1)
  <2>1. n + 1 \in 1 .. k /\ (n + 1) - 1 = n /\ rest[n + 1] \in Jobs
    BY <1>1, <1>3
  <2>2. g[n + 1] = AddMessage(g[n], rest[n + 1])
    BY <2>1
  <2>3. f[(n + 1) + 1] = AddMessage(f[n + 1], rest[n + 1])
    BY <2>1
  <2>4. g[n + 1] \in Seq(Items)
    BY <1>3, <2>1, <2>2, AddMessageType
  <2>5. AddMessage(first \o g[n], rest[n + 1]) = first \o AddMessage(g[n], rest[n + 1])
    BY <1>3, <2>1, AddMessageBehind
  <2> QED
    BY <1>3, <2>2, <2>3, <2>4, <2>5
<1> HIDE DEF Joined
<1>4. T = Nat
  <2>1. 0 \in T
    BY <1>2
  <2>2. ASSUME NEW n \in T PROVE n + 1 \in T
    BY <1>1, <1>3
  <2>3. T \in SUBSET Nat
    OBVIOUS
  <2> HIDE DEF T
  <2> QED
    BY <2>1, <2>2, <2>3, Induction
<1>5. Joined(k)
  BY <1>1, <1>4
<1> QED
  BY <1>5 DEF Joined

(* The message of the first job comes before those of the others.          *)
LEMMA MessagesOfHead ==
    ASSUME NEW jobs \in Seq(Jobs), jobs # <<>>
    PROVE  MessagesOf(jobs) = AddMessage(<<>>, Head(jobs)) \o MessagesOf(Tail(jobs))
<1> DEFINE rest == Tail(jobs)  k == Len(rest)
<1>1. /\ k \in Nat /\ Len(jobs) = k + 1
      /\ Head(jobs) = jobs[1] /\ Head(jobs) \in Jobs /\ rest \in Seq(Jobs)
      /\ \A n \in 1 .. k : rest[n] = jobs[n + 1]
  BY TailFacts
<1>2. AddMessage(<<>>, Head(jobs)) \in Seq(Items)
  <2>1. <<>> \in Seq(Items)
    OBVIOUS
  <2> QED
    BY <1>1, <2>1, AddMessageType
<1> HIDE DEF rest
<1>3. PICK f : /\ MessagesOf(jobs) = f[k + 1] /\ f[0] = <<>>
               /\ \A n \in 1 .. k + 1 : f[n] = AddMessage(f[n - 1], jobs[n])
  <2>1. Len(jobs) \in Nat
    BY <1>1
  <2> QED
    BY <1>1, <2>1, MessagesOfIs
<1>4. PICK g : /\ MessagesOf(rest) = g[k] /\ g[0] = <<>>
               /\ \A n \in 1 .. k : g[n] = AddMessage(g[n - 1], rest[n])
  BY <1>1, MessagesOfIs
<1>5. f[1] = AddMessage(<<>>, Head(jobs))
  <2>1. 1 \in 1 .. k + 1 /\ 1 - 1 = 0
    BY <1>1
  <2> QED
    BY <1>1, <1>3, <2>1
<1>6. ASSUME NEW n \in 1 .. k PROVE f[n + 1] = AddMessage(f[n], rest[n])
  <2>1. n + 1 \in 1 .. k + 1 /\ (n + 1) - 1 = n
    BY <1>1
  <2> QED
    BY <1>1, <1>3, <2>1
<1>7. f[k + 1] = AddMessage(<<>>, Head(jobs)) \o g[k]
  <2> DEFINE first == AddMessage(<<>>, Head(jobs))
  <2>1. first \in Seq(Items) /\ f[1] = first /\ rest \in Seq(Jobs) /\ g[0] = <<>>
    BY <1>1, <1>2, <1>4, <1>5
  <2>2. \A n \in 1 .. k : g[n] = AddMessage(g[n - 1], rest[n])
    BY <1>4
  <2>3. \A n \in 1 .. k : f[n + 1] = AddMessage(f[n], rest[n])
    BY <1>6
  <2> HIDE DEF first
  <2>4. f[Len(rest) + 1] = first \o g[Len(rest)]
    BY <2>1, <2>2, <2>3, MessagesBehind, Zenon
  <2> QED
    BY <2>4 DEF first
<1>8. MessagesOf(jobs) = AddMessage(<<>>, Head(jobs)) \o MessagesOf(rest)
  BY <1>3, <1>4, <1>7
<1> QED
  BY <1>8 DEF rest
-----------------------------------------------------------------------------
(***************************************************************************)
(* The steps of the broker as steps of PubSub                              *)
(***************************************************************************)

(* A socket that is sent a message has it last in its inbox.               *)
LEMMA NumberedAppend ==
    ASSUME NEW s \in Seq(Messages), NEW m \in Messages
    PROVE  [i \in DOMAIN Append(s, m) |-> Numbered(Append(s, m)[i])]
              = Append([i \in DOMAIN s |-> Numbered(s[i])], Numbered(m))
<1> DEFINE t == [i \in DOMAIN s |-> Numbered(s[i])]
           u == [i \in DOMAIN Append(s, m) |-> Numbered(Append(s, m)[i])]
<1>1. /\ DOMAIN Append(s, m) = 1 .. Len(s) + 1 /\ Len(s) \in Nat /\ DOMAIN s = 1 .. Len(s)
      /\ \A i \in DOMAIN s : Append(s, m)[i] = s[i]
      /\ Append(s, m)[Len(s) + 1] = m
  BY AppendFacts
<1>2. t \in Seq(Items) /\ Len(t) = Len(s) /\ Numbered(m) \in Items
  <2>1. \A i \in DOMAIN s : Numbered(s[i]) \in Items
    BY NumberedType
  <2> HIDE DEF Items
  <2>2. t \in Seq(Items) /\ Len(t) = Len(s)
    BY <2>1
  <2> QED
    BY <2>2, NumberedType
<1>3. \A i \in DOMAIN s : t[i] = Numbered(s[i])
  OBVIOUS
<1>4. /\ u = [i \in 1 .. Len(s) + 1 |-> u[i]]
      /\ \A i \in 1 .. Len(s) : u[i] = t[i]
      /\ u[Len(s) + 1] = Numbered(m)
  BY <1>1
<1> HIDE DEF t, u
<1>5. /\ DOMAIN Append(t, Numbered(m)) = 1 .. Len(s) + 1
      /\ Append(t, Numbered(m)) \in Seq(Items)
      /\ \A i \in 1 .. Len(s) : Append(t, Numbered(m))[i] = t[i]
      /\ Append(t, Numbered(m))[Len(s) + 1] = Numbered(m)
  BY <1>1, <1>2, AppendFacts
<1> DEFINE v == Append(t, Numbered(m))
<1> HIDE DEF v
<1>6. /\ v = [i \in 1 .. Len(s) + 1 |-> v[i]]
      /\ \A i \in 1 .. Len(s) : v[i] = t[i]
      /\ v[Len(s) + 1] = Numbered(m)
  <2>1. v \in Seq(Items) /\ DOMAIN v = 1 .. Len(s) + 1
    BY <1>5 DEF v
  <2>2. v = [i \in 1 .. Len(s) + 1 |-> v[i]]
    BY <2>1
  <2> QED
    BY <1>5, <2>2 DEF v
<1>7. \A i \in 1 .. Len(s) + 1 : u[i] = v[i]
  <2>1. \A i \in 1 .. Len(s) + 1 : i \in 1 .. Len(s) \/ i = Len(s) + 1
    BY <1>1
  <2> QED
    BY <1>4, <1>6, <2>1
<1>8. u = v
  BY <1>4, <1>6, <1>7
<1> QED
  BY <1>8 DEF t, u, v

(* Queueing a job that publishes nothing, or no job, adds no message.      *)
LEMMA NothingIssued ==
    ASSUME ticks \in Seq(Jobs), UNCHANGED <<params, nextMessageId, received>>,
           \/ UNCHANGED ticks
           \/ \E job \in Jobs : job.kind # "publish" /\ ticks' = Append(ticks, job)
    PROVE  UNCHANGED Abstract!abstractVars
<1>1. MessagesOf(ticks)' = MessagesOf(ticks)
  <2>1. ASSUME NEW job \in Jobs, job.kind # "publish", ticks' = Append(ticks, job)
        PROVE  MessagesOf(ticks') = MessagesOf(ticks)
    BY <2>1, MessagesOfAppend DEF AddMessage
  <2>2. ASSUME UNCHANGED ticks PROVE MessagesOf(ticks') = MessagesOf(ticks)
    BY <2>2
  <2> QED
    BY <2>1, <2>2
<1> QED
  BY <1>1 DEF Abstract!abstractVars, InFlight, Inbox

(* prepare_send_request issues the endpoint's next message.                *)
LEMMA MessageIssued ==
    ASSUME TypeOK, NEW e \in Endpoints, PrepareSendRequest(e), UNCHANGED <<params, received>>
    PROVE  Abstract!Issue(e)
<1>1. /\ ticks' = Append(ticks, PublishJob(e, NewMessage(e)))
      /\ PublishJob(e, NewMessage(e)) \in Jobs /\ ticks \in Seq(Jobs)
      /\ nextMessageId' = nextMessageId + 1
  BY PrepareSendRequestType DEF Schedule, PrepareSendRequest, TypeOK
<1>2. MessagesOf(ticks') = AddMessage(MessagesOf(ticks), PublishJob(e, NewMessage(e)))
  BY <1>1, MessagesOfAppend
<1>3. MessagesOf(ticks') = Append(MessagesOf(ticks), [id |-> nextMessageId + 1, from |-> e])
  BY <1>2 DEF AddMessage, PublishJob, NewMessage, Numbered
<1> QED
  BY <1>1, <1>3 DEF Abstract!Issue, InFlight, Inbox

(* The job the reactor takes was the oldest, so its message was first.     *)
LEMMA JobTaken ==
    ASSUME ticks \in Seq(Jobs), NEW raised, TakeTick(raised)
    PROVE  /\ Head(ticks).kind # "publish" => InFlight' = InFlight
           /\ Head(ticks).kind = "publish" =>
                 /\ InFlight # <<>> /\ InFlight' = Tail(InFlight)
                 /\ Head(InFlight) = Numbered(Head(ticks).message)
<1>1. /\ ticks # <<>> /\ ticks' = Tail(ticks)
      /\ Head(ticks) \in Jobs /\ Tail(ticks) \in Seq(Jobs)
  BY TailFacts DEF TakeTick
<1> DEFINE rest == MessagesOf(Tail(ticks))
<1>2. rest \in Seq(Items)
  BY <1>1, MessagesOfType
<1>3. MessagesOf(ticks) = AddMessage(<<>>, Head(ticks)) \o rest
  BY <1>1, MessagesOfHead
<1>4. InFlight' = rest
  BY <1>1 DEF InFlight
<1> HIDE DEF rest
<1>5. CASE Head(ticks).kind # "publish"
  <2>1. AddMessage(<<>>, Head(ticks)) = <<>>
    BY <1>5 DEF AddMessage
  <2>2. <<>> \o rest = rest
    BY <1>2
  <2> QED
    BY <1>3, <1>4, <1>5, <2>1, <2>2 DEF InFlight
<1>6. CASE Head(ticks).kind = "publish"
  <2> DEFINE m == Numbered(Head(ticks).message)
  <2>1. m \in Items
    <3>1. Head(ticks).message \in Messages
      BY <1>1, <1>6 DEF Jobs
    <3> QED
      BY <3>1, NumberedType
  <2>2. AddMessage(<<>>, Head(ticks)) = Append(<<>>, m)
    BY <1>6 DEF AddMessage
  <2> HIDE DEF m
  <2>3. ASSUME NEW list, list = Append(<<>>, m) \o rest
        PROVE  list # <<>> /\ Tail(list) = rest /\ Head(list) = m
    BY <1>2, <2>1, <2>3
  <2>4. InFlight # <<>> /\ Tail(InFlight) = rest /\ Head(InFlight) = m
    BY <1>3, <2>2, <2>3 DEF InFlight
  <2> QED
    BY <1>4, <1>6, <2>4 DEF m
<1> QED
  BY <1>5, <1>6

(* Who is reached by a publish has the topic of the message's sender.      *)
LEMMA ReachedTopic ==
    ASSUME IInv, NEW e \in Endpoints, phase[e] # "idle", CurrentRoom(e) # Nil,
           NEW f \in Endpoints, Reached(CurrentRoom(e), f)
    PROVE  params[f] = params[e]
<1>1. PICK id \in DOMAIN subscriptors[CurrentRoom(e)] : subscriptors[CurrentRoom(e)][id] = f
  BY DEF Reached
<1>2. application[e] \in Endpoints /\ params[e].channel \in ChannelNames
  BY DEF IInv, StructureOK, ApplicationsOK, TypeOK
<1>3. application[f] = application[e] /\ params[f].channel = params[e].channel /\ EverSubscribed(f)
  <2> DEFINE b == application[e]
             n == params[e].channel
  <2>1. /\ channels[b][n] # Nil /\ id \in DOMAIN subscriptors[channels[b][n]]
        /\ subscriptors[channels[b][n]][id] = f
    BY <1>1 DEF CurrentRoom
  <2>2. b \in Endpoints /\ n \in ChannelNames
    BY <1>2
  <2> HIDE DEF b, n
  <2>3. application[f] = b /\ params[f].channel = n /\ EverSubscribed(f)
    BY <2>1, <2>2, ListenerFacts
  <2> QED
    BY <2>3 DEF b, n
<1> QED
  BY <1>3, SameTopic DEF EverSubscribed

(* A publish delivers the oldest message to whom it reaches.               *)
LEMMA MessageDelivered ==
    ASSUME IInv, Tick, NEW e \in Endpoints, NEW m \in Messages,
           Head(ticks) = PublishJob(e, m), Publish(e, m), phase[e] # "idle", m.from = e
    PROVE  \E reached \in SUBSET Endpoints : Abstract!Deliver(reached)
<1>0. ticks \in Seq(Jobs) /\ received \in [Endpoints -> Seq(Messages)]
  BY DEF IInv, TypeOK
<1>1. \E raised : TakeTick(raised)
  BY DEF Publish
<1>2. /\ InFlight # <<>> /\ InFlight' = Tail(InFlight) /\ Head(InFlight) = Numbered(m)
  <2>1. Head(ticks).kind = "publish" /\ Head(ticks).message = m
    BY DEF PublishJob
  <2> QED
    BY <1>0, <1>1, <2>1, JobTaken
<1>3. UNCHANGED <<params, nextMessageId>>
  BY DEF Publish
<1>4. PICK reached \in SUBSET Endpoints :
          /\ \A f \in reached : params[f] = params[e]
          /\ received' = [r \in Endpoints |->
                IF r \in reached THEN Append(received[r], m) ELSE received[r]]
  <2>1. CASE ConnectionChannel(e) = Nil \/ CurrentRoom(e) = Nil
    <3>1. received' = received
      <4>1. ConnectionChannel(e) # Nil => ConnectionChannel(e) = params[e].channel
        BY DEF ConnectionChannel
      <4> QED
        BY <2>1, <4>1 DEF Publish, CurrentRoom
    <3> DEFINE hearers == {}
    <3>2. hearers \in SUBSET Endpoints /\ \A f \in hearers : params[f] = params[e]
      OBVIOUS
    <3>3. received' = [r \in Endpoints |->
              IF r \in hearers THEN Append(received[r], m) ELSE received[r]]
      BY <1>0, <3>1
    <3> HIDE DEF hearers
    <3> QED
      BY <3>2, <3>3
  <2>2. CASE ConnectionChannel(e) # Nil /\ CurrentRoom(e) # Nil
    <3> DEFINE hearers == {f \in Endpoints : /\ Reached(CurrentRoom(e), f)
                                             /\ f \notin closed \union closing}
    <3>1. ConnectionChannel(e) = params[e].channel
      BY <2>2 DEF ConnectionChannel
    <3>2. received' = [r \in Endpoints |->
              IF Reached(CurrentRoom(e), r) /\ r \notin closed \union closing
              THEN Append(received[r], m) ELSE received[r]]
      BY <2>2, <3>1 DEF Publish, CurrentRoom
    <3>3. received' = [r \in Endpoints |->
              IF r \in hearers THEN Append(received[r], m) ELSE received[r]]
      BY <3>2
    <3>4. \A f \in hearers : params[f] = params[e]
      BY <2>2, ReachedTopic
    <3>5. hearers \in SUBSET Endpoints
      OBVIOUS
    <3> HIDE DEF hearers
    <3> QED
      BY <3>3, <3>4, <3>5
  <2> QED
    BY <2>1, <2>2
<1>5. Inbox' = [c \in Endpoints |->
          IF c \in reached THEN Append(Inbox[c], Numbered(m)) ELSE Inbox[c]]
  <2>1. ASSUME NEW c \in Endpoints
        PROVE  [i \in DOMAIN received'[c] |-> Numbered(received'[c][i])]
                 = IF c \in reached THEN Append(Inbox[c], Numbered(m)) ELSE Inbox[c]
    <3>1. Inbox[c] = [i \in DOMAIN received[c] |-> Numbered(received[c][i])]
      BY DEF Inbox
    <3>2. CASE c \in reached
      <4>1. received'[c] = Append(received[c], m) /\ received[c] \in Seq(Messages)
        BY <1>0, <1>4, <3>2
      <4> QED
        BY <3>1, <3>2, <4>1, NumberedAppend
    <3>3. CASE c \notin reached
      <4>1. received'[c] = received[c]
        BY <1>4, <3>3
      <4> QED
        BY <3>1, <3>3, <4>1
    <3> QED
      BY <3>2, <3>3
  <2> QED
    BY <2>1 DEF Inbox
<1>6. Numbered(m).from = e
  BY DEF Numbered
<1>7. Abstract!Deliver(reached)
  BY <1>2, <1>3, <1>4, <1>5, <1>6 DEF Abstract!Deliver
<1> QED
  BY <1>4, <1>7

(* Every step of the broker is a step of PubSub or changes nothing of it.  *)
LEMMA PubSubStep == IInv /\ [Next]_vars => [Abstract!Step]_(Abstract!abstractVars)
<1> SUFFICES ASSUME IInv, [Next]_vars PROVE [Abstract!Step]_(Abstract!abstractVars)
  OBVIOUS
<1>0. TypeOK /\ ticks \in Seq(Jobs)
  BY DEF IInv, TypeOK
<1>1. ASSUME NEW e \in Endpoints,
             Authenticate(e) \/ LoginFailed(e) \/ CloseFrame(e) \/ PushTimerFires(e)
      PROVE  UNCHANGED Abstract!abstractVars
  <2>1. UNCHANGED <<ticks, params, nextMessageId, received>>
    BY <1>1 DEF Authenticate, LoginFailed, CloseFrame, PushTimerFires, loopVars, connVars
  <2> QED
    BY <1>0, <2>1, NothingIssued
<1>2. ASSUME NEW e \in Endpoints, LoginOk(e) PROVE UNCHANGED Abstract!abstractVars
  <2>1. /\ PrepareJob(e) \in Jobs /\ PrepareJob(e).kind # "publish"
        /\ ticks' = Append(ticks, PrepareJob(e))
        /\ UNCHANGED <<params, nextMessageId, received>>
    BY <1>2 DEF LoginOk, Schedule, PrepareJob, Jobs
  <2> QED
    BY <1>0, <2>1, NothingIssued
<1>3. ASSUME NEW e \in Endpoints, SendRequest(e) \/ OnMessage(e) PROVE Abstract!Issue(e)
  <2>1. PrepareSendRequest(e) /\ UNCHANGED <<params, received>>
    BY <1>3 DEF SendRequest, OnMessage
  <2> QED
    BY <1>0, <2>1, MessageIssued
<1>4. ASSUME NEW e \in Endpoints, OnClose(e) PROVE UNCHANGED Abstract!abstractVars
  <2>1. UNCHANGED <<params, nextMessageId, received>>
    BY <1>4 DEF OnClose
  <2>2. \/ UNCHANGED ticks
        \/ \E job \in Jobs : job.kind # "publish" /\ ticks' = Append(ticks, job)
    <3>1. CASE UNCHANGED loopVars
      BY <3>1 DEF loopVars
    <3>2. CASE phase[e] = "subscribed" /\ Unsubscribe(application[e], params[e].channel, subscription[e])
      <4> DEFINE job == CleanupJob(application[e], params[e].channel, CurrentRoom(e))
      <4>1. job.kind # "publish"
        BY DEF CleanupJob
      <4>2. CASE CurrentRoom(e) = Nil
        BY <3>2, <4>2 DEF Unsubscribe, loopVars, CurrentRoom
      <4>3. CASE CurrentRoom(e) # Nil
        <5>1. /\ Schedule(job) /\ application[e] \in Endpoints
              /\ params[e].channel \in ChannelNames /\ CurrentRoom(e) \in Endpoints
          BY <3>2, <4>3, UnsubscribeFacts
        <5>2. job \in Jobs
          BY <5>1 DEF CleanupJob, Jobs
        <5> HIDE DEF job
        <5> QED
          BY <4>1, <5>1, <5>2 DEF Schedule
      <4> QED
        BY <4>2, <4>3
    <3> QED
      BY <1>4, <3>1, <3>2 DEF OnClose
  <2> QED
    BY <1>0, <2>1, <2>2, NothingIssued
<1>5. ASSUME Tick PROVE [Abstract!Step]_(Abstract!abstractVars)
  <2>0. PICK raised : TakeTick(raised)
    BY <1>5 DEF Tick, Prepare, Cleanup, Publish
  <2>1. ASSUME NEW e \in Subscribers, Head(ticks) = PrepareJob(e), Prepare(e)
        PROVE  UNCHANGED Abstract!abstractVars
    <3>1. Head(ticks).kind = "prepare"
      BY <2>1 DEF PrepareJob
    <3>2. UNCHANGED <<params, nextMessageId, received>>
      BY <2>1 DEF Prepare
    <3>3. InFlight' = InFlight
      BY <1>0, <2>0, <3>1, JobTaken
    <3> QED
      BY <3>2, <3>3 DEF Abstract!abstractVars, Inbox
  <2>2. ASSUME NEW a \in Endpoints, NEW name \in ChannelNames, NEW ch \in Endpoints,
               Head(ticks) = CleanupJob(a, name, ch), Cleanup(CleanupJob(a, name, ch))
        PROVE  UNCHANGED Abstract!abstractVars
    <3>1. Head(ticks).kind = "cleanup"
      BY <2>2 DEF CleanupJob
    <3>2. UNCHANGED <<params, nextMessageId, received>>
      BY <2>2 DEF Cleanup, connVars
    <3>3. InFlight' = InFlight
      BY <1>0, <2>0, <3>1, JobTaken
    <3> QED
      BY <3>2, <3>3 DEF Abstract!abstractVars, Inbox
  <2> QED
    BY <1>5, <2>1, <2>2, MessageDelivered, TickCases DEF Abstract!Step
<1>6. ASSUME UNCHANGED vars PROVE UNCHANGED Abstract!abstractVars
  <2>1. UNCHANGED <<ticks, params, nextMessageId, received>>
    BY <1>6 DEF vars, loopVars, connVars
  <2> QED
    BY <1>0, <2>1, NothingIssued
<1> QED
  BY <1>1, <1>2, <1>3, <1>4, <1>5, <1>6 DEF Next, Abstract!Step

(* SafelyImplementsPubSub: whatever sockets, mongo and the reactor do,     *)
(* messages are published one at a time in the order of their ids, and     *)
(* each reaches a connection at most once and only connections with the    *)
(* api id and the channel of its sender.                                   *)
THEOREM SafelyImplementsPubSub == Spec => Abstract!PubSubSpec
<1>1. Init => Abstract!Start
  <2> SUFFICES ASSUME Init PROVE Abstract!Start
    OBVIOUS
  <2>1. InFlight = <<>>
    BY MessagesOfNone DEF Init, LoopInit, InFlight
  <2>2. [i \in DOMAIN <<>> |-> Numbered(<<>>[i])] = <<>>
    OBVIOUS
  <2>3. Inbox = [c \in Endpoints |-> <<>>]
    BY <2>2 DEF Init, Inbox
  <2> QED
    BY <2>1, <2>3 DEF Init, Abstract!Start
<1> QED
  BY <1>1, PubSubStep, IInvAlways, PTL DEF Spec, Abstract!PubSubSpec
-----------------------------------------------------------------------------
(***************************************************************************)
(* What a client sees                                                      *)
(***************************************************************************)

Ascending(s) == \A m, n \in 1 .. Len(s) : m < n => s[m].id < s[n].id

UpTo(s, last) == \A n \in 1 .. Len(s) : s[n].id <= last

(* What a client has and what is in flight are in the order of the ids,    *)
(* none of which is larger than the last: a delivery moves the first       *)
(* message in flight behind those the client has, or drops it.             *)
Queue(c) == Inbox[c] \o InFlight

LinedUp ==
    \A c \in Endpoints : Ascending(Queue(c)) /\ UpTo(Queue(c), nextMessageId)

(* Whatever is in the queues is a sequence of messages.                    *)
LEMMA QueueTyped ==
    ASSUME TypeOK
    PROVE  /\ InFlight \in Seq(Items) /\ nextMessageId \in Nat
           /\ \A c \in Endpoints : Inbox[c] \in Seq(Items) /\ Queue(c) \in Seq(Items)
<1>1. InFlight \in Seq(Items)
  BY MessagesOfType DEF InFlight, TypeOK
<1>2. ASSUME NEW c \in Endpoints PROVE Inbox[c] \in Seq(Items)
  <2>1. received[c] \in Seq(Messages)
    BY DEF TypeOK
  <2>2. \A i \in DOMAIN received[c] : Numbered(received[c][i]) \in Items
    BY <2>1, NumberedType
  <2> HIDE DEF Items
  <2>3. [i \in DOMAIN received[c] |-> Numbered(received[c][i])] \in Seq(Items)
    BY <2>1, <2>2
  <2> QED
    BY <2>3 DEF Inbox
<1>3. nextMessageId \in Nat
  BY ConstantFacts, MaxMessagesAssumption DEF TypeOK
<1>4. ASSUME NEW c \in Endpoints PROVE Queue(c) \in Seq(Items)
  <2>1. Inbox[c] \in Seq(Items)
    BY <1>2
  <2> QED
    BY <1>1, <2>1 DEF Queue
<1> QED
  BY <1>1, <1>2, <1>3, <1>4

(* A new message, with the next id, stands behind all others.              *)
LEMMA OneBehind ==
    ASSUME NEW s \in Seq(Items), NEW last \in Nat, NEW x \in Items, x.id = last + 1,
           Ascending(s), UpTo(s, last)
    PROVE  Ascending(Append(s, x)) /\ UpTo(Append(s, x), last + 1)
<1> DEFINE t == Append(s, x)
<1>1. /\ Len(t) = Len(s) + 1 /\ Len(s) \in Nat /\ t[Len(s) + 1] = x
      /\ \A n \in 1 .. Len(s) : t[n] = s[n] /\ s[n].id \in Nat
  <2>1. \A n \in 1 .. Len(s) : s[n] \in Items
    OBVIOUS
  <2>2. \A y \in Items : y.id \in Nat
    BY DEF Items
  <2>3. /\ Len(t) = Len(s) + 1 /\ Len(s) \in Nat /\ t[Len(s) + 1] = x
        /\ \A n \in 1 .. Len(s) : t[n] = s[n]
    BY AppendFacts
  <2> QED
    BY <2>1, <2>2, <2>3
<1> HIDE DEF t
<1>2. ASSUME NEW n \in 1 .. Len(t) PROVE t[n].id <= last + 1
  <2>1. CASE n = Len(s) + 1
    BY <1>1, <2>1
  <2>2. CASE n # Len(s) + 1
    <3>1. n \in 1 .. Len(s)
      BY <1>1, <2>2
    <3> QED
      BY <1>1, <3>1 DEF UpTo
  <2> QED
    BY <2>1, <2>2
<1>3. ASSUME NEW m \in 1 .. Len(t), NEW n \in 1 .. Len(t), m < n PROVE t[m].id < t[n].id
  <2>1. m \in 1 .. Len(s)
    BY <1>1, <1>3
  <2>2. t[m] = s[m] /\ s[m].id <= last /\ s[m].id \in Nat
    BY <1>1, <2>1 DEF UpTo
  <2>3. CASE n = Len(s) + 1
    BY <1>1, <2>2, <2>3
  <2>4. CASE n # Len(s) + 1
    <3>1. n \in 1 .. Len(s)
      BY <1>1, <2>4
    <3> QED
      BY <1>1, <1>3, <2>1, <2>2, <3>1 DEF Ascending
  <2> QED
    BY <2>3, <2>4
<1> QED
  BY <1>2, <1>3 DEF Ascending, UpTo, t

(* What is left when one message is dropped is still in order.             *)
LEMMA OneDropped ==
    ASSUME NEW s \in Seq(Items), NEW q \in Seq(Items), q # <<>>, NEW last,
           Ascending(s \o q), UpTo(s \o q, last)
    PROVE  Ascending(s \o Tail(q)) /\ UpTo(s \o Tail(q), last)
<1> DEFINE k == Len(s)  r == Tail(q)  old == s \o q  new == s \o r
           from == [n \in 1 .. k + Len(r) |-> IF n <= k THEN n ELSE n + 1]
<1>1. /\ r \in Seq(Items) /\ Len(r) = Len(q) - 1 /\ Len(q) \in Nat /\ Len(q) > 0 /\ k \in Nat
      /\ \A n \in 1 .. Len(q) - 1 : r[n] = q[n + 1]
  BY TailFacts
<1>2. /\ Len(old) = k + Len(q)
      /\ \A n \in 1 .. k : old[n] = s[n]
      /\ \A n \in 1 .. Len(q) : old[k + n] = q[n]
  BY ConcatFacts
<1> HIDE DEF r, old
<1>3. /\ Len(new) = k + Len(r)
      /\ \A n \in 1 .. k : new[n] = s[n]
      /\ \A n \in 1 .. Len(r) : new[k + n] = r[n]
  <2>1. r \in Seq(Items)
    BY <1>1
  <2> HIDE DEF Items
  <2>2. /\ Len(s \o r) = Len(s) + Len(r)
        /\ \A n \in 1 .. Len(s) : (s \o r)[n] = s[n]
        /\ \A n \in 1 .. Len(r) : (s \o r)[Len(s) + n] = r[n]
    BY <2>1, ConcatFacts
  <2> QED
    BY <2>2
<1> HIDE DEF new
<1>4. ASSUME NEW n \in 1 .. Len(new)
      PROVE  from[n] \in 1 .. Len(old) /\ new[n] = old[from[n]]
  <2>1. CASE n <= k
    <3>1. from[n] = n /\ n \in 1 .. k
      BY <1>1, <1>3, <2>1
    <3> QED
      BY <1>1, <1>2, <1>3, <3>1
  <2>2. CASE n > k
    <3> DEFINE j == n - k
    <3>1. from[n] = n + 1 /\ j \in 1 .. Len(r) /\ n = k + j /\ j + 1 \in 1 .. Len(q)
      BY <1>1, <1>3, <2>2
    <3>2. new[k + j] = r[j] /\ r[j] = q[j + 1] /\ old[k + (j + 1)] = q[j + 1]
      BY <1>1, <1>2, <1>3, <3>1
    <3>3. k + (j + 1) = n + 1 /\ n + 1 \in 1 .. Len(old)
      BY <1>1, <1>2, <3>1
    <3> QED
      BY <3>1, <3>2, <3>3
  <2> QED
    BY <1>1, <1>3, <2>1, <2>2
<1>5. \A m, n \in 1 .. Len(new) : m < n => from[m] < from[n]
  BY <1>1, <1>3
<1> HIDE DEF from, k
<1>6. Ascending(new)
  BY <1>4, <1>5 DEF Ascending, old
<1>7. UpTo(new, last)
  BY <1>4 DEF UpTo, old
<1> QED
  BY <1>6, <1>7 DEF new, r

LEMMA LinedUpStep ==
    TypeOK /\ TypeOK' /\ LinedUp /\ [Abstract!Step]_(Abstract!abstractVars) => LinedUp'
<1> SUFFICES ASSUME TypeOK, TypeOK', LinedUp, [Abstract!Step]_(Abstract!abstractVars),
                    NEW c \in Endpoints
             PROVE  Ascending(Queue(c)') /\ UpTo(Queue(c)', nextMessageId')
  BY DEF LinedUp
<1>0. /\ InFlight \in Seq(Items) /\ nextMessageId \in Nat /\ Inbox[c] \in Seq(Items)
      /\ Queue(c) \in Seq(Items) /\ Ascending(Queue(c)) /\ UpTo(Queue(c), nextMessageId)
  BY QueueTyped DEF LinedUp
<1>1. ASSUME NEW e \in Endpoints, Abstract!Issue(e)
      PROVE  Ascending(Queue(c)') /\ UpTo(Queue(c)', nextMessageId')
  <2> DEFINE x == [id |-> nextMessageId + 1, from |-> e]
  <2>1. nextMessageId' = nextMessageId + 1 /\ InFlight' = Append(InFlight, x) /\ Inbox' = Inbox
    BY <1>1 DEF Abstract!Issue
  <2>2. x \in Items /\ x.id = nextMessageId + 1
    BY <1>0 DEF Items
  <2> HIDE DEF x
  <2>3. Queue(c)' = Append(Queue(c), x)
    <3>1. ASSUME NEW s \in Seq(Items), NEW t \in Seq(Items)
          PROVE  s \o Append(t, x) = Append(s \o t, x)
      BY <2>2, ConcatAppend
    <3> QED
      BY <1>0, <2>1, <3>1 DEF Queue
  <2> QED
    BY <1>0, <2>1, <2>2, <2>3, OneBehind
<1>2. ASSUME NEW reached \in SUBSET Endpoints, Abstract!Deliver(reached)
      PROVE  Ascending(Queue(c)') /\ UpTo(Queue(c)', nextMessageId')
  <2> DEFINE x == Head(InFlight)
  <2>1. /\ InFlight # <<>> /\ InFlight' = Tail(InFlight) /\ nextMessageId' = nextMessageId
        /\ Inbox'[c] = IF c \in reached THEN Append(Inbox[c], x) ELSE Inbox[c]
    BY <1>2 DEF Abstract!Deliver
  <2>2. CASE c \in reached
    <3>1. Append(Inbox[c], x) \o Tail(InFlight) = Inbox[c] \o InFlight
      <4>1. Inbox[c] \in Seq(Items) /\ InFlight \in Seq(Items) /\ InFlight # <<>>
        BY <1>0, <2>1
      <4> QED BY ONLY <4>1, HeadMoved, Zenon DEF x
    <3> HIDE DEF x
    <3>2. Queue(c)' = Queue(c)
      BY <2>1, <2>2, <3>1 DEF Queue
    <3> QED
      BY <1>0, <2>1, <3>2
  <2>3. CASE c \notin reached
    <3>1. Queue(c)' = Inbox[c] \o Tail(InFlight)
      BY <2>1, <2>3 DEF Queue
    <3>2. Ascending(Inbox[c] \o InFlight) /\ UpTo(Inbox[c] \o InFlight, nextMessageId)
      BY <1>0 DEF Queue
    <3> QED
      BY <1>0, <2>1, <3>1, <3>2, OneDropped
  <2> QED
    BY <2>2, <2>3
<1>3. ASSUME UNCHANGED Abstract!abstractVars
      PROVE  Ascending(Queue(c)') /\ UpTo(Queue(c)', nextMessageId')
  BY <1>0, <1>3 DEF Abstract!abstractVars, Queue
<1> QED
  BY <1>1, <1>2, <1>3 DEF Abstract!Step

(* SeenInOrder: a client sees messages in the order of their ids and none  *)
(* twice, though it may subscribe late, leave early, be closing while a    *)
(* message is pushed or be cut off by another's exception.                 *)
THEOREM SeenInOrder == Spec => []Abstract!InOrder
<1>1. Init => LinedUp
  <2> SUFFICES ASSUME Init, NEW c \in Endpoints
               PROVE  Ascending(Queue(c)) /\ UpTo(Queue(c), nextMessageId)
    BY DEF LinedUp
  <2>1. InFlight = <<>>
    BY MessagesOfNone DEF Init, LoopInit, InFlight
  <2>2. received[c] = <<>> /\ [i \in DOMAIN <<>> |-> Numbered(<<>>[i])] = <<>>
    BY DEF Init
  <2>3. Inbox[c] = <<>>
    BY <2>2 DEF Inbox
  <2>4. Len(<<>> \o <<>>) = 0
    OBVIOUS
  <2>5. Len(Queue(c)) = 0
    BY <2>1, <2>3, <2>4 DEF Queue
  <2> QED
    BY <2>5 DEF Ascending, UpTo
<1>2. LinedUp /\ IInv /\ IInv' /\ [Next]_vars => LinedUp'
  BY LinedUpStep, PubSubStep DEF IInv
<1>3. LinedUp /\ IInv => Abstract!InOrder
  <2> SUFFICES ASSUME LinedUp, TypeOK, NEW c \in Endpoints,
                      NEW m \in DOMAIN Inbox[c], NEW n \in DOMAIN Inbox[c], m < n
               PROVE  Inbox[c][m].id < Inbox[c][n].id
    BY DEF IInv, Abstract!InOrder
  <2>1. Inbox[c] \in Seq(Items) /\ InFlight \in Seq(Items) /\ Ascending(Queue(c))
    BY QueueTyped DEF LinedUp
  <2>2. /\ m \in 1 .. Len(Queue(c)) /\ n \in 1 .. Len(Queue(c))
        /\ Queue(c)[m] = Inbox[c][m] /\ Queue(c)[n] = Inbox[c][n]
    BY <2>1 DEF Queue
  <2> QED
    BY <2>1, <2>2 DEF Ascending
<1> QED
  BY <1>1, <1>2, <1>3, IInvAlways, PTL DEF Spec
=============================================================================
