--------------------------- MODULE PresenceProofs ---------------------------
(***************************************************************************)
(* Proofs about Presence, for any number of connections and users.         *)
(***************************************************************************)
EXTENDS Presence, SequenceFacts, FiniteSetTheorems, TLAPS

Entered(c) == phase[c] \in {"subscribed", "departed"}

(* The tables, the queue and the threads keep in step with the phases.     *)
PhasesOK ==
    /\ subscriptors = {c \in Connections : phase[c] = "subscribed"}
    /\ \A c \in Connections :
          /\ stage[<<"open", c>>] # "none" => Entered(c)
          /\ stage[<<"close", c>>] # "none" => phase[c] = "departed"

(* prepare_connection is queued once; a close event of a user with one     *)
(* connection is queued when that connection has departed.                 *)
QueueOK ==
    \A i \in DOMAIN ticks :
        /\ ticks[i].kind = "prepare" =>
              /\ phase[ticks[i].connection] = "accepted"
              /\ \A j \in DOMAIN ticks : ticks[j] = ticks[i] => j = i
        /\ ticks[i].kind = "push" /\ ticks[i].event = "close" =>
              \A d \in Connections :
                 Sole(d) /\ user[d] = ticks[i].user => phase[d] = "departed"

(* Nobody enters the table behind an iteration, and the open events of a   *)
(* user with one connection find it logged only once.                      *)
ThreadsOK ==
    /\ \A t \in Tasks : stage[t] \in {"counting", "listing"} => subscriptors \subseteq seen[t]
    /\ \A t \in Tasks : \A c \in seen[t] : Entered(c)
    /\ \A d \in Connections :
          Sole(d) /\ stage[<<"open", d>>] = "counted" => ~ logged[<<"open", d>>]

OpenPush(u) == [kind |-> "push", event |-> "open", user |-> u]

(* Connection c knows of d's user or is going to: by the open event of d,  *)
(* or by its own list.                                                     *)
Told(c, d) ==
    \/ knows[c][user[d]] = "there"
    \/ stage[<<"open", d>>] \in {"deferred", "counting", "counted"}
    \/ Pending(OpenPush(user[d]))
    \/ stage[<<"open", c>>] \in {"deferred", "counting", "counted", "announced", "listing"}
    \/ stage[<<"open", c>>] = "listed" /\ user[d] \in current[c]

(* d is to be told to c, and neither was nor is about to be.               *)
Owed(c, d) == user[c] # user[d] /\ Sole(d) /\ d \notin invisible /\ ~ Told(c, d)

Untold(c) == {d \in subscriptors : Owed(c, d)}

(* Each closing WebSocket ahead of a connection has cost it one event.     *)
CountOK ==
    \A c \in subscriptors \ closing :
        Cardinality(Untold(c)) <= Cardinality(ahead[c] \intersect stalled)

(* Among the listeners, who came before whom is a strict order.            *)
OrderOK ==
    /\ IsFiniteSet(listeners) /\ IsFiniteSet(stalled)
    /\ \A c \in listeners :
          /\ phase[c] \in {"subscribed", "unlisted"}
          /\ c \notin ahead[c]
          /\ \A r \in ahead[c] \intersect listeners : ahead[r] \intersect listeners \subseteq ahead[c]
    /\ \A c \in Connections : \A r \in ahead[c] :
          phase[r] \in {"subscribed", "unlisted", "departed"}

PresenceInv ==
    /\ PresenceTypeOK /\ PhasesOK /\ QueueOK /\ ThreadsOK /\ OrderOK /\ CountOK

(* A step after which nobody is owed an event who was not before.          *)
ToldStays ==
    \A a \in subscriptors' \ closing', d \in subscriptors' :
        Owed(a, d)' => a \in subscriptors \ closing /\ d \in subscriptors /\ Owed(a, d)

-----------------------------------------------------------------------------
(* The tasks are the pairs of an event and a connection.                   *)
LEMMA TaskFacts ==
    /\ \A t \in Tasks : t[1] \in {"open", "close"} /\ t[2] \in Connections /\ t = <<t[1], t[2]>>
    /\ \A c \in Connections : <<"open", c>> \in Tasks /\ <<"close", c>> \in Tasks
    /\ \A c, d \in Connections : <<"open", c>> # <<"close", d>>
    /\ \A c, d \in Connections : <<"open", c>> = <<"open", d>> => c = d
    /\ \A c, d \in Connections : <<"close", c>> = <<"close", d>> => c = d
  BY DEF Tasks

(* EM.next_tick: the new job stands behind the others.                     *)
LEMMA ScheduleFacts ==
    ASSUME PresenceTypeOK, NEW job \in PresenceJobs, Schedule(job)
    PROVE  /\ ticks' \in Seq(PresenceJobs) /\ left' \in 0 .. Len(ticks')
           /\ \A i \in DOMAIN ticks : i \in DOMAIN ticks' /\ ticks'[i] = ticks[i]
           /\ \A i \in DOMAIN ticks' :
                 \/ i \in DOMAIN ticks /\ ticks'[i] = ticks[i]
                 \/ i = Len(ticks) + 1 /\ ticks'[i] = job
           /\ Len(ticks) + 1 \in DOMAIN ticks' /\ ticks'[Len(ticks) + 1] = job
           /\ Len(ticks) + 1 \notin DOMAIN ticks
  <1>1. ticks \in Seq(PresenceJobs) /\ left \in 0 .. Len(ticks)
    BY DEF PresenceTypeOK
  <1>2. ticks' = Append(ticks, job) /\ left' = left
    BY DEF Schedule
  <1>3. QED
    BY <1>1, <1>2, AppendFacts

(* The reactor takes the head, the others move up.                         *)
LEMMA TakeFacts ==
    ASSUME PresenceTypeOK, NEW raised \in BOOLEAN, TakeTick(raised)
    PROVE  /\ ticks' \in Seq(PresenceJobs) /\ left' \in 0 .. Len(ticks')
           /\ Head(ticks) \in PresenceJobs /\ 1 \in DOMAIN ticks /\ Head(ticks) = ticks[1]
           /\ \A i \in DOMAIN ticks' :
                 i \in Nat /\ i + 1 \in DOMAIN ticks /\ i + 1 # 1 /\ ticks'[i] = ticks[i + 1]
           /\ \A i \in DOMAIN ticks :
                 i # 1 => i - 1 \in DOMAIN ticks' /\ ticks'[i - 1] = ticks[i]
  <1>1. ticks \in Seq(PresenceJobs) /\ left \in 0 .. Len(ticks) /\ ticks # <<>>
    BY DEF PresenceTypeOK, TakeTick
  <1>2. ticks' = Tail(ticks)
        /\ left' = IF raised THEN 0 ELSE IF left = 0 THEN Len(ticks) - 1 ELSE left - 1
    BY DEF TakeTick
  <1>3. DOMAIN ticks' \subseteq Nat /\ Len(ticks') = Len(ticks) - 1
    BY <1>1, <1>2, TailFacts
  <1>4. left' \in 0 .. Len(ticks')
    BY <1>1, <1>2, <1>3
  <1>5. QED
    BY <1>1, <1>2, <1>3, <1>4, TailFacts

(* What one step of the reactor may be.                                    *)
LEMMA PresenceTickCases ==
    ASSUME PresenceTypeOK, PresenceTick
    PROVE  \/ \E c \in Connections :
                 Head(ticks) = [kind |-> "prepare", connection |-> c] /\ Subscribe(c)
           \/ Head(ticks) = [kind |-> "cleanup"] /\ CleanupAfterUnsubscribe
           \/ \E e \in {"open", "close"}, u \in Users :
                 /\ Head(ticks) = [kind |-> "push", event |-> e, user |-> u]
                 /\ Push(Head(ticks))
  <1>1. Head(ticks) \in PresenceJobs
    BY TailFacts DEF PresenceTypeOK, PresenceTick
  <1>2. QED
    BY <1>1 DEF PresenceTick, PresenceJobs

-----------------------------------------------------------------------------
(* Counting.                                                               *)

(* A set that gained an element has at least one more.                     *)
LEMMA OneMore ==
    ASSUME NEW S, NEW T, IsFiniteSet(S), IsFiniteSet(T), S \subseteq T,
           NEW x, x \in T, x \notin S
    PROVE  Cardinality(S) + 1 <= Cardinality(T)
  <1>1. Cardinality(S \union {x}) = Cardinality(S) + 1
    BY FS_AddElement
  <1>2. (S \union {x}) \in SUBSET T
    OBVIOUS
  <1>3. Cardinality(S \union {x}) <= Cardinality(T)
    BY <1>2, FS_Subset
  <1>4. QED
    BY <1>1, <1>3

(* A set within another one and an element has at most one more.           *)
LEMMA AtMostOneMore ==
    ASSUME NEW S, NEW T, IsFiniteSet(S), \E x : T \subseteq S \union {x}
    PROVE  Cardinality(T) <= Cardinality(S) + 1
  <1>1. PICK x : T \subseteq S \union {x}
    OBVIOUS
  <1>2. /\ IsFiniteSet(S \union {x})
        /\ Cardinality(S \union {x}) = Cardinality(S) \/ Cardinality(S \union {x}) = Cardinality(S) + 1
    BY FS_AddElement
  <1>3. Cardinality(T) <= Cardinality(S \union {x})
    <2>1. T \in SUBSET (S \union {x})
      BY <1>1
    <2>2. QED
      BY <1>2, <2>1, FS_Subset
  <1>4. Cardinality(S) \in Nat /\ Cardinality(T) \in Nat
    <2>1. IsFiniteSet(T)
      <3>1. T \in SUBSET (S \union {x})
        BY <1>1
      <3>2. QED
        BY <1>2, <3>1, FS_Subset
    <2>2. QED
      BY <2>1, FS_CardinalityType
  <1>5. QED
    BY <1>2, <1>3, <1>4

-----------------------------------------------------------------------------
(* Types.                                                                  *)

LEMMA PresenceInitType == PresenceInit => PresenceTypeOK
  BY DiscreetAssumption, WebSocketsAssumption
     DEF PresenceInit, PresenceTypeOK, LoopInit, Phases, Stages

(* The connections' own steps keep the types.                              *)
LEMMA ConnectionStepType ==
    ASSUME PresenceTypeOK, NEW c \in Connections,
           Login(c) \/ CloseFrame(c) \/ Unsubscribe(c) \/ EndListing(c) \/ SendCurrent(c)
    PROVE  PresenceTypeOK'
  <1>1. CASE Login(c)
    <2>1. [kind |-> "prepare", connection |-> c] \in PresenceJobs
      BY DEF PresenceJobs
    <2>2. QED
      BY <1>1, <2>1, ScheduleFacts
         DEF Login, EnterPresencePhase, PresenceTypeOK, Phases, threadVars
  <1>2. CASE Unsubscribe(c)
    <2>1. [kind |-> "cleanup"] \in PresenceJobs
      BY DEF PresenceJobs
    <2>2. QED
      BY <1>2, <2>1, ScheduleFacts, TaskFacts
         DEF Unsubscribe, EnterPresencePhase, EnterStage, PresenceTypeOK, Phases, Stages
  <1>3. CASE EndListing(c)
    <2>1. PICK one \in SUBSET Connections :
             WillSend(c, UsersOf({k \in one : \/ user[k] # user[c] /\ k \notin invisible
                                              \/ logged[<<"open", c>>]}))
      BY <1>3, TaskFacts DEF EndListing, Found, UniqueOf, PresenceTypeOK
    <2>2. UsersOf({k \in one : \/ user[k] # user[c] /\ k \notin invisible
                               \/ logged[<<"open", c>>]}) \subseteq Users
      BY DEF UsersOf, PresenceTypeOK
    <2>3. QED
      BY <1>3, <2>1, <2>2, TaskFacts
         DEF EndListing, WillSend, EnterStage, PresenceTypeOK, Stages, loopVars, connectionVars
  <1>4. CASE SendCurrent(c)
    <2>1. /\ knows' \in [Connections -> [Users -> {"nothing", "there", "gone"}]]
          /\ \E users \in SUBSET Users : WillSend(c, users)
      <3>1. CASE knows' = knows /\ WillSend(c, {})
        BY <3>1 DEF PresenceTypeOK
      <3>2. ASSUME NEW u \in current[c], knows' = [knows EXCEPT ![c] = [@ EXCEPT ![u] = "there"]],
                   WillSend(c, current[c] \ {u})
            PROVE  /\ knows' \in [Connections -> [Users -> {"nothing", "there", "gone"}]]
                   /\ \E users \in SUBSET Users : WillSend(c, users)
        BY <3>2 DEF PresenceTypeOK
      <3>3. QED
        BY <1>4, <3>1, <3>2 DEF SendCurrent
    <2>2. PICK users \in SUBSET Users : WillSend(c, users)
      BY <2>1
    <2>3. current' \in [Connections -> SUBSET Users]
      BY <2>2 DEF WillSend, PresenceTypeOK
    <2>4. stage' = [stage EXCEPT ![<<"open", c>>] = "done"]
          \/ stage' = [stage EXCEPT ![<<"open", c>>] = "listed"]
      BY <2>2 DEF WillSend, EnterStage
    <2>5. stage' \in [Tasks -> Stages]
      BY <2>4, ZenonT(30) DEF PresenceTypeOK, Stages
    <2>6. QED
      BY <1>4, <2>1, <2>3, <2>5 DEF SendCurrent, PresenceTypeOK, loopVars, connectionVars
  <1>5. CASE CloseFrame(c)
    BY <1>5 DEF CloseFrame, PresenceTypeOK, loopVars, threadVars
  <1>6. QED
    BY <1>1, <1>2, <1>3, <1>4, <1>5

(* The steps of a thread keep the types.                                   *)
LEMMA ThreadStepType ==
    ASSUME PresenceTypeOK, NEW t \in Tasks, Thread(t)
    PROVE  PresenceTypeOK'
  <1>1. CASE StartIteration(t)
    BY <1>1 DEF StartIteration, EnterStage, PresenceTypeOK, Stages, loopVars, connectionVars
  <1>2. CASE EndCounting(t)
    BY <1>2 DEF EndCounting, EnterStage, PresenceTypeOK, Stages, loopVars, connectionVars
  <1>3. CASE Announce(t)
    <2>1. [kind |-> "push", event |-> t[1], user |-> user[t[2]]] \in PresenceJobs
      BY TaskFacts DEF PresenceJobs, PresenceTypeOK
    <2>2. ticks' \in Seq(PresenceJobs) /\ left' \in 0 .. Len(ticks')
      BY <1>3, <2>1, ScheduleFacts DEF Announce, PresenceTypeOK, loopVars
    <2>3. QED
      BY <1>3, <2>2 DEF Announce, EnterStage, PresenceTypeOK, Stages, connectionVars
  <1>4. QED
    BY <1>1, <1>2, <1>3 DEF Thread

(* The jobs keep the types.                                                *)
LEMMA PresenceTickType ==
    ASSUME PresenceTypeOK, PresenceTick
    PROVE  PresenceTypeOK'
  <1>1. ASSUME NEW c \in Connections, Subscribe(c)
        PROVE  PresenceTypeOK'
    <2>1. ticks' \in Seq(PresenceJobs) /\ left' \in 0 .. Len(ticks')
      BY <1>1, TakeFacts DEF Subscribe
    <2>2. \E p \in Phases : phase' = [phase EXCEPT ![c] = p]
      BY <1>1 DEF Subscribe, EnterPresencePhase, Phases
    <2>3. stage' = stage \/ stage' = [stage EXCEPT ![<<"open", c>>] = "deferred"]
      BY <1>1 DEF Subscribe, EnterStage
    <2>4. phase' \in [Connections -> Phases] /\ stage' \in [Tasks -> Stages]
      BY <2>2, <2>3, ZenonT(30) DEF PresenceTypeOK, Stages
    <2>5. \/ listeners' = listeners /\ ahead' = ahead
          \/ SubscribeToChannel(c)
      BY <1>1 DEF Subscribe
    <2>6. listeners' \subseteq Connections /\ ahead' \in [Connections -> SUBSET WebSockets]
      BY <2>5 DEF SubscribeToChannel, PresenceTypeOK
    <2>7. subscriptors' \subseteq listeners'
      BY <1>1 DEF Subscribe, SubscribeToChannel, PresenceTypeOK
    <2>8. QED
      BY <1>1, <2>1, <2>4, <2>6, <2>7 DEF Subscribe, PresenceTypeOK
  <1>2. ASSUME CleanupAfterUnsubscribe
        PROVE  PresenceTypeOK'
    BY <1>2, TakeFacts DEF CleanupAfterUnsubscribe, PresenceTypeOK, threadVars
  <1>3. ASSUME NEW e \in {"open", "close"}, NEW u \in Users,
               Head(ticks) = [kind |-> "push", event |-> e, user |-> u], Push(Head(ticks))
        PROVE  PresenceTypeOK'
    <2>1. ticks' \in Seq(PresenceJobs) /\ left' \in 0 .. Len(ticks')
      BY <1>3, TakeFacts DEF Push
    <2>2. knows' \in [Connections -> [Users -> {"nothing", "there", "gone"}]]
      BY <1>3 DEF Push, PresenceTypeOK
    <2>3. stalled' \subseteq WebSockets
      BY <1>3 DEF Push, Raisers, PresenceTypeOK
    <2>4. QED
      BY <1>3, <2>1, <2>2, <2>3 DEF Push, PresenceTypeOK, threadVars
  <1>4. QED
    BY <1>1, <1>2, <1>3, PresenceTickCases

(* Every step keeps the types.                                             *)
LEMMA PresenceTypeStep ==
    ASSUME PresenceTypeOK, [PresenceNext]_presenceVars
    PROVE  PresenceTypeOK'
  <1>1. CASE UNCHANGED presenceVars
    BY <1>1 DEF presenceVars, loopVars, connectionVars, threadVars, PresenceTypeOK
  <1>2. CASE PresenceNext
    BY <1>2, ConnectionStepType, ThreadStepType, PresenceTickType DEF PresenceNext
  <1>3. QED
    BY <1>1, <1>2

(* The presence code keeps the type of every variable.                     *)
THEOREM PresenceTypeCorrect == PresenceSpec => []PresenceTypeOK
  <1>1. PresenceInit => PresenceTypeOK
    BY PresenceInitType
  <1>2. PresenceTypeOK /\ [PresenceNext]_presenceVars => PresenceTypeOK'
    BY PresenceTypeStep
  <1>3. QED
    BY <1>1, <1>2, PTL DEF PresenceSpec

(* Who entered the table has done so for ever, so a connection that is the *)
(* only one of its user was so before.                                     *)
LEMMA SoleKept ==
    ASSUME user' = user, \A c \in Connections : Entered(c) => Entered(c)'
    PROVE  \A c \in Connections : Sole(c)' => Sole(c)
  BY DEF Sole, Entered

-----------------------------------------------------------------------------
(* The invariant, one lemma for each action.                               *)

LEMMA PresenceInitInv == PresenceInit => PresenceInv
  <1>1. ASSUME PresenceInit PROVE PresenceInv
    <2>1. PresenceTypeOK
      BY <1>1, PresenceInitType
    <2>2. ticks = <<>> /\ subscriptors = {} /\ \A t \in Tasks : stage[t] = "none"
      BY <1>1 DEF PresenceInit, LoopInit
    <2>3. PhasesOK
      BY <1>1, <2>2, TaskFacts DEF PhasesOK, Entered, PresenceInit
    <2>4. QueueOK
      BY <2>2 DEF QueueOK
    <2>5. ThreadsOK
      BY <1>1, <2>2, TaskFacts DEF ThreadsOK, PresenceInit
    <2>6. OrderOK
      BY <1>1, FS_EmptySet DEF OrderOK, PresenceInit
    <2>7. CountOK
      BY <2>2 DEF CountOK
    <2>8. QED
      BY <2>1, <2>3, <2>4, <2>5, <2>6, <2>7 DEF PresenceInv
  <1>2. QED
    BY <1>1

(* What c knows, has queued or is about to be told stays so.               *)
LEMMA ToldKept ==
    ASSUME NEW c \in Connections, NEW d \in Connections, user' = user, Told(c, d),
           knows' = knows, stage' = stage, current' = current,
           \A i \in DOMAIN ticks :
               ticks[i].kind = "push" =>
                   \E j \in DOMAIN ticks' : ticks'[j] = ticks[i]
    PROVE  Told(c, d)'
  BY DEF Told, Pending, OpenPush

(* Whoever is told stays told: then nobody is owed more than before.       *)
LEMMA OwedKept ==
    ASSUME user' = user, invisible' = invisible, subscriptors \subseteq Connections,
           \A d \in Connections : Sole(d)' => Sole(d),
           subscriptors' \subseteq subscriptors,
           subscriptors' \ closing' \subseteq subscriptors \ closing,
           \A a \in subscriptors', d \in subscriptors' :
              a \notin closing' /\ user[a] # user[d] /\ Sole(d) /\ d \notin invisible /\ Told(a, d)
                 => Told(a, d)'
    PROVE  ToldStays
  BY DEF ToldStays, Owed

(* A login finds no older prepare_connection of its connection.            *)
LEMMA LoginInv ==
    ASSUME PresenceInv, NEW c \in Connections, Login(c)
    PROVE  PhasesOK' /\ QueueOK' /\ ThreadsOK' /\ ToldStays
  <1> DEFINE job == [kind |-> "prepare", connection |-> c]
  <1>1. PresenceTypeOK /\ PhasesOK /\ QueueOK /\ ThreadsOK
    BY DEF PresenceInv
  <1>2. /\ phase[c] = "idle" /\ phase' = [phase EXCEPT ![c] = "accepted"]
        /\ user' = user /\ invisible' = invisible /\ subscriptors' = subscriptors
        /\ stage' = stage /\ seen' = seen /\ logged' = logged /\ current' = current
        /\ knows' = knows /\ closing' = closing
    BY DEF Login, EnterPresencePhase, threadVars
  <1>3. job \in PresenceJobs /\ Schedule(job)
    BY DEF Login, PresenceJobs
  <1>4. \A d \in Connections : (Entered(d) => Entered(d)') /\ (Sole(d)' => Sole(d))
    <2>1. \A d \in Connections : Entered(d) => Entered(d)'
      BY <1>1, <1>2 DEF Entered, PresenceTypeOK
    <2>2. QED
      BY <1>2, <2>1, SoleKept
  <1>5. PhasesOK'
    BY <1>1, <1>2 DEF PhasesOK, Entered, PresenceTypeOK
  <1>6. ASSUME NEW i \in DOMAIN ticks', ticks'[i].kind = "prepare"
        PROVE  /\ phase'[ticks'[i].connection] = "accepted"
               /\ \A j \in DOMAIN ticks' : ticks'[j] = ticks'[i] => j = i
    <2>1. CASE i \in DOMAIN ticks /\ ticks'[i] = ticks[i]
      <3>1. phase[ticks[i].connection] = "accepted" /\ ticks[i] \in PresenceJobs
        BY <1>1, <1>6, <2>1 DEF QueueOK, PresenceTypeOK
      <3>2. ticks[i].connection \in Connections /\ ticks[i].connection # c
        BY <1>2, <1>6, <2>1, <3>1 DEF PresenceJobs
      <3>3. ticks[i] # job
        BY <3>2
      <3>4. phase'[ticks'[i].connection] = "accepted"
        BY <1>1, <1>2, <2>1, <3>1, <3>2 DEF PresenceTypeOK
      <3>5. \A j \in DOMAIN ticks : ticks[j] = ticks[i] => j = i
        BY <1>1, <1>6, <2>1 DEF QueueOK
      <3>6. ASSUME NEW j \in DOMAIN ticks', ticks'[j] = ticks'[i] PROVE j = i
        <4>1. \/ j \in DOMAIN ticks /\ ticks'[j] = ticks[j]
              \/ ticks'[j] = job
          BY <1>1, <1>3, <3>6, ScheduleFacts DEF PresenceTypeOK
        <4>2. QED
          BY <2>1, <3>3, <3>5, <3>6, <4>1
      <3>7. QED
        BY <3>4, <3>6
    <2>2. CASE i = Len(ticks) + 1 /\ ticks'[i] = job
      <3>1. \A j \in DOMAIN ticks : ticks[j] # job
        BY <1>1, <1>2 DEF QueueOK
      <3>2. QED
        BY <1>1, <1>2, <1>3, <2>2, <3>1, ScheduleFacts DEF PresenceTypeOK
    <2>3. QED
      BY <1>1, <1>3, <2>1, <2>2, ScheduleFacts
  <1>7. ASSUME NEW i \in DOMAIN ticks', ticks'[i].kind = "push", ticks'[i].event = "close",
               NEW d \in Connections, Sole(d), user[d] = ticks'[i].user
        PROVE  phase'[d] = "departed"
    <2>1. i \in DOMAIN ticks /\ ticks'[i] = ticks[i]
      BY <1>1, <1>3, <1>7, ScheduleFacts
    <2>2. phase[d] = "departed"
      BY <1>1, <1>7, <2>1 DEF QueueOK
    <2>3. QED
      BY <1>1, <1>2, <2>2 DEF PresenceTypeOK
  <1>8. QueueOK'
    BY <1>2, <1>6, <1>7, <1>4 DEF QueueOK
  <1>9. ThreadsOK'
    BY <1>1, <1>2, <1>4 DEF ThreadsOK, PresenceTypeOK
  <1>10. ToldStays
    <2>1. ASSUME NEW a \in Connections, NEW d \in Connections, Told(a, d) PROVE Told(a, d)'
      BY <1>1, <1>2, <1>3, <2>1, ToldKept, ScheduleFacts
    <2>2. QED
      BY <1>1, <1>2, <1>4, <2>1, OwedKept DEF PresenceTypeOK
  <1>11. QED
    BY <1>5, <1>8, <1>9, <1>10

(* Taking the head keeps what the invariant says of the other jobs.        *)
LEMMA TakeQueue ==
    ASSUME PresenceTypeOK, QueueOK, NEW raised \in BOOLEAN, TakeTick(raised), user' = user,
           \A c \in Connections : Sole(c)' => Sole(c),
           \A c \in Connections :
              \/ phase'[c] = phase[c]
              \/ phase[c] = "accepted" /\ Head(ticks) = [kind |-> "prepare", connection |-> c]
    PROVE  QueueOK'
  <1>1. ASSUME NEW i \in DOMAIN ticks', ticks'[i].kind = "prepare"
        PROVE  /\ phase'[ticks'[i].connection] = "accepted"
               /\ \A j \in DOMAIN ticks' : ticks'[j] = ticks'[i] => j = i
    <2>1. i \in Nat /\ i + 1 \in DOMAIN ticks /\ i + 1 # 1 /\ ticks'[i] = ticks[i + 1]
      BY TakeFacts
    <2>2. ticks[i + 1] \in PresenceJobs /\ 1 \in DOMAIN ticks /\ Head(ticks) = ticks[1]
      BY <2>1, TakeFacts DEF PresenceTypeOK
    <2>3. /\ phase[ticks[i + 1].connection] = "accepted"
          /\ \A j \in DOMAIN ticks : ticks[j] = ticks[i + 1] => j = i + 1
      BY <1>1, <2>1 DEF QueueOK
    <2>4. PICK c \in Connections : ticks[i + 1] = [kind |-> "prepare", connection |-> c]
      BY <1>1, <2>1, <2>2 DEF PresenceJobs
    <2>5. Head(ticks) # ticks[i + 1]
      BY <2>1, <2>2, <2>3
    <2>6. phase'[c] = "accepted"
      BY <2>3, <2>4, <2>5
    <2>7. \A j \in DOMAIN ticks' : ticks'[j] = ticks'[i] => j = i
      BY <2>1, <2>3, TakeFacts
    <2>8. QED
      BY <2>1, <2>4, <2>6, <2>7
  <1>2. ASSUME NEW i \in DOMAIN ticks', ticks'[i].kind = "push", ticks'[i].event = "close",
               NEW d \in Connections, Sole(d), user[d] = ticks'[i].user
        PROVE  phase'[d] = "departed"
    <2>1. i + 1 \in DOMAIN ticks /\ ticks'[i] = ticks[i + 1]
      BY TakeFacts
    <2>2. phase[d] = "departed"
      BY <1>2, <2>1 DEF QueueOK
    <2>3. QED
      BY <2>2
  <1>3. QED
    BY <1>1, <1>2 DEF QueueOK

(* A subscription: nobody iterates, and the open events are on their way.  *)
LEMMA SubscribeInv ==
    ASSUME PresenceInv, NEW c \in Connections,
           Head(ticks) = [kind |-> "prepare", connection |-> c], Subscribe(c)
    PROVE  PhasesOK' /\ QueueOK' /\ ThreadsOK' /\ ToldStays
  <1>1. PresenceTypeOK /\ PhasesOK /\ QueueOK /\ ThreadsOK
    BY DEF PresenceInv
  <1>2. PICK raised \in BOOLEAN : TakeTick(raised)
    BY DEF Subscribe
  <1>3. phase[c] = "accepted"
    BY <1>1, <1>2, TakeFacts DEF QueueOK
  <1>4. /\ user' = user /\ invisible' = invisible /\ seen' = seen /\ logged' = logged
        /\ current' = current /\ knows' = knows /\ closing' = closing
    BY DEF Subscribe
  <1>5. stage[<<"open", c>>] = "none" /\ stage[<<"close", c>>] = "none" /\ c \notin subscriptors
    BY <1>1, <1>3 DEF PhasesOK, Entered
  <1>6. \A i \in DOMAIN ticks :
            ticks[i].kind = "push" => \E j \in DOMAIN ticks' : ticks'[j] = ticks[i]
    BY <1>1, <1>2, TakeFacts
  <1>7. \A d \in Connections : phase'[d] = phase[d] \/ d = c
    BY <1>1 DEF Subscribe, EnterPresencePhase, PresenceTypeOK
  <1>8. \A d \in Connections : (Entered(d) => Entered(d)') /\ (Sole(d)' => Sole(d))
    <2>1. \A d \in Connections : Entered(d) => Entered(d)'
      BY <1>3, <1>7 DEF Entered
    <2>2. QED
      BY <1>4, <2>1, SoleKept
  <1>9. QueueOK'
    BY <1>1, <1>2, <1>3, <1>4, <1>7, <1>8, TakeQueue
  <1>10. CASE subscriptors' = subscriptors /\ stage' = stage
             /\ \E p \in {"elsewhere", "unlisted"} : phase' = [phase EXCEPT ![c] = p]
    <2>1. PhasesOK'
      BY <1>1, <1>3, <1>5, <1>10 DEF PhasesOK, Entered, PresenceTypeOK
    <2>2. ThreadsOK'
      BY <1>1, <1>4, <1>10, <1>8 DEF ThreadsOK, PresenceTypeOK
    <2>3. ToldStays
      <3>1. ASSUME NEW a \in Connections, NEW d \in Connections, Told(a, d) PROVE Told(a, d)'
        BY <1>4, <1>6, <1>10, <3>1, ToldKept
      <3>2. QED
        BY <1>1, <1>4, <1>10, <1>8, <3>1, OwedKept DEF PresenceTypeOK
    <2>4. QED
      BY <1>9, <2>1, <2>2, <2>3
  <1>11. CASE /\ ~ Iterating
             /\ subscriptors' = subscriptors \union {c}
             /\ phase' = [phase EXCEPT ![c] = "subscribed"]
             /\ stage' = [stage EXCEPT ![<<"open", c>>] = "deferred"]
    <2>1. /\ stage'[<<"open", c>>] = "deferred"
          /\ \A t \in Tasks : t # <<"open", c>> => stage'[t] = stage[t]
      BY <1>1, <1>11, TaskFacts DEF PresenceTypeOK
    <2>2. PhasesOK'
      BY <1>1, <1>3, <1>5, <1>11, <2>1, TaskFacts DEF PhasesOK, Entered, PresenceTypeOK
    <2>3. ThreadsOK'
      BY <1>1, <1>4, <1>11, <1>8, <2>1, TaskFacts DEF ThreadsOK, Iterating, PresenceTypeOK
    <2>4. ASSUME NEW a \in subscriptors', NEW d \in subscriptors',
                 a \in subscriptors /\ d \in subscriptors => Told(a, d)
          PROVE  Told(a, d)'
      <3>1. CASE a = c \/ d = c
        BY <2>1, <3>1 DEF Told
      <3>2. CASE a # c /\ d # c
        <4>1. a \in Connections /\ d \in Connections /\ Told(a, d)
          BY <1>1, <1>11, <2>4, <3>2 DEF PresenceTypeOK
        <4>2. stage'[<<"open", a>>] = stage[<<"open", a>>]
              /\ stage'[<<"open", d>>] = stage[<<"open", d>>]
          BY <2>1, <3>2, <4>1, TaskFacts
        <4>3. QED
          BY <1>4, <1>6, <4>1, <4>2 DEF Told, Pending, OpenPush
      <3>3. QED
        BY <3>1, <3>2
    <2>5. ToldStays
      <3>1. ASSUME NEW a \in subscriptors' \ closing', NEW d \in subscriptors', Owed(a, d)'
            PROVE  a \in subscriptors \ closing /\ d \in subscriptors /\ Owed(a, d)
        <4>1. ~ Told(a, d)' /\ user[a] # user[d] /\ Sole(d) /\ d \notin invisible
          BY <1>1, <1>4, <1>8, <1>11, <3>1 DEF Owed, PresenceTypeOK
        <4>2. a \in subscriptors /\ d \in subscriptors /\ ~ Told(a, d)
          BY <2>4, <4>1
        <4>3. QED
          BY <1>4, <3>1, <4>1, <4>2 DEF Owed
      <3>2. QED
        BY <3>1 DEF ToldStays
    <2>6. QED
      BY <1>9, <2>2, <2>3, <2>5
  <1>12. QED
    BY <1>10, <1>11 DEF Subscribe, EnterPresencePhase, EnterStage

LEMMA CleanupInv ==
    ASSUME PresenceInv, Head(ticks) = [kind |-> "cleanup"], CleanupAfterUnsubscribe
    PROVE  PhasesOK' /\ QueueOK' /\ ThreadsOK' /\ ToldStays
  <1>1. PresenceTypeOK /\ PhasesOK /\ QueueOK /\ ThreadsOK
    BY DEF PresenceInv
  <1>0. PICK raised \in BOOLEAN : TakeTick(raised)
    BY DEF CleanupAfterUnsubscribe
  <1>2. /\ TakeTick(raised)
        /\ user' = user /\ invisible' = invisible /\ phase' = phase
        /\ subscriptors' = subscriptors /\ stage' = stage /\ seen' = seen
        /\ logged' = logged /\ current' = current /\ knows' = knows /\ closing' = closing
    BY <1>0 DEF CleanupAfterUnsubscribe, threadVars
  <1>3. QueueOK'
    BY <1>1, <1>2, SoleKept, TakeQueue DEF Entered
  <1>4. PhasesOK' /\ ThreadsOK'
    BY <1>1, <1>2 DEF PhasesOK, ThreadsOK, Entered, Sole
  <1>5. \A i \in DOMAIN ticks :
            ticks[i].kind = "push" => \E j \in DOMAIN ticks' : ticks'[j] = ticks[i]
    <2>1. ticks[1] = [kind |-> "cleanup"]
      BY <1>1, <1>2, TakeFacts
    <2>2. ticks[1].kind # "push"
      BY <2>1
    <2>3. QED
      BY <1>1, <1>2, <2>2, TakeFacts
  <1>6. ToldStays
    <2>1. ASSUME NEW a \in Connections, NEW d \in Connections, Told(a, d) PROVE Told(a, d)'
      BY <1>2, <1>5, <2>1, ToldKept
    <2>2. QED
      BY <1>1, <1>2, <2>1, OwedKept DEF Sole, PresenceTypeOK
  <1>7. QED
    BY <1>3, <1>4, <1>6

(* Ahead of a listener that a push does not reach, one processor raises.   *)
LEMMA FirstRaiser ==
    ASSUME PresenceTypeOK, OrderOK, NEW c \in listeners, ~ Reached(c)
    PROVE  \E r \in Raisers \intersect ahead[c] : Reached(r)
  <1> DEFINE Before(r) == Raisers \intersect ahead[r]
             counts == {Cardinality(Before(r)) : r \in Before(c)}
  <1>1. /\ Before(c) # {}
        /\ \A r \in Before(c) : r \in listeners /\ r \in ahead[c] /\ r \in Raisers
    BY DEF Reached, Raisers
  <1>2. \A r \in listeners : Before(r) \in SUBSET listeners
    BY DEF Raisers
  <1>3. \A r \in listeners : IsFiniteSet(Before(r)) /\ Cardinality(Before(r)) \in Nat
    <2>1. IsFiniteSet(listeners)
      BY DEF OrderOK
    <2> HIDE DEF Before
    <2>2. QED
      BY <1>2, <2>1, FS_Subset, FS_CardinalityType
  <1>4. counts \subseteq Nat /\ counts # {}
    <2> HIDE DEF Before
    <2>1. QED
      BY <1>1, <1>3
  <1>5. PICK n \in counts : \A m \in counts : n <= m
    <2> HIDE DEF counts
    <2>1. QED
      BY <1>4, LeastNatural
  <1>6. PICK r \in Before(c) : n = Cardinality(Before(r))
    BY <1>5
  <1>7. ASSUME NEW q \in Before(r) PROVE FALSE
    <2>1. q \in listeners /\ q \in ahead[r] /\ q \in Raisers
      BY <1>7 DEF Raisers
    <2>2. q \in Before(c) /\ q \notin Before(q)
      BY <1>1, <1>6, <2>1 DEF OrderOK
    <2>3. Before(q) \subseteq Before(r)
      BY <1>1, <1>6, <2>1 DEF OrderOK, Raisers
    <2>4. n <= Cardinality(Before(q))
      BY <1>5, <2>2
    <2>5. /\ IsFiniteSet(Before(r)) /\ Cardinality(Before(r)) \in Nat
          /\ Cardinality(Before(q)) \in Nat
      BY <1>1, <1>3, <1>6, <2>1
    <2> HIDE DEF Before
    <2>6. /\ Cardinality(Before(q)) <= Cardinality(Before(r))
          /\ Cardinality(Before(r)) = Cardinality(Before(q)) => Before(r) = Before(q)
      BY <2>3, <2>5, FS_Subset
    <2>7. Before(r) = Before(q)
      BY <1>6, <2>4, <2>5, <2>6
    <2>8. QED
      BY <1>7, <2>2, <2>7
  <1>8. QED
    BY <1>1, <1>6, <1>7 DEF Reached

(* A push: an open event is told to whoever it reaches, a close event is   *)
(* of nobody who is there, and whoever is not reached is owed one event    *)
(* more, with one more processor ahead that has raised.                    *)
LEMMA PushInv ==
    ASSUME PresenceInv, NEW e \in {"open", "close"}, NEW u \in Users,
           Head(ticks) = [kind |-> "push", event |-> e, user |-> u], Push(Head(ticks))
    PROVE  PhasesOK' /\ QueueOK' /\ ThreadsOK' /\ CountOK'
  <1>1. PresenceTypeOK /\ PhasesOK /\ QueueOK /\ ThreadsOK /\ OrderOK /\ CountOK
    BY DEF PresenceInv
  <1>0. PICK raised \in BOOLEAN : TakeTick(raised)
    BY DEF Push
  <1>2. /\ TakeTick(raised)
        /\ user' = user /\ invisible' = invisible /\ phase' = phase
        /\ subscriptors' = subscriptors /\ stage' = stage /\ seen' = seen
        /\ logged' = logged /\ current' = current
        /\ closing' = closing /\ ahead' = ahead
        /\ stalled' = stalled \union {r \in Raisers : Reached(r)}
    BY <1>0 DEF Push, threadVars
  <1>3. QueueOK'
    BY <1>1, <1>2, SoleKept, TakeQueue DEF Entered
  <1>4. PhasesOK' /\ ThreadsOK'
    BY <1>1, <1>2 DEF PhasesOK, ThreadsOK, Entered, Sole
  <1>5. \A c \in Connections, v \in Users :
            knows'[c][v] = IF v # u \/ ~ Reached(c) \/ c \in closing THEN knows[c][v]
                           ELSE IF e = "open" THEN "there" ELSE "gone"
    BY <1>1 DEF Push, PresenceTypeOK
  <1>6. ASSUME NEW c \in subscriptors \ closing, NEW d \in subscriptors,
               user[c] # user[d], Sole(d), d \notin invisible, Told(c, d),
               Reached(c) \/ user[d] # u
        PROVE  Told(c, d)'
    <2>1. c \in Connections /\ d \in Connections /\ user[d] \in Users
      BY <1>1, <1>6 DEF PresenceTypeOK
    <2>2. CASE knows[c][user[d]] = "there"
      <3>1. e = "close" /\ user[d] = u => phase[d] = "departed"
        <4>1. 1 \in DOMAIN ticks /\ ticks[1] = [kind |-> "push", event |-> e, user |-> u]
          BY <1>1, <1>2, TakeFacts
        <4>2. ticks[1].kind = "push" /\ ticks[1].event = e /\ ticks[1].user = u
          BY <4>1
        <4>3. QED
          BY <1>1, <1>6, <2>1, <4>1, <4>2 DEF QueueOK
      <3>2. phase[d] = "subscribed"
        BY <1>1, <1>6 DEF PhasesOK, Entered
      <3>3. knows'[c][user[d]] = "there"
        BY <1>5, <1>6, <2>1, <2>2, <3>1, <3>2
      <3>4. QED
        BY <1>2, <3>3 DEF Told
    <2>3. CASE Pending(OpenPush(user[d]))
      <3>1. PICK i \in DOMAIN ticks : ticks[i] = OpenPush(user[d])
        BY <2>3 DEF Pending
      <3>2. CASE i = 1
        <4>1. e = "open" /\ u = user[d]
          BY <1>1, <1>2, <3>1, <3>2, TakeFacts DEF OpenPush
        <4>2. knows'[c][user[d]] = "there"
          BY <1>5, <1>6, <2>1, <4>1
        <4>3. QED
          BY <1>2, <4>2 DEF Told
      <3>3. CASE i # 1
        <4>1. \E j \in DOMAIN ticks' : ticks'[j] = OpenPush(user[d])
          BY <1>1, <1>2, <3>1, <3>3, TakeFacts
        <4>2. QED
          BY <1>2, <4>1 DEF Told, Pending, OpenPush
      <3>4. QED
        BY <3>2, <3>3
    <2>4. CASE \/ stage[<<"open", d>>] \in {"deferred", "counting", "counted"}
               \/ stage[<<"open", c>>] \in {"deferred", "counting", "counted", "announced", "listing"}
               \/ stage[<<"open", c>>] = "listed" /\ user[d] \in current[c]
      BY <1>2, <2>4 DEF Told
    <2>5. QED
      BY <1>6, <2>2, <2>3, <2>4 DEF Told
  <1>7. ASSUME NEW c \in subscriptors \ closing
        PROVE  Cardinality(Untold(c)') <= Cardinality((ahead[c] \intersect stalled)')
    <2>1. \A d \in Untold(c)' :
             d \in Untold(c) \/ (~ Reached(c) /\ d \in subscriptors /\ user[d] = u /\ Sole(d))
      <3>1. ASSUME NEW d \in subscriptors, Owed(c, d)', d \notin Untold(c)
            PROVE  ~ Reached(c) /\ user[d] = u /\ Sole(d)
        <4>1. ~ Told(c, d)' /\ user[c] # user[d] /\ Sole(d) /\ d \notin invisible
          BY <1>2, <3>1 DEF Owed, Sole
        <4>2. Told(c, d)
          BY <3>1, <4>1 DEF Untold, Owed
        <4>3. QED
          BY <1>6, <4>1, <4>2
      <3>2. QED
        BY <1>2, <3>1 DEF Untold
    <2>2. /\ IsFiniteSet(Untold(c)) /\ IsFiniteSet(Untold(c)')
          /\ IsFiniteSet(ahead[c] \intersect stalled) /\ IsFiniteSet((ahead[c] \intersect stalled)')
      <3>1. /\ Untold(c) \in SUBSET listeners /\ Untold(c)' \in SUBSET listeners
            /\ (stalled' \ stalled) \in SUBSET listeners
        BY <1>1, <1>2 DEF Untold, Raisers, PresenceTypeOK
      <3>2. IsFiniteSet(listeners) /\ IsFiniteSet(stalled)
        BY <1>1 DEF OrderOK
      <3>3. IsFiniteSet(Untold(c)) /\ IsFiniteSet(Untold(c)') /\ IsFiniteSet(stalled' \ stalled)
        BY <3>1, <3>2, FS_Subset
      <3>4. IsFiniteSet(stalled \union (stalled' \ stalled))
        BY <3>2, <3>3, FS_Union
      <3>5. stalled' = stalled \union (stalled' \ stalled)
        BY <1>2
      <3>6. IsFiniteSet(stalled')
        BY <3>4, <3>5
      <3>7. QED
        BY <3>2, <3>3, <3>6, FS_Intersection
    <2>3. /\ Cardinality(Untold(c)) \in Nat /\ Cardinality(Untold(c)') \in Nat
          /\ Cardinality(ahead[c] \intersect stalled) \in Nat
          /\ Cardinality((ahead[c] \intersect stalled)') \in Nat
      BY <2>2, FS_CardinalityType
    <2>4. Cardinality(Untold(c)) <= Cardinality(ahead[c] \intersect stalled)
      BY <1>1 DEF CountOK
    <2>5. ahead[c] \intersect stalled \subseteq (ahead[c] \intersect stalled)'
      BY <1>2
    <2>6. CASE Reached(c)
      <3>1. Untold(c)' \in SUBSET Untold(c)
        BY <2>1, <2>6
      <3>2. Cardinality(Untold(c)') <= Cardinality(Untold(c))
        BY <2>2, <3>1, FS_Subset
      <3>3. Cardinality(ahead[c] \intersect stalled) <= Cardinality((ahead[c] \intersect stalled)')
        BY <2>2, <2>5, FS_Subset
      <3>4. QED
        BY <2>3, <2>4, <3>2, <3>3
    <2>7. CASE ~ Reached(c)
      <3>1. PICK r \in Raisers \intersect ahead[c] : Reached(r)
        BY <1>1, <2>7, FirstRaiser DEF PresenceTypeOK
      <3>2. r \in (ahead[c] \intersect stalled)' /\ r \notin ahead[c] \intersect stalled
        BY <1>2, <3>1 DEF Raisers
      <3>3. Cardinality(ahead[c] \intersect stalled) + 1 <= Cardinality((ahead[c] \intersect stalled)')
        BY <2>2, <2>5, <3>2, OneMore
      <3>4. Cardinality(Untold(c)') <= Cardinality(Untold(c)) + 1
        <4>1. \E x : Untold(c)' \subseteq Untold(c) \union {x}
          <5>1. CASE Untold(c)' \subseteq Untold(c)
            BY <5>1
          <5>2. CASE \E d \in Untold(c)' : d \notin Untold(c)
            <6>1. PICK d \in Untold(c)' : d \notin Untold(c)
              BY <5>2
            <6>2. d \in subscriptors /\ user[d] = u /\ Sole(d)
              BY <2>1, <6>1
            <6>3. ASSUME NEW k \in Untold(c)', k \notin Untold(c) PROVE k = d
              <7>1. k \in subscriptors /\ user[k] = u
                BY <2>1, <6>3
              <7>2. k \in Connections /\ phase[k] = "subscribed"
                BY <1>1, <7>1 DEF PhasesOK
              <7>3. QED
                BY <6>2, <7>1, <7>2 DEF Sole
            <6>4. Untold(c)' \subseteq Untold(c) \union {d}
              BY <6>3
            <6>5. QED
              BY <6>4
          <5>3. QED
            BY <5>1, <5>2
        <4>2. QED
          BY <2>2, <4>1, AtMostOneMore
      <3>5. QED
        BY <2>3, <2>4, <3>3, <3>4
    <2>8. QED
      BY <2>6, <2>7
  <1>8. CountOK'
    BY <1>2, <1>7 DEF CountOK
  <1>9. QED
    BY <1>3, <1>4, <1>8

(* A new job that is no prepare_connection, and no close event of anybody  *)
(* who is still there, keeps what the invariant says of the queue.         *)
LEMMA ScheduleQueue ==
    ASSUME PresenceTypeOK, QueueOK, NEW job \in PresenceJobs, Schedule(job), user' = user,
           \A c \in Connections : Sole(c)' => Sole(c),
           job.kind # "prepare",
           \A c \in Connections : phase[c] \in {"accepted", "departed"} => phase'[c] = phase[c],
           job.kind = "push" /\ job.event = "close" =>
               \A d \in Connections : Sole(d) /\ user[d] = job.user => phase[d] = "departed"
    PROVE  QueueOK'
  <1>1. ASSUME NEW i \in DOMAIN ticks', ticks'[i].kind = "prepare"
        PROVE  /\ phase'[ticks'[i].connection] = "accepted"
               /\ \A j \in DOMAIN ticks' : ticks'[j] = ticks'[i] => j = i
    <2>1. i \in DOMAIN ticks /\ ticks'[i] = ticks[i] /\ ticks[i] \in PresenceJobs
      BY <1>1, ScheduleFacts DEF PresenceTypeOK
    <2>2. /\ phase[ticks[i].connection] = "accepted"
          /\ \A j \in DOMAIN ticks : ticks[j] = ticks[i] => j = i
      BY <1>1, <2>1 DEF QueueOK
    <2>3. ticks[i].connection \in Connections /\ ticks[i] # job
      BY <1>1, <2>1 DEF PresenceJobs
    <2>4. QED
      BY <2>1, <2>2, <2>3, ScheduleFacts
  <1>2. ASSUME NEW i \in DOMAIN ticks', ticks'[i].kind = "push", ticks'[i].event = "close",
               NEW d \in Connections, Sole(d), user[d] = ticks'[i].user
        PROVE  phase'[d] = "departed"
    <2>1. phase[d] = "departed"
      BY <1>2, ScheduleFacts DEF QueueOK
    <2>2. QED
      BY <2>1
  <1>3. QED
    BY <1>1, <1>2 DEF QueueOK

(* A departure: fewer are to be told, and fewer of.                        *)
LEMMA UnsubscribeInv ==
    ASSUME PresenceInv, NEW c \in Connections, Unsubscribe(c)
    PROVE  PhasesOK' /\ QueueOK' /\ ThreadsOK' /\ ToldStays
  <1> DEFINE job == [kind |-> "cleanup"]
  <1>1. PresenceTypeOK /\ PhasesOK /\ QueueOK /\ ThreadsOK
    BY DEF PresenceInv
  <1>2. /\ phase[c] = "subscribed" /\ phase' = [phase EXCEPT ![c] = "departed"]
        /\ subscriptors' = subscriptors \ {c}
        /\ stage' = [stage EXCEPT ![<<"close", c>>] = "deferred"]
        /\ user' = user /\ invisible' = invisible /\ seen' = seen /\ logged' = logged
        /\ current' = current /\ knows' = knows /\ closing' = closing \ {c}
    BY DEF Unsubscribe, EnterPresencePhase, EnterStage
  <1>3. job \in PresenceJobs /\ Schedule(job)
    BY DEF Unsubscribe, PresenceJobs
  <1>4. /\ stage'[<<"close", c>>] = "deferred"
        /\ \A t \in Tasks : t # <<"close", c>> => stage'[t] = stage[t]
        /\ \A d \in Connections : stage'[<<"open", d>>] = stage[<<"open", d>>]
    BY <1>1, <1>2, TaskFacts DEF PresenceTypeOK
  <1>5. \A d \in Connections : (Entered(d) => Entered(d)') /\ (Sole(d)' => Sole(d))
    <2>1. \A d \in Connections : Entered(d) => Entered(d)'
      BY <1>1, <1>2 DEF Entered, PresenceTypeOK
    <2>2. QED
      BY <1>2, <2>1, SoleKept
  <1>6. PhasesOK'
    BY <1>1, <1>2, <1>4, TaskFacts DEF PhasesOK, Entered, PresenceTypeOK
  <1>7. QueueOK'
    <2>1. \A d \in Connections : phase[d] \in {"accepted", "departed"} => phase'[d] = phase[d]
      BY <1>1, <1>2 DEF PresenceTypeOK
    <2>2. QED
      BY <1>1, <1>2, <1>3, <1>5, <2>1, ScheduleQueue
  <1>8. ThreadsOK'
    BY <1>1, <1>2, <1>4, <1>5, TaskFacts DEF ThreadsOK, PresenceTypeOK
  <1>9. ToldStays
    <2>1. ASSUME NEW a \in Connections, NEW d \in Connections, Told(a, d)
          PROVE  Told(a, d)'
      BY <1>1, <1>2, <1>3, <1>4, <2>1, ScheduleFacts DEF Told, Pending, OpenPush
    <2>2. QED
      BY <1>1, <1>2, <1>5, <2>1, OwedKept DEF PresenceTypeOK
  <1>10. QED
    BY <1>6, <1>7, <1>8, <1>9

(* The threads' reads of the table.                                        *)
LEMMA StartIterationInv ==
    ASSUME PresenceInv, NEW t \in Tasks, StartIteration(t)
    PROVE  PhasesOK' /\ QueueOK' /\ ThreadsOK' /\ ToldStays
  <1>1. PresenceTypeOK /\ PhasesOK /\ QueueOK /\ ThreadsOK
    BY DEF PresenceInv
  <1>2. /\ ticks' = ticks /\ user' = user /\ invisible' = invisible /\ phase' = phase
        /\ subscriptors' = subscriptors /\ logged' = logged /\ current' = current
        /\ knows' = knows /\ seen' = [seen EXCEPT ![t] = subscriptors] /\ closing' = closing
    BY DEF StartIteration, loopVars, connectionVars
  <1>3. \/ stage[t] = "deferred" /\ stage'[t] = "counting"
        \/ stage[t] = "announced" /\ stage'[t] = "listing"
    BY <1>1 DEF StartIteration, EnterStage, PresenceTypeOK
  <1>4. \A r \in Tasks : r # t => stage'[r] = stage[r]
    BY <1>1 DEF StartIteration, EnterStage, PresenceTypeOK
  <1>5. PhasesOK'
    BY <1>1, <1>2, <1>3, <1>4, TaskFacts DEF PhasesOK, Entered
  <1>6. QueueOK'
    BY <1>1, <1>2 DEF QueueOK, Sole
  <1>7. ThreadsOK'
    <2>1. \A r \in Tasks : seen'[r] = IF r = t THEN subscriptors ELSE seen[r]
      BY <1>1, <1>2 DEF PresenceTypeOK
    <2>2. QED
      <3>1. \A r \in Tasks : stage'[r] \in {"counting", "listing"} => subscriptors \subseteq seen'[r]
        BY <1>1, <1>4, <2>1 DEF ThreadsOK
      <3>2. \A k \in subscriptors : Entered(k)
        BY <1>1 DEF PhasesOK, Entered
      <3>3. \A r \in Tasks : \A k \in seen'[r] : Entered(k)'
        BY <1>1, <1>2, <2>1, <3>2 DEF ThreadsOK, Entered
      <3>4. ASSUME NEW d \in Connections, Sole(d), stage'[<<"open", d>>] = "counted"
            PROVE  ~ logged[<<"open", d>>]
        <4>1. stage[<<"open", d>>] = "counted"
          BY <1>3, <1>4, <3>4, TaskFacts
        <4>2. QED
          BY <1>1, <3>4, <4>1 DEF ThreadsOK
      <3>5. QED
        BY <1>2, <3>1, <3>3, <3>4 DEF ThreadsOK, Sole
  <1>8. ToldStays
    <2>1. ASSUME NEW a \in subscriptors, NEW d \in subscriptors, Told(a, d)
          PROVE  Told(a, d)'
      <3>1. <<"open", a>> \in Tasks /\ <<"open", d>> \in Tasks
        BY <1>1, TaskFacts DEF PresenceTypeOK
      <3>2. QED
        BY <1>2, <1>3, <1>4, <2>1, <3>1 DEF Told, Pending, OpenPush
    <2>2. QED
      BY <1>1, <1>2, <2>1, OwedKept DEF Sole, PresenceTypeOK
  <1>9. QED
    BY <1>5, <1>6, <1>7, <1>8

(* The open events of a user with one connection find one entry at most.   *)
LEMMA EndCountingInv ==
    ASSUME PresenceInv, NEW t \in Tasks, EndCounting(t)
    PROVE  PhasesOK' /\ QueueOK' /\ ThreadsOK' /\ ToldStays
  <1>1. PresenceTypeOK /\ PhasesOK /\ QueueOK /\ ThreadsOK
    BY DEF PresenceInv
  <1>2. /\ ticks' = ticks /\ user' = user /\ invisible' = invisible /\ phase' = phase
        /\ subscriptors' = subscriptors /\ current' = current /\ knows' = knows
        /\ seen' = [seen EXCEPT ![t] = {}] /\ closing' = closing
    BY DEF EndCounting, loopVars, connectionVars
  <1>3. /\ stage[t] = "counting" /\ stage'[t] = "counted"
        /\ \A r \in Tasks : r # t => stage'[r] = stage[r]
    BY <1>1 DEF EndCounting, EnterStage, PresenceTypeOK
  <1>4. PICK s \in Found(t) :
           logged' = [logged EXCEPT ![t] =
              Cardinality({d \in s : user[d] = user[t[2]]}) > IF t[1] = "open" THEN 1 ELSE 0]
    BY DEF EndCounting
  <1>5. PhasesOK'
    BY <1>1, <1>2, <1>3, TaskFacts DEF PhasesOK, Entered
  <1>6. QueueOK'
    BY <1>1, <1>2 DEF QueueOK, Sole
  <1>7. ASSUME NEW d \in Connections, Sole(d), t = <<"open", d>>
        PROVE  ~ logged'[t]
    <2>1. {k \in s : user[k] = user[d]} \subseteq {d}
      <3>1. \A k \in s : k \in Connections /\ Entered(k)
        BY <1>1 DEF Found, ThreadsOK, PresenceTypeOK
      <3>2. QED
        BY <1>7, <3>1 DEF Sole, Entered
    <2>2. IsFiniteSet({d}) /\ Cardinality({d}) = 1
      BY FS_Singleton
    <2>3. Cardinality({k \in s : user[k] = user[d]}) <= 1
          /\ Cardinality({k \in s : user[k] = user[d]}) \in Nat
      BY <2>1, <2>2, FS_Subset, FS_CardinalityType
    <2>4. logged'[t] = (Cardinality({k \in s : user[k] = user[d]}) > 1)
      BY <1>1, <1>4, <1>7 DEF PresenceTypeOK
    <2>5. ~ (Cardinality({k \in s : user[k] = user[d]}) > 1)
      BY <2>3
    <2>6. QED
      BY <2>4, <2>5
  <1>8. ThreadsOK'
    <2>1. \A r \in Tasks : r # t => seen'[r] = seen[r] /\ logged'[r] = logged[r]
      BY <1>1, <1>2, <1>4 DEF PresenceTypeOK
    <2>2. \A r \in Tasks : stage'[r] \in {"counting", "listing"} => subscriptors' \subseteq seen'[r]
      BY <1>1, <1>2, <1>3, <2>1 DEF ThreadsOK
    <2>3. ASSUME NEW d \in Connections, Sole(d), stage'[<<"open", d>>] = "counted"
          PROVE  ~ logged'[<<"open", d>>]
      <3>1. CASE t = <<"open", d>>
        <4>1. ~ logged'[t]
          BY <1>7, <2>3, <3>1
        <4>2. QED
          BY <3>1, <4>1
      <3>2. CASE t # <<"open", d>>
        <4>1. /\ stage[<<"open", d>>] = "counted"
              /\ logged'[<<"open", d>>] = logged[<<"open", d>>]
          BY <1>3, <2>1, <2>3, <3>2, TaskFacts
        <4>2. QED
          BY <1>1, <2>3, <4>1 DEF ThreadsOK
      <3>3. QED
        BY <3>1, <3>2
    <2>4. \A r \in Tasks : \A k \in seen'[r] : Entered(k)'
      BY <1>1, <1>2, <2>1 DEF ThreadsOK, Entered, PresenceTypeOK
    <2>5. QED
      BY <1>2, <2>2, <2>3, <2>4 DEF ThreadsOK, Sole
  <1>9. ToldStays
    <2>1. ASSUME NEW a \in subscriptors, NEW d \in subscriptors, Told(a, d)
          PROVE  Told(a, d)'
      <3>1. <<"open", a>> \in Tasks /\ <<"open", d>> \in Tasks
        BY <1>1, TaskFacts DEF PresenceTypeOK
      <3>2. QED
        BY <1>2, <1>3, <2>1, <3>1 DEF Told, Pending, OpenPush
    <2>2. QED
      BY <1>1, <1>2, <2>1, OwedKept DEF Sole, PresenceTypeOK
  <1>10. QED
    BY <1>5, <1>6, <1>8, <1>9

(* The open event of a visible user with one connection is pushed; a close *)
(* event only goes out after the departure.                                *)
LEMMA AnnounceInv ==
    ASSUME PresenceInv, NEW t \in Tasks, Announce(t)
    PROVE  PhasesOK' /\ QueueOK' /\ ThreadsOK' /\ ToldStays
  <1> DEFINE job == [kind |-> "push", event |-> t[1], user |-> user[t[2]]]
  <1>1. PresenceTypeOK /\ PhasesOK /\ QueueOK /\ ThreadsOK
    BY DEF PresenceInv
  <1>2. /\ user' = user /\ invisible' = invisible /\ phase' = phase
        /\ subscriptors' = subscriptors /\ seen' = seen /\ current' = current
        /\ knows' = knows /\ closing' = closing
    BY DEF Announce, connectionVars
  <1>3. /\ stage[t] = "counted" /\ stage'[t] \in {"announced", "done"}
        /\ t[1] = "open" => stage'[t] = "announced"
        /\ \A r \in Tasks : r # t => stage'[r] = stage[r] /\ logged'[r] = logged[r]
    BY <1>1 DEF Announce, EnterStage, PresenceTypeOK
  <1>4. \/ (logged[t] \/ t[2] \in invisible) /\ ticks' = ticks
        \/ ~ logged[t] /\ t[2] \notin invisible /\ Schedule(job)
    BY DEF Announce, loopVars
  <1>5. job \in PresenceJobs
    BY <1>1, TaskFacts DEF PresenceJobs, PresenceTypeOK
  <1>6. PhasesOK'
    BY <1>1, <1>2, <1>3, TaskFacts DEF PhasesOK, Entered
  <1>7. QueueOK'
    <2>1. CASE ticks' = ticks
      BY <1>1, <1>2, <2>1 DEF QueueOK, Sole
    <2>2. CASE Schedule(job)
      <3>1. t[1] = "close" => phase[t[2]] = "departed"
        BY <1>1, <1>3, TaskFacts DEF PhasesOK, Entered
      <3>2. ASSUME t[1] = "close", NEW d \in Connections, Sole(d), user[d] = user[t[2]]
            PROVE  phase[d] = "departed"
        BY <3>1, <3>2, TaskFacts DEF Sole
      <3>3. QED
        BY <1>1, <1>2, <1>5, <2>2, <3>2, SoleKept, ScheduleQueue DEF Entered
    <2>3. QED
      BY <1>4, <2>1, <2>2
  <1>8. ThreadsOK'
    BY <1>1, <1>2, <1>3, TaskFacts DEF ThreadsOK, Entered, Sole
  <1>9. \A i \in DOMAIN ticks : i \in DOMAIN ticks' /\ ticks'[i] = ticks[i]
    BY <1>1, <1>4, <1>5, ScheduleFacts
  <1>10. ASSUME NEW a \in subscriptors, NEW d \in subscriptors,
                Sole(d), d \notin invisible, Told(a, d)
         PROVE  Told(a, d)'
    <2>1. a \in Connections /\ d \in Connections /\ Told(a, d)
      BY <1>1, <1>10 DEF PresenceTypeOK
    <2>2. CASE t = <<"open", d>>
      <3>1. t[1] = "open" /\ t[2] = d /\ ~ logged[t]
        BY <1>1, <1>3, <1>10, <2>1, <2>2 DEF ThreadsOK
      <3>2. Schedule(job) /\ job = OpenPush(user[d])
        BY <1>4, <1>10, <3>1 DEF OpenPush
      <3>3. Pending(OpenPush(user[d]))'
        BY <1>1, <1>2, <1>5, <3>2, ScheduleFacts DEF Pending, OpenPush
      <3>4. QED
        BY <3>3 DEF Told
    <2>3. CASE t # <<"open", d>>
      <3>1. stage'[<<"open", d>>] = stage[<<"open", d>>]
        BY <1>3, <2>1, <2>3, TaskFacts
      <3>2. \/ stage'[<<"open", a>>] = stage[<<"open", a>>]
            \/ stage[<<"open", a>>] = "counted" /\ stage'[<<"open", a>>] = "announced"
        BY <1>3, <2>1, TaskFacts
      <3>3. QED
        BY <1>2, <1>9, <2>1, <3>1, <3>2 DEF Told, Pending, OpenPush
    <2>4. QED
      BY <2>2, <2>3
  <1>11. ToldStays
    BY <1>1, <1>2, <1>10, OwedKept DEF Sole, PresenceTypeOK
  <1>12. QED
    BY <1>6, <1>7, <1>8, <1>11

(* A list made while d is in the table has d's user in it.                 *)
LEMMA EndListingInv ==
    ASSUME PresenceInv, NEW c \in Connections, EndListing(c)
    PROVE  PhasesOK' /\ QueueOK' /\ ThreadsOK' /\ ToldStays
  <1> DEFINE t == <<"open", c>>
  <1>1. PresenceTypeOK /\ PhasesOK /\ QueueOK /\ ThreadsOK
    BY DEF PresenceInv
  <1>2. /\ ticks' = ticks /\ user' = user /\ invisible' = invisible /\ phase' = phase
        /\ subscriptors' = subscriptors /\ knows' = knows /\ closing' = closing
        /\ seen' = [seen EXCEPT ![t] = {}] /\ logged' = [logged EXCEPT ![t] = FALSE]
    BY DEF EndListing, loopVars, connectionVars
  <1>3. PICK s \in Found(t) : \E one \in UniqueOf(s) :
           WillSend(c, UsersOf({k \in one : \/ user[k] # user[c] /\ k \notin invisible
                                            \/ logged[t]}))
    BY DEF EndListing
  <1>4. PICK one \in UniqueOf(s) :
           WillSend(c, UsersOf({k \in one : \/ user[k] # user[c] /\ k \notin invisible
                                            \/ logged[t]}))
    BY <1>3
  <1> DEFINE users == UsersOf({k \in one : \/ user[k] # user[c] /\ k \notin invisible
                                           \/ logged[t]})
  <1>5. /\ t \in Tasks /\ stage[t] = "listing"
        /\ stage'[t] = (IF users = {} THEN "done" ELSE "listed") /\ current'[c] = users
        /\ \A r \in Tasks : r # t => /\ stage'[r] = stage[r] /\ seen'[r] = seen[r]
                                     /\ logged'[r] = logged[r]
        /\ \A a \in Connections : a # c => current'[a] = current[a]
    <2>1. t \in Tasks /\ stage[t] = "listing"
      BY TaskFacts DEF EndListing
    <2>2. /\ current' = [current EXCEPT ![c] = users]
          /\ stage' = [stage EXCEPT ![t] = IF users = {} THEN "done" ELSE "listed"]
      BY <1>4 DEF WillSend, EnterStage
    <2> HIDE DEF users
    <2>3. \A a \in Connections : current'[a] = IF a = c THEN users ELSE current[a]
      BY <1>1, <2>2 DEF PresenceTypeOK
    <2>4. \A r \in Tasks :
             /\ stage'[r] = IF r = t THEN IF users = {} THEN "done" ELSE "listed" ELSE stage[r]
             /\ r # t => seen'[r] = seen[r]
      BY <1>1, <1>2, <2>1, <2>2 DEF PresenceTypeOK
    <2>5. \A r \in Tasks : r # t => logged'[r] = logged[r]
      BY <1>1, <1>2, <2>1 DEF PresenceTypeOK
    <2>6. QED
      BY <2>1, <2>3, <2>4, <2>5
  <1>6. PhasesOK'
    BY <1>1, <1>2, <1>5, TaskFacts, ZenonT(30) DEF PhasesOK, Entered
  <1>7. QueueOK'
    BY <1>1, <1>2 DEF QueueOK, Sole
  <1>8. ThreadsOK'
    <2>1. \A r \in Tasks : stage'[r] \in {"counting", "listing"} => subscriptors' \subseteq seen'[r]
      BY <1>1, <1>2, <1>5 DEF ThreadsOK
    <2>2. ASSUME NEW d \in Connections, Sole(d), stage'[<<"open", d>>] = "counted"
          PROVE  ~ logged'[<<"open", d>>]
      <3>1. stage'[t] # "counted"
        BY <1>5
      <3>2. <<"open", d>> # t /\ <<"open", d>> \in Tasks
        BY <2>2, <3>1, TaskFacts
      <3>3. /\ stage[<<"open", d>>] = "counted"
            /\ logged'[<<"open", d>>] = logged[<<"open", d>>]
        BY <1>5, <2>2, <3>2
      <3>4. QED
        BY <1>1, <2>2, <3>3 DEF ThreadsOK
    <2>3. \A r \in Tasks : \A k \in seen'[r] : Entered(k)'
      <3>1. seen'[t] = {}
        BY <1>1, <1>2, <1>5 DEF PresenceTypeOK
      <3>2. QED
        BY <1>1, <1>2, <1>5, <3>1 DEF ThreadsOK, Entered
    <2>4. QED
      BY <1>2, <2>1, <2>2, <2>3 DEF ThreadsOK, Sole
  <1>9. ASSUME NEW d \in subscriptors, user[c] # user[d], Sole(d), d \notin invisible
        PROVE  user[d] \in users
    <2>1. /\ s \subseteq Connections /\ d \in s
          /\ \A k \in s : Entered(k)
      BY <1>1, <1>3, <1>5, <1>9 DEF Found, ThreadsOK, PresenceTypeOK
    <2>2. PICK k \in one : user[k] = user[d]
      <3>1. user[d] \in UsersOf(s)
        BY <2>1 DEF UsersOf
      <3>2. user[d] \in UsersOf(one)
        BY <1>4, <3>1 DEF UniqueOf
      <3>3. QED
        BY <3>2 DEF UsersOf
    <2>3. k = d
      BY <1>4, <1>9, <2>1, <2>2 DEF Sole, Entered, UniqueOf
    <2>4. QED
      BY <1>9, <2>2, <2>3 DEF UsersOf
  <1>10. ASSUME NEW a \in subscriptors, NEW d \in subscriptors,
               user[a] # user[d], Sole(d), d \notin invisible, Told(a, d)
        PROVE  Told(a, d)'
    <2>1. a \in Connections /\ d \in Connections /\ Told(a, d)
      BY <1>1, <1>10 DEF PresenceTypeOK
    <2>2. CASE a = c
      <3>1. stage'[<<"open", a>>] = "listed" /\ user[d] \in current'[a]
        BY <1>5, <1>9, <1>10, <2>2
      <3>2. QED
        BY <1>2, <3>1 DEF Told
    <2>3. CASE a # c
      <3>1. stage'[<<"open", a>>] = stage[<<"open", a>>] /\ current'[a] = current[a]
        BY <1>5, <2>1, <2>3, TaskFacts
      <3>2. \/ stage'[<<"open", d>>] = stage[<<"open", d>>]
            \/ stage[<<"open", d>>] = "listing"
        BY <1>5, <2>1, TaskFacts
      <3>3. QED
        BY <1>2, <2>1, <3>1, <3>2 DEF Told, Pending, OpenPush
    <2>4. QED
      BY <2>2, <2>3
  <1>11. ToldStays
    BY <1>1, <1>2, <1>10, OwedKept DEF Sole, PresenceTypeOK
  <1>12. QED
    BY <1>6, <1>7, <1>8, <1>11

(* The list is sent user by user.                                          *)
LEMMA SendCurrentInv ==
    ASSUME PresenceInv, NEW c \in Connections, SendCurrent(c)
    PROVE  PhasesOK' /\ QueueOK' /\ ThreadsOK' /\ ToldStays
  <1> DEFINE t == <<"open", c>>
  <1>1. PresenceTypeOK /\ PhasesOK /\ QueueOK /\ ThreadsOK
    BY DEF PresenceInv
  <1>2. /\ ticks' = ticks /\ user' = user /\ invisible' = invisible /\ phase' = phase
        /\ subscriptors' = subscriptors /\ seen' = seen /\ logged' = logged
        /\ closing' = closing
    BY DEF SendCurrent, loopVars, connectionVars
  <1>3. PICK users \in SUBSET Users : WillSend(c, users) /\ stage[t] = "listed"
    BY <1>1 DEF SendCurrent, PresenceTypeOK
  <1>4. /\ t \in Tasks /\ stage[t] = "listed"
        /\ stage'[t] = (IF users = {} THEN "done" ELSE "listed")
        /\ current'[c] = users
        /\ \A r \in Tasks : r # t => stage'[r] = stage[r]
        /\ \A a \in Connections : a # c => current'[a] = current[a]
    BY <1>1, <1>3, TaskFacts, ZenonT(30) DEF WillSend, EnterStage, PresenceTypeOK
  <1>5. /\ \A a \in Connections, v \in Users : knows[a][v] = "there" => knows'[a][v] = "there"
        /\ \A v \in current[c] : c \in closing \/ v \in users \/ knows'[c][v] = "there"
    <2>1. CASE c \in closing /\ knows' = knows
      BY <2>1
    <2>2. ASSUME NEW u \in current[c], WillSend(c, current[c] \ {u}),
                 knows' = [knows EXCEPT ![c] = [@ EXCEPT ![u] = "there"]]
          PROVE  /\ \A a \in Connections, v \in Users :
                        knows[a][v] = "there" => knows'[a][v] = "there"
                 /\ \A v \in current[c] : c \in closing \/ v \in users \/ knows'[c][v] = "there"
      <3>1. \A a \in Connections, v \in Users :
                knows'[a][v] = IF a = c /\ v = u THEN "there" ELSE knows[a][v]
        BY <1>1, <2>2 DEF PresenceTypeOK
      <3>2. current'[c] = current[c] \ {u} /\ current[c] \subseteq Users
        BY <1>1, <2>2 DEF WillSend, PresenceTypeOK
      <3>3. QED
        BY <1>4, <3>1, <3>2
    <2>3. QED
      BY <2>1, <2>2 DEF SendCurrent
  <1>6. PhasesOK'
    BY <1>1, <1>2, <1>4, TaskFacts DEF PhasesOK, Entered
  <1>7. QueueOK'
    BY <1>1, <1>2 DEF QueueOK, Sole
  <1>8. ThreadsOK'
    BY <1>1, <1>2, <1>4, TaskFacts DEF ThreadsOK, Entered, Sole
  <1>9. ASSUME NEW a \in subscriptors, NEW d \in subscriptors, Told(a, d), a \notin closing
        PROVE  Told(a, d)'
    <2>1. a \in Connections /\ d \in Connections /\ user[d] \in Users
      BY <1>1 DEF PresenceTypeOK
    <2>2. knows[a][user[d]] = "there" => knows'[a][user[d]] = "there"
      BY <1>5, <2>1
    <2>3. \/ stage'[<<"open", d>>] = stage[<<"open", d>>]
          \/ stage[<<"open", d>>] = "listed"
      BY <1>4, <2>1, TaskFacts
    <2>4. CASE a = c
      <3>1. user[d] \in current[a] =>
               \/ knows'[a][user[d]] = "there"
               \/ stage'[<<"open", a>>] = "listed" /\ user[d] \in current'[a]
        BY <1>4, <1>5, <1>9, <2>1, <2>4
      <3>2. QED
        BY <1>2, <1>4, <1>9, <2>2, <2>3, <2>4, <3>1 DEF Told, Pending, OpenPush
    <2>5. CASE a # c
      <3>1. stage'[<<"open", a>>] = stage[<<"open", a>>] /\ current'[a] = current[a]
        BY <1>4, <2>1, <2>5, TaskFacts
      <3>2. QED
        BY <1>2, <1>9, <2>2, <2>3, <3>1 DEF Told, Pending, OpenPush
    <2>6. QED
      BY <2>4, <2>5
  <1>10. ToldStays
    BY <1>1, <1>2, <1>9, OwedKept DEF Sole, PresenceTypeOK
  <1>11. QED
    BY <1>6, <1>7, <1>8, <1>10

(* A close frame changes nothing of who is told, and fewer are counted.    *)
LEMMA CloseFrameInv ==
    ASSUME PresenceInv, NEW c \in Connections, CloseFrame(c)
    PROVE  PhasesOK' /\ QueueOK' /\ ThreadsOK' /\ ToldStays
  <1>1. PresenceTypeOK /\ PhasesOK /\ QueueOK /\ ThreadsOK
    BY DEF PresenceInv
  <1>2. /\ ticks' = ticks /\ user' = user /\ invisible' = invisible /\ phase' = phase
        /\ subscriptors' = subscriptors /\ stage' = stage /\ seen' = seen
        /\ logged' = logged /\ current' = current /\ knows' = knows
        /\ closing' = closing \union {c}
    BY DEF CloseFrame, loopVars, threadVars
  <1>3. PhasesOK' /\ QueueOK' /\ ThreadsOK'
    BY <1>1, <1>2 DEF PhasesOK, QueueOK, ThreadsOK, Entered, Sole
  <1>4. \A a \in Connections, d \in Connections : Told(a, d) => Told(a, d)'
    BY <1>2 DEF Told, Pending, OpenPush
  <1>5. ToldStays
    BY <1>1, <1>2, <1>4, OwedKept DEF Sole, PresenceTypeOK
  <1>6. QED
    BY <1>3, <1>5

-----------------------------------------------------------------------------
(* A connection subscribes once: before, it is nobody's predecessor.       *)
LEMMA SubscribesOnce ==
    ASSUME PresenceInv, NEW c \in Connections, Subscribe(c),
           Head(ticks) = [kind |-> "prepare", connection |-> c]
    PROVE  phase[c] = "accepted" /\ c \notin listeners /\ \A d \in Connections : c \notin ahead[d]
  <1>1. PICK raised \in BOOLEAN : TakeTick(raised)
    BY DEF Subscribe
  <1>2. phase[c] = "accepted"
    BY <1>1, TakeFacts DEF QueueOK, PresenceInv
  <1>3. QED
    BY <1>2 DEF PresenceInv, OrderOK

(* The order of the listeners: whoever comes, comes last.                  *)
LEMMA OrderStep ==
    ASSUME PresenceInv, [PresenceNext]_presenceVars
    PROVE  OrderOK'
  <1>1. PresenceTypeOK /\ OrderOK
    BY DEF PresenceInv
  <1> DEFINE Placed == {"subscribed", "unlisted", "departed"}
  <1>2. CASE /\ listeners' = listeners /\ ahead' = ahead /\ stalled' = stalled
             /\ \A c \in Connections : phase[c] \in Placed => phase'[c] = phase[c]
    BY <1>1, <1>2, WebSocketsAssumption DEF OrderOK, PresenceTypeOK
  <1>3. ASSUME NEW c \in Connections, Unsubscribe(c) PROVE OrderOK'
    <2>1. /\ listeners' = listeners \ {c} /\ ahead' = ahead /\ stalled' = stalled
          /\ phase' = [phase EXCEPT ![c] = "departed"]
      BY <1>3 DEF Unsubscribe, EnterPresencePhase
    <2>2. IsFiniteSet(listeners') /\ IsFiniteSet(stalled')
      BY <1>1, <2>1, FS_RemoveElement DEF OrderOK
    <2>3. \A d \in Connections : phase'[d] = IF d = c THEN "departed" ELSE phase[d]
      BY <1>1, <2>1 DEF PresenceTypeOK
    <2>4. QED
      BY <1>1, <2>1, <2>2, <2>3, WebSocketsAssumption DEF OrderOK, PresenceTypeOK
  <1>4. ASSUME NEW c \in Connections, Subscribe(c), SubscribeToChannel(c),
               Head(ticks) = [kind |-> "prepare", connection |-> c]
        PROVE  OrderOK'
    <2>1. /\ phase[c] = "accepted" /\ c \notin listeners
          /\ \A d \in Connections : c \notin ahead[d]
      BY <1>4, SubscribesOnce
    <2>2. /\ listeners' = listeners \union {c} /\ stalled' = stalled
          /\ \A d \in Connections :
                ahead'[d] = IF d = c THEN listeners \intersect WebSockets ELSE ahead[d]
      BY <1>1, <1>4 DEF Subscribe, SubscribeToChannel, PresenceTypeOK
    <2>3. \A d \in Connections :
             IF d = c THEN phase'[d] \in {"subscribed", "unlisted"} ELSE phase'[d] = phase[d]
      BY <1>1, <1>4, <2>1, <2>2 DEF Subscribe, EnterPresencePhase, PresenceTypeOK
    <2>4. IsFiniteSet(listeners') /\ IsFiniteSet(stalled')
      BY <1>1, <2>2, FS_AddElement DEF OrderOK
    <2>5. ASSUME NEW d \in listeners'
          PROVE  /\ phase'[d] \in {"subscribed", "unlisted"} /\ d \notin ahead'[d]
                 /\ \A r \in ahead'[d] \intersect listeners' :
                       ahead'[r] \intersect listeners' \subseteq ahead'[d]
      <3>1. CASE d = c
        BY <1>1, <2>1, <2>2, <2>3, <3>1, WebSocketsAssumption DEF OrderOK, PresenceTypeOK
      <3>2. CASE d # c
        BY <1>1, <2>1, <2>2, <2>3, <3>2, WebSocketsAssumption DEF OrderOK, PresenceTypeOK
      <3>3. QED
        BY <3>1, <3>2
    <2>6. ASSUME NEW d \in Connections, NEW r \in ahead'[d]
          PROVE  phase'[r] \in Placed
      <3>1. r \in Connections /\ r # c
        BY <1>1, <2>1, <2>2, <2>6, WebSocketsAssumption DEF PresenceTypeOK
      <3>2. phase[r] \in Placed
        BY <1>1, <2>2, <2>6 DEF OrderOK
      <3>3. QED
        BY <2>3, <3>1, <3>2
    <2>7. QED
      BY <2>4, <2>5, <2>6 DEF OrderOK
  <1>5. ASSUME NEW job, Push(job) PROVE OrderOK'
    <2>1. /\ listeners' = listeners /\ ahead' = ahead /\ phase' = phase
          /\ stalled' = stalled \union {r \in Raisers : Reached(r)}
      BY <1>5 DEF Push
    <2>2. {r \in Raisers : Reached(r)} \in SUBSET listeners
      BY DEF Raisers
    <2>3. IsFiniteSet(stalled')
      BY <1>1, <2>1, <2>2, FS_Subset, FS_Union DEF OrderOK
    <2>4. QED
      BY <1>1, <2>1, <2>3 DEF OrderOK
  <1>6. ASSUME NEW c \in Connections, Login(c) \/ CloseFrame(c) \/ EndListing(c) \/ SendCurrent(c)
        PROVE  /\ listeners' = listeners /\ ahead' = ahead /\ stalled' = stalled
               /\ \A d \in Connections : phase[d] \in Placed => phase'[d] = phase[d]
    BY <1>1, <1>6
       DEF Login, CloseFrame, EndListing, SendCurrent, EnterPresencePhase, connectionVars,
           PresenceTypeOK
  <1>7. ASSUME NEW t \in Tasks, Thread(t)
        PROVE  listeners' = listeners /\ ahead' = ahead /\ stalled' = stalled /\ phase' = phase
    BY <1>7 DEF Thread, StartIteration, EndCounting, Announce, connectionVars
  <1>8. ASSUME NEW c \in Connections, Subscribe(c), ~ SubscribeToChannel(c),
               Head(ticks) = [kind |-> "prepare", connection |-> c]
        PROVE  /\ listeners' = listeners /\ ahead' = ahead /\ stalled' = stalled
               /\ \A d \in Connections : phase[d] \in Placed => phase'[d] = phase[d]
    <2>1. phase[c] = "accepted"
      BY <1>8, SubscribesOnce
    <2>2. QED
      BY <1>1, <1>8, <2>1 DEF Subscribe, EnterPresencePhase, PresenceTypeOK
  <1>9. CASE CleanupAfterUnsubscribe
    BY <1>2, <1>9 DEF CleanupAfterUnsubscribe
  <1>10. CASE PresenceTick
    BY <1>1, <1>2, <1>4, <1>5, <1>8, <1>9, <1>10, PresenceTickCases
  <1>11. CASE UNCHANGED presenceVars
    BY <1>2, <1>11 DEF presenceVars, connectionVars
  <1>12. CASE PresenceNext
    BY <1>2, <1>3, <1>6, <1>7, <1>10, <1>12 DEF PresenceNext
  <1>13. QED
    BY <1>11, <1>12

(* While nobody raises, nobody is owed more than what is counted already.  *)
LEMMA CountKept ==
    ASSUME PresenceInv, ToldStays, stalled' = stalled,
           \A a \in subscriptors : ahead'[a] = ahead[a]
    PROVE  CountOK'
  <1>1. ASSUME NEW a \in subscriptors', a \notin closing'
        PROVE  Cardinality(Untold(a)') <= Cardinality((ahead[a] \intersect stalled)')
    <2>1. CASE Untold(a)' = {}
      <3>1. IsFiniteSet(stalled')
        BY DEF PresenceInv, OrderOK
      <3>2. Cardinality((ahead[a] \intersect stalled)') \in Nat
        BY <3>1, FS_Intersection, FS_CardinalityType
      <3>3. QED
        BY <2>1, <3>2, FS_EmptySet
    <2>2. CASE Untold(a)' # {}
      <3>1. a \in subscriptors \ closing /\ Untold(a)' \in SUBSET Untold(a)
        BY <1>1, <2>2 DEF ToldStays, Untold
      <3>2. IsFiniteSet(Untold(a))
        <4>1. Untold(a) \in SUBSET listeners /\ IsFiniteSet(listeners)
          BY DEF PresenceInv, OrderOK, PresenceTypeOK, Untold
        <4>2. QED
          BY <4>1, FS_Subset
      <3>3. IsFiniteSet(ahead[a] \intersect stalled)
        BY FS_Intersection DEF PresenceInv, OrderOK
      <3>4. Cardinality(Untold(a)') <= Cardinality(Untold(a))
        BY <3>1, <3>2, FS_Subset
      <3>5. Cardinality(Untold(a)) <= Cardinality(ahead[a] \intersect stalled)
        BY <3>1 DEF PresenceInv, CountOK
      <3>6. (ahead[a] \intersect stalled)' = ahead[a] \intersect stalled
        BY <3>1
      <3>7. Cardinality(Untold(a)') \in Nat /\ Cardinality(Untold(a)) \in Nat
            /\ Cardinality(ahead[a] \intersect stalled) \in Nat
        BY <3>1, <3>2, <3>3, FS_Subset, FS_CardinalityType
      <3>8. QED
        BY <3>4, <3>5, <3>6, <3>7
    <2>3. QED
      BY <2>1, <2>2
  <1>2. QED
    BY <1>1 DEF CountOK

(* Every step keeps the invariant.                                         *)
LEMMA PresenceInvStep ==
    ASSUME PresenceInv, [PresenceNext]_presenceVars
    PROVE  PresenceInv'
  <1>1. PresenceTypeOK'
    BY PresenceTypeStep DEF PresenceInv
  <1>2. OrderOK'
    BY OrderStep
  <1>3. PhasesOK' /\ QueueOK' /\ ThreadsOK' /\ CountOK'
    <2>1. CASE UNCHANGED presenceVars
      BY <2>1
         DEF PresenceInv, PhasesOK, Entered, QueueOK, ThreadsOK, CountOK, Untold, Owed, Told,
             Pending, OpenPush, Sole, presenceVars, loopVars, connectionVars, threadVars
    <2>2. ASSUME NEW c \in Connections,
                 Login(c) \/ CloseFrame(c) \/ Unsubscribe(c) \/ EndListing(c) \/ SendCurrent(c)
          PROVE  PhasesOK' /\ QueueOK' /\ ThreadsOK' /\ CountOK'
      <3>1. PhasesOK' /\ QueueOK' /\ ThreadsOK' /\ ToldStays
        BY <2>2, LoginInv, CloseFrameInv, UnsubscribeInv, EndListingInv, SendCurrentInv
      <3>2. stalled' = stalled /\ ahead' = ahead
        BY <2>2 DEF Login, CloseFrame, Unsubscribe, EndListing, SendCurrent, connectionVars
      <3>3. QED
        BY <3>1, <3>2, CountKept
    <2>3. ASSUME NEW t \in Tasks, Thread(t)
          PROVE  PhasesOK' /\ QueueOK' /\ ThreadsOK' /\ CountOK'
      <3>1. PhasesOK' /\ QueueOK' /\ ThreadsOK' /\ ToldStays
        BY <2>3, StartIterationInv, EndCountingInv, AnnounceInv DEF Thread
      <3>2. stalled' = stalled /\ ahead' = ahead
        BY <2>3 DEF Thread, StartIteration, EndCounting, Announce, connectionVars
      <3>3. QED
        BY <3>1, <3>2, CountKept
    <2>4. CASE PresenceTick
      <3>1. ASSUME NEW c \in Connections, Subscribe(c),
                   Head(ticks) = [kind |-> "prepare", connection |-> c]
            PROVE  PhasesOK' /\ QueueOK' /\ ThreadsOK' /\ CountOK'
        <4>1. PhasesOK' /\ QueueOK' /\ ThreadsOK' /\ ToldStays
          BY <3>1, SubscribeInv
        <4>2. stalled' = stalled /\ \A a \in subscriptors : ahead'[a] = ahead[a]
          <5>1. c \notin subscriptors
            BY <3>1, SubscribesOnce DEF PresenceInv, PhasesOK
          <5>2. QED
            BY <3>1, <5>1 DEF Subscribe, SubscribeToChannel, PresenceInv, PresenceTypeOK
        <4>3. QED
          BY <4>1, <4>2, CountKept
      <3>2. ASSUME CleanupAfterUnsubscribe, Head(ticks) = [kind |-> "cleanup"]
            PROVE  PhasesOK' /\ QueueOK' /\ ThreadsOK' /\ CountOK'
        <4>1. PhasesOK' /\ QueueOK' /\ ThreadsOK' /\ ToldStays
          BY <3>2, CleanupInv
        <4>2. stalled' = stalled /\ ahead' = ahead
          BY <3>2 DEF CleanupAfterUnsubscribe
        <4>3. QED
          BY <4>1, <4>2, CountKept
      <3>3. QED
        BY <2>4, <3>1, <3>2, PresenceTickCases, PushInv DEF PresenceInv
    <2>5. QED
      BY <2>1, <2>2, <2>3, <2>4 DEF PresenceNext
  <1>4. QED
    BY <1>1, <1>2, <1>3 DEF PresenceInv

(* The invariant holds in every reachable state.                           *)
THEOREM PresenceInvAlways == PresenceSpec => []PresenceInv
  <1>1. PresenceInit => PresenceInv
    BY PresenceInitInv
  <1>2. PresenceInv /\ [PresenceNext]_presenceVars => PresenceInv'
    BY PresenceInvStep
  <1>3. QED
    BY <1>1, <1>2, PTL DEF PresenceSpec

(* Once the threads and the queue are done, whoever is subscribed knows of *)
(* every other visible user with one connection who is there, but for at   *)
(* most one of them for each closing WebSocket that subscribed earlier and *)
(* cut a push short.                                                       *)
THEOREM NobodyMissedAlways == PresenceSpec => []NobodyMissed
  <1>1. ASSUME PresenceInv, Quiet, NEW c \in subscriptors, NEW d \in subscriptors,
               user[c] # user[d], Sole(d), d \notin invisible, knows[c][user[d]] # "there"
        PROVE  d \in Untold(c)
    <2>1. c \in Connections /\ d \in Connections
      BY <1>1 DEF PresenceInv, PresenceTypeOK
    <2>2. /\ stage[<<"open", c>>] \in {"none", "done"}
          /\ stage[<<"open", d>>] \in {"none", "done"}
      BY <1>1, <2>1, TaskFacts DEF Quiet
    <2>3. ~ Pending(OpenPush(user[d]))
      BY <1>1 DEF Quiet, Pending
    <2>4. QED
      BY <1>1, <2>1, <2>2, <2>3 DEF Told, Owed, Untold
  <1>2. ASSUME PresenceInv, Quiet, NEW c \in subscriptors \ closing
        PROVE  Cardinality(Missed(c)) <= Cardinality(ahead[c] \intersect stalled)
    <2>1. Missed(c) \in SUBSET Untold(c)
      BY <1>1, <1>2 DEF Missed
    <2>2. Untold(c) \in SUBSET listeners /\ IsFiniteSet(listeners) /\ IsFiniteSet(stalled)
      BY <1>2 DEF PresenceInv, OrderOK, PresenceTypeOK, Untold
    <2>3. IsFiniteSet(Untold(c)) /\ IsFiniteSet(ahead[c] \intersect stalled)
      BY <2>2, FS_Subset, FS_Intersection
    <2>4. IsFiniteSet(Missed(c)) /\ Cardinality(Missed(c)) <= Cardinality(Untold(c))
      BY <2>1, <2>3, FS_Subset
    <2>5. Cardinality(Untold(c)) <= Cardinality(ahead[c] \intersect stalled)
      BY <1>2 DEF PresenceInv, CountOK
    <2>6. /\ Cardinality(Missed(c)) \in Nat /\ Cardinality(Untold(c)) \in Nat
          /\ Cardinality(ahead[c] \intersect stalled) \in Nat
      BY <2>3, <2>4, FS_CardinalityType
    <2>7. QED
      BY <2>4, <2>5, <2>6
  <1>3. PresenceInv => NobodyMissed
    BY <1>2 DEF NobodyMissed
  <1>4. QED
    BY <1>3, PresenceInvAlways, PTL

-----------------------------------------------------------------------------
(***************************************************************************)
(* A user all of whose connections are invisible stays unseen.             *)
(***************************************************************************)
Hidden(u) == \A d \in Connections : user[d] = u => d \in invisible

(* No event of a hidden user is on its way.                                *)
NoEventOfHidden ==
    \A i \in DOMAIN ticks : ticks[i].kind = "push" => ~ Hidden(ticks[i].user)

(* The list of the only connection of a user is filtered.                  *)
SoleNotLogged == \A c \in Connections : Sole(c) => ~ logged[<<"open", c>>]

(* No hidden user is on such a list.                                       *)
NoHiddenListed ==
    \A c \in Connections, u \in Users : Sole(c) /\ Hidden(u) => u \notin current[c]

UnseenInv == NoEventOfHidden /\ SoleNotLogged /\ NoHiddenListed /\ InvisibleUnseen

-----------------------------------------------------------------------------
LEMMA UnseenInit == PresenceInit => UnseenInv
  <1>1. ASSUME PresenceInit PROVE UnseenInv
    <2>1. NoEventOfHidden
      BY <1>1 DEF PresenceInit, LoopInit, NoEventOfHidden
    <2>2. SoleNotLogged /\ NoHiddenListed /\ InvisibleUnseen
      BY <1>1, TaskFacts
         DEF PresenceInit, SoleNotLogged, NoHiddenListed, InvisibleUnseen
    <2>3. QED
      BY <2>1, <2>2 DEF UnseenInv
  <1>2. QED
    BY <1>1

(* Users and their wish to be invisible stay, and whoever entered the      *)
(* table has done so for ever.                                             *)
LEMMA SettledStep ==
    ASSUME PresenceInv, [PresenceNext]_presenceVars
    PROVE  /\ user' = user /\ invisible' = invisible
           /\ \A c \in Connections : Sole(c)' => Sole(c)
           /\ \A u : Hidden(u)' <=> Hidden(u)
  <1>1. PresenceTypeOK /\ QueueOK
    BY DEF PresenceInv
  <1>2. user' = user /\ invisible' = invisible /\ \A d \in Connections : Entered(d) => Entered(d)'
    <2>1. CASE UNCHANGED presenceVars
      BY <2>1 DEF presenceVars, connectionVars, Entered
    <2>2. ASSUME NEW c \in Connections,
                 Login(c) \/ CloseFrame(c) \/ Unsubscribe(c) \/ EndListing(c) \/ SendCurrent(c)
          PROVE  user' = user /\ invisible' = invisible
                 /\ \A d \in Connections : Entered(d) => Entered(d)'
      BY <1>1, <2>2
         DEF Login, CloseFrame, Unsubscribe, EndListing, SendCurrent, EnterPresencePhase,
             connectionVars, Entered, PresenceTypeOK
    <2>3. ASSUME NEW t \in Tasks, Thread(t)
          PROVE  user' = user /\ invisible' = invisible /\ phase' = phase
      BY <2>3 DEF Thread, StartIteration, EndCounting, Announce, connectionVars
    <2>4. ASSUME NEW c \in Connections, Head(ticks) = [kind |-> "prepare", connection |-> c],
                 Subscribe(c)
          PROVE  user' = user /\ invisible' = invisible
                 /\ \A d \in Connections : Entered(d) => Entered(d)'
      <3>1. PICK raised \in BOOLEAN : TakeTick(raised)
        BY <2>4 DEF Subscribe
      <3>2. phase[c] = "accepted"
        BY <1>1, <2>4, <3>1, TakeFacts DEF QueueOK
      <3>3. QED
        BY <1>1, <2>4, <3>2 DEF Subscribe, EnterPresencePhase, Entered, PresenceTypeOK
    <2>5. ASSUME CleanupAfterUnsubscribe \/ \E job : Push(job)
          PROVE  user' = user /\ invisible' = invisible /\ phase' = phase
      BY <2>5 DEF CleanupAfterUnsubscribe, Push
    <2>6. CASE PresenceTick
      BY <1>1, <2>4, <2>5, <2>6, PresenceTickCases DEF Entered
    <2>7. QED
      BY <2>1, <2>2, <2>3, <2>6 DEF PresenceNext, Entered
  <1>3. QED
    BY <1>2, SoleKept DEF Hidden

(* The steps that touch neither lists, nor what is known, nor logged, and  *)
(* queue nothing but perhaps an event of a user who is not hidden.         *)
LEMMA CalmStep ==
    ASSUME UnseenInv, user' = user, invisible' = invisible,
           \A c \in Connections : Sole(c)' => Sole(c),
           \A i \in DOMAIN ticks' :
              ticks'[i].kind = "push" =>
                  \/ \E j \in DOMAIN ticks : ticks'[i] = ticks[j]
                  \/ ~ Hidden(ticks'[i].user),
           \A c \in Connections : logged'[<<"open", c>>] => logged[<<"open", c>>],
           current' = current, knows' = knows
    PROVE  UnseenInv'
  BY DEF UnseenInv, NoEventOfHidden, SoleNotLogged, NoHiddenListed, InvisibleUnseen, Hidden

(* The steps of the connections.                                           *)
LEMMA UnseenConnectionStep ==
    ASSUME PresenceInv, UnseenInv, NEW c \in Connections,
           Login(c) \/ CloseFrame(c) \/ Unsubscribe(c) \/ EndListing(c) \/ SendCurrent(c)
    PROVE  UnseenInv'
  <1>1. PresenceTypeOK /\ ThreadsOK
    BY DEF PresenceInv
  <1>2. /\ user' = user /\ invisible' = invisible
        /\ \A d \in Connections : Sole(d)' => Sole(d)
    BY SettledStep DEF PresenceNext
  <1>0. CASE CloseFrame(c) \/ (SendCurrent(c) /\ knows' = knows /\ WillSend(c, {}))
    <2>1. /\ ticks' = ticks /\ logged' = logged /\ knows' = knows
          /\ current' = current \/ WillSend(c, {})
      BY <1>0 DEF CloseFrame, SendCurrent, loopVars, threadVars
    <2>2. \A d \in Connections : current'[d] \subseteq current[d]
      BY <1>1, <2>1 DEF WillSend, PresenceTypeOK
    <2>3. QED
      BY <1>2, <2>1, <2>2
         DEF UnseenInv, NoEventOfHidden, SoleNotLogged, NoHiddenListed, InvisibleUnseen, Hidden
  <1>3. CASE Login(c) \/ Unsubscribe(c)
    <2>1. PICK job \in PresenceJobs : Schedule(job) /\ job.kind # "push"
      BY <1>3 DEF Login, Unsubscribe, PresenceJobs
    <2>2. logged' = logged /\ current' = current /\ knows' = knows
      BY <1>3 DEF Login, Unsubscribe, threadVars
    <2>3. \A i \in DOMAIN ticks' :
             ticks'[i].kind = "push" => \E j \in DOMAIN ticks : ticks'[i] = ticks[j]
      BY <1>1, <2>1, ScheduleFacts
    <2>4. QED
      BY <1>2, <2>2, <2>3, CalmStep
  <1>4. CASE EndListing(c)
    <2> DEFINE t == <<"open", c>>
               listed(one) == UsersOf({k \in one : \/ user[k] # user[c] /\ k \notin invisible
                                                   \/ logged[t]})
    <2>1. /\ ticks' = ticks /\ knows' = knows /\ t \in Tasks
          /\ logged' = [logged EXCEPT ![t] = FALSE]
      BY <1>4, TaskFacts DEF EndListing, loopVars
    <2>2. PICK s \in Found(t) : \E one \in UniqueOf(s) : WillSend(c, listed(one))
      BY <1>4 DEF EndListing
    <2>3. PICK one \in UniqueOf(s) : WillSend(c, listed(one))
      BY <2>2
    <2>4. \A k \in one : k \in Connections
      BY <1>1, <2>1, <2>2, <2>3 DEF Found, UniqueOf, PresenceTypeOK
    <2>5. ASSUME Sole(c), NEW u \in Users, Hidden(u)
          PROVE  u \notin listed(one)
      <3>1. ~ logged[t]
        BY <2>5 DEF UnseenInv, SoleNotLogged
      <3>2. QED
        BY <2>4, <2>5, <3>1 DEF UsersOf, Hidden
    <2> HIDE DEF listed
    <2>6. \A d \in Connections : current'[d] = IF d = c THEN listed(one) ELSE current[d]
      BY <1>1, <2>3 DEF WillSend, PresenceTypeOK
    <2>7. \A d \in Connections : logged'[<<"open", d>>] => logged[<<"open", d>>]
      BY <1>1, <2>1, TaskFacts DEF PresenceTypeOK
    <2>8. NoHiddenListed'
      BY <1>2, <2>5, <2>6 DEF UnseenInv, NoHiddenListed, Hidden
    <2>9. NoEventOfHidden' /\ SoleNotLogged' /\ InvisibleUnseen'
      BY <1>2, <2>1, <2>7 DEF UnseenInv, NoEventOfHidden, SoleNotLogged, InvisibleUnseen, Hidden
    <2>10. QED
      BY <2>8, <2>9 DEF UnseenInv
  <1>5. CASE SendCurrent(c) /\ ~ (knows' = knows /\ WillSend(c, {}))
    <2>1. PICK u \in current[c] :
             /\ knows' = [knows EXCEPT ![c] = [@ EXCEPT ![u] = "there"]]
             /\ WillSend(c, current[c] \ {u})
      BY <1>5 DEF SendCurrent
    <2>2. ticks' = ticks /\ logged' = logged /\ u \in Users
      BY <1>1, <1>5, <2>1 DEF SendCurrent, loopVars, PresenceTypeOK
    <2>3. \A d \in Connections : current'[d] \subseteq current[d]
      BY <1>1, <2>1 DEF WillSend, PresenceTypeOK
    <2>4. \A d \in Connections, v \in Users : d # c \/ v # u => knows'[d][v] = knows[d][v]
      BY <1>1, <2>1, <2>2 DEF PresenceTypeOK
    <2>5. ~ (Sole(c) /\ Hidden(u))
      BY <2>1, <2>2 DEF UnseenInv, NoHiddenListed
    <2>6. InvisibleUnseen'
      BY <1>2, <2>4, <2>5 DEF UnseenInv, InvisibleUnseen, Hidden
    <2>7. NoEventOfHidden' /\ SoleNotLogged' /\ NoHiddenListed'
      BY <1>2, <2>2, <2>3 DEF UnseenInv, NoEventOfHidden, SoleNotLogged, NoHiddenListed, Hidden
    <2>8. QED
      BY <2>6, <2>7 DEF UnseenInv
  <1>6. QED
    BY <1>0, <1>3, <1>4, <1>5

(* The steps of the threads.                                               *)
LEMMA UnseenThreadStep ==
    ASSUME PresenceInv, UnseenInv, NEW t \in Tasks, Thread(t)
    PROVE  UnseenInv'
  <1>1. PresenceTypeOK /\ ThreadsOK
    BY DEF PresenceInv
  <1>2. /\ user' = user /\ invisible' = invisible
        /\ \A d \in Connections : Sole(d)' => Sole(d)
    BY SettledStep DEF PresenceNext
  <1>3. CASE StartIteration(t)
    <2>1. ticks' = ticks /\ logged' = logged /\ current' = current /\ knows' = knows
      BY <1>3 DEF StartIteration, loopVars
    <2>2. QED
      BY <1>2, <2>1, CalmStep
  <1>4. CASE EndCounting(t)
    <2>1. /\ ticks' = ticks /\ phase' = phase /\ current' = current /\ knows' = knows
          /\ stage[t] = "counting" /\ stage'[t] = "counted"
          /\ \A r \in Tasks : r # t => logged'[r] = logged[r]
      BY <1>1, <1>4 DEF EndCounting, EnterStage, PresenceTypeOK, loopVars, connectionVars
    <2>2. ThreadsOK'
      BY <1>4, EndCountingInv
    <2>3. SoleNotLogged'
      BY <1>2, <2>1, <2>2, TaskFacts DEF UnseenInv, SoleNotLogged, ThreadsOK
    <2>4. NoEventOfHidden' /\ NoHiddenListed' /\ InvisibleUnseen'
      BY <1>2, <2>1 DEF UnseenInv, NoEventOfHidden, NoHiddenListed, InvisibleUnseen, Hidden
    <2>5. QED
      BY <2>3, <2>4 DEF UnseenInv
  <1>5. CASE Announce(t)
    <2> DEFINE job == [kind |-> "push", event |-> t[1], user |-> user[t[2]]]
    <2>1. /\ current' = current /\ knows' = knows
          /\ \A r \in Tasks : logged'[r] => logged[r]
      BY <1>1, <1>5 DEF Announce, PresenceTypeOK
    <2>2. ticks' = ticks \/ (t[2] \notin invisible /\ Schedule(job))
      BY <1>5 DEF Announce, loopVars
    <2>3. job \in PresenceJobs /\ t[2] \in Connections
      BY <1>1, TaskFacts DEF PresenceJobs, PresenceTypeOK
    <2>4. t[2] \notin invisible => ~ Hidden(job.user)
      BY <2>3 DEF Hidden
    <2>5. \A i \in DOMAIN ticks' :
             ticks'[i].kind = "push" =>
                 \/ \E j \in DOMAIN ticks : ticks'[i] = ticks[j]
                 \/ ~ Hidden(ticks'[i].user)
      BY <1>1, <2>2, <2>3, <2>4, ScheduleFacts
    <2>6. QED
      BY <1>2, <2>1, <2>5, TaskFacts, CalmStep
  <1>6. QED
    BY <1>3, <1>4, <1>5 DEF Thread

(* The jobs of the reactor: a push is of nobody who is hidden.             *)
LEMMA UnseenTick ==
    ASSUME PresenceInv, UnseenInv, PresenceTick
    PROVE  UnseenInv'
  <1>1. PresenceTypeOK
    BY DEF PresenceInv
  <1>2. /\ user' = user /\ invisible' = invisible
        /\ \A d \in Connections : Sole(d)' => Sole(d)
    BY SettledStep DEF PresenceNext
  <1>3. PICK raised \in BOOLEAN : TakeTick(raised)
    BY <1>1, PresenceTickCases DEF Subscribe, CleanupAfterUnsubscribe, Push
  <1>4. \A i \in DOMAIN ticks' : \E j \in DOMAIN ticks : ticks'[i] = ticks[j]
    BY <1>1, <1>3, TakeFacts
  <1>5. ASSUME (\E c \in Connections : Subscribe(c)) \/ CleanupAfterUnsubscribe
        PROVE  UnseenInv'
    <2>1. logged' = logged /\ current' = current /\ knows' = knows
      BY <1>5 DEF Subscribe, CleanupAfterUnsubscribe, threadVars
    <2>2. QED
      BY <1>2, <1>4, <2>1, CalmStep
  <1>6. ASSUME NEW e \in {"open", "close"}, NEW u \in Users,
               Head(ticks) = [kind |-> "push", event |-> e, user |-> u], Push(Head(ticks))
        PROVE  UnseenInv'
    <2>1. logged' = logged /\ current' = current
      BY <1>6 DEF Push, threadVars
    <2>2. ~ Hidden(u)
      <3>1. 1 \in DOMAIN ticks /\ ticks[1] = [kind |-> "push", event |-> e, user |-> u]
        BY <1>1, <1>3, <1>6, TakeFacts
      <3>2. ticks[1].kind = "push" /\ ticks[1].user = u
        BY <3>1
      <3>3. QED
        BY <3>1, <3>2 DEF UnseenInv, NoEventOfHidden
    <2>3. \A c \in Connections, v \in Users : v # u => knows'[c][v] = knows[c][v]
      BY <1>1, <1>6 DEF Push, PresenceTypeOK
    <2>4. InvisibleUnseen'
      BY <1>2, <2>2, <2>3 DEF UnseenInv, InvisibleUnseen, Hidden
    <2>5. NoEventOfHidden' /\ SoleNotLogged' /\ NoHiddenListed'
      BY <1>2, <1>4, <2>1
         DEF UnseenInv, NoEventOfHidden, SoleNotLogged, NoHiddenListed, Hidden
    <2>6. QED
      BY <2>4, <2>5 DEF UnseenInv
  <1>7. QED
    BY <1>1, <1>5, <1>6, PresenceTickCases

LEMMA UnseenStep ==
    ASSUME PresenceInv, UnseenInv, [PresenceNext]_presenceVars
    PROVE  UnseenInv'
  <1>1. CASE UNCHANGED presenceVars
    <2>1. /\ ticks' = ticks /\ logged' = logged /\ current' = current /\ knows' = knows
          /\ user' = user /\ invisible' = invisible
      BY <1>1 DEF presenceVars, loopVars, connectionVars, threadVars
    <2>2. QED
      BY <2>1, SettledStep, CalmStep
  <1>2. CASE PresenceNext
    BY <1>2, UnseenConnectionStep, UnseenThreadStep, UnseenTick DEF PresenceNext
  <1>3. QED
    BY <1>1, <1>2

(* A user all of whose connections are invisible is never shown to the     *)
(* only connection of another one, by an event or by a list.               *)
THEOREM InvisibleUnseenAlways == PresenceSpec => []InvisibleUnseen
  <1>1. PresenceInit => UnseenInv
    BY UnseenInit
  <1>2. PresenceInv /\ UnseenInv /\ [PresenceNext]_presenceVars => UnseenInv'
    BY UnseenStep
  <1>3. UnseenInv => InvisibleUnseen
    BY DEF UnseenInv
  <1>4. QED
    BY <1>1, <1>2, <1>3, PresenceInvAlways, PTL DEF PresenceSpec
=============================================================================
