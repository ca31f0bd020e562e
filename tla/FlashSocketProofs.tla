-------------------------- MODULE FlashSocketProofs -------------------------
(***************************************************************************)
(* Proofs about module FlashSocket, for any sockets, any of which may      *)
(* throw or be sent on, and any number of messages: types, that each is    *)
(* created once, that events are handled in the order of Flash, and that   *)
(* an end stays.                                                           *)
(***************************************************************************)
EXTENDS FlashSocket, SequenceFacts

(***************************************************************************)
(* Types                                                                   *)
(***************************************************************************)

(* The timers are told apart by their task and socket.                     *)
LEMMA TimersDiffer ==
    /\ ReadyTimer \in Timers /\ ReceiveTimer \in Timers
    /\ \A s \in Sockets :
          /\ CreateTimer(s) \in Timers
          /\ CreateTimer(s) # ReadyTimer /\ CreateTimer(s) # ReceiveTimer
    /\ \A s, t \in Sockets : CreateTimer(s) = CreateTimer(t) => s = t
<1>1. \A s \in Sockets : CreateTimer(s).task = "create" /\ CreateTimer(s).socket = s
  BY DEF CreateTimer
<1>2. ReadyTimer.task = "ready" /\ ReceiveTimer.task = "receive"
  BY DEF ReadyTimer, ReceiveTimer
<1>3. ReadyTimer \in Timers /\ ReceiveTimer \in Timers /\ \A s \in Sockets : CreateTimer(s) \in Timers
  BY DEF Timers
<1> QED
  BY <1>1, <1>2, <1>3

(* What Flash emits is an event, announced by a timer.                     *)
LEMMA EmitType ==
    ASSUME TypeOK, NEW s \in Sockets, NEW type \in {"open", "message", "end"},
           NEW state \in States \ {"none"}, Emit(s, type, state)
    PROVE  TypeOK'
<1> DEFINE event == [socket |-> s, type |-> type, number |-> Len(emitted) + 1, readyState |-> state]
<1>1. event \in Events
  BY DEF TypeOK, Events
<1>2. /\ remote' = [remote EXCEPT ![s] = state]
      /\ flashEvents' = Append(flashEvents, event) /\ emitted' = Append(emitted, event)
      /\ timers' = Append(timers, ReceiveTimer)
      /\ UNCHANGED <<readyState, createTask, bufferedAmount, initialized, flash, flashTasks,
                     eventVars, embedded>>
  BY DEF Emit
<1> HIDE DEF event
<1>3. flashEvents' \in Seq(Events) /\ emitted' \in Seq(Events)
  BY <1>1, <1>2 DEF TypeOK
<1>4. timers' \in Seq(Timers)
  BY <1>2, TimersDiffer DEF TypeOK
<1>5. remote' \in [Sockets -> States]
  BY <1>2 DEF TypeOK
<1> QED
  BY <1>2, <1>3, <1>4, <1>5 DEF TypeOK, eventVars

(* Whatever Flash does with a socket is to emit an event.                  *)
LEMMA FlashEmits ==
    ASSUME NEW s \in Sockets, TypeOK, FlashOpens(s) \/ FlashReceives(s) \/ FlashEnds(s)
    PROVE  /\ remote[s] # "none"
           /\ \E type \in {"open", "message", "end"}, state \in States \ {"none"} :
                 Emit(s, type, state)
<1>1. CASE FlashOpens(s)
  BY <1>1 DEF FlashOpens, States
<1>2. CASE FlashReceives(s)
  <2>1. remote[s] \in {"OPEN", "CLOSING"} /\ Emit(s, "message", remote[s])
    BY <1>2 DEF FlashReceives
  <2> QED
    BY <2>1 DEF States
<1>3. CASE FlashEnds(s)
  BY <1>3 DEF FlashEnds, States
<1> QED
  BY <1>1, <1>2, <1>3

(* So is what the constructor's task creates there.                        *)
LEMMA CreateType ==
    ASSUME TypeOK, NEW S, Create(S)
    PROVE  createTask' \subseteq Sockets /\ remote' \in [Sockets -> States]
<1>1. remote' = [s \in Sockets |-> IF s \in S THEN "CONNECTING" ELSE remote[s]]
  BY DEF Create
<1>2. \A s \in Sockets : (IF s \in S THEN "CONNECTING" ELSE remote[s]) \in States
  BY DEF TypeOK, States
<1> QED
  BY <1>1, <1>2 DEF TypeOK, Create

(* Every step keeps the types.                                             *)
LEMMA TypeStep == TypeOK /\ [Next]_vars => TypeOK'
<1> SUFFICES ASSUME TypeOK, [Next]_vars PROVE TypeOK'
  OBVIOUS
<1> USE DEF eventVars, flashVars, pageVars
<1>1. ASSUME NEW s \in Sockets, Construct(s) PROVE TypeOK'
  <2>1. timers' \in Seq(Timers)
    BY <1>1, TimersDiffer DEF TypeOK, Construct
  <2>2. readyState' \in [Sockets -> States]
    BY <1>1 DEF TypeOK, Construct, States
  <2> QED
    BY <1>1, <2>1, <2>2 DEF TypeOK, Construct
<1>2. ASSUME NEW s \in Sockets, Send(s) PROVE TypeOK'
  BY <1>2 DEF TypeOK, Send
<1>3. ASSUME NEW s \in Sockets, CloseBefore(s) PROVE TypeOK'
  <2>1. timers' \in Seq(Timers)
    <3>1. Among(timers, Timers \ {CreateTimer(s)}) \in Seq(Timers \cap (Timers \ {CreateTimer(s)}))
      BY AmongType DEF TypeOK
    <3> QED
      BY <1>3, <3>1 DEF CloseBefore, Without
  <2>2. readyState' \in [Sockets -> States]
    BY <1>3 DEF TypeOK, CloseBefore, States
  <2> QED
    BY <1>3, <2>1, <2>2 DEF TypeOK, CloseBefore
<1>4. ASSUME NEW s \in Sockets, CloseFlash(s) PROVE TypeOK'
  <2>1. readyState' \in [Sockets -> States] /\ remote' \in [Sockets -> States]
    BY <1>4 DEF TypeOK, CloseFlash, States
  <2> QED
    BY <1>4, <2>1 DEF TypeOK, CloseFlash
<1>5. ASSUME NEW located \in BOOLEAN, Initialize(located) PROVE TypeOK'
  BY <1>5 DEF TypeOK, Initialize
<1>6. ASSUME RunTimer PROVE timers' \in Seq(Timers)
  BY <1>6, TailFacts DEF TypeOK, RunTimer
<1>7. CASE RunCreate
  <2>1. PICK s \in Sockets : AddTask(s)
    BY <1>7 DEF RunCreate
  <2>2. createTask' \subseteq Sockets /\ flashTasks' \in Seq(Sockets) /\ remote' \in [Sockets -> States]
    <3>1. CASE flash
      <4>1. Create({s}) /\ flashTasks' = flashTasks
        BY <2>1, <3>1 DEF AddTask
      <4> QED
        BY <4>1, CreateType DEF TypeOK
    <3>2. CASE ~flash
      <4>1. flashTasks' = Append(flashTasks, s) /\ UNCHANGED <<createTask, remote>>
        BY <2>1, <3>2 DEF AddTask
      <4>2. flashTasks' \in Seq(Sockets)
        BY <4>1, AppendFacts DEF TypeOK
      <4> QED
        BY <4>1, <4>2 DEF TypeOK
    <3> QED
      BY <3>1, <3>2
  <2> QED
    BY <1>6, <1>7, <2>2 DEF TypeOK, RunCreate
<1>8. CASE RunReady
  <2>1. createTask' \subseteq Sockets /\ remote' \in [Sockets -> States]
    BY <1>8, CreateType DEF RunReady
  <2>2. flashTasks' \in Seq(Sockets)
    BY <1>8 DEF RunReady
  <2> QED
    BY <1>6, <1>8, <2>1, <2>2 DEF TypeOK, RunReady
<1>9. CASE RunReceive
  <2>1. flashEvents' \in Seq(Events) /\ batch' \in Seq(Events)
    BY <1>9 DEF TypeOK, RunReceive
  <2> QED
    BY <1>6, <1>9, <2>1 DEF TypeOK, RunReceive
<1>10. ASSUME NEW throws \in BOOLEAN, HandleEvent(throws) PROVE TypeOK'
  <2>1. Head(batch) \in Events /\ Tail(batch) \in Seq(Events) /\ batch \in Seq(Events)
    BY <1>10, TailFacts DEF TypeOK, HandleEvent
  <2>2. readyState' \in [Sockets -> States]
    BY <1>10, <2>1 DEF TypeOK, HandleEvent, Events
  <2>3. handled' \in Seq(Events)
    BY <1>10, <2>1 DEF TypeOK, HandleEvent
  <2>4. batch' \in Seq(Events)
    <3>1. <<>> \in Seq(Events)
      OBVIOUS
    <3> QED
      BY <1>10, <2>1, <3>1 DEF HandleEvent
  <2>5. dropped' \subseteq Events
    <3>1. \A n \in 2 .. Len(batch) : batch[n] \in Events
      BY <2>1
    <3> QED
      BY <1>10, <3>1 DEF TypeOK, HandleEvent
  <2> QED
    BY <1>10, <2>2, <2>3, <2>4, <2>5 DEF TypeOK, HandleEvent
<1>11. CASE FlashLoads
  <2>1. timers' \in Seq(Timers)
    BY <1>11, TimersDiffer DEF TypeOK, FlashLoads
  <2> QED
    BY <1>11, <2>1 DEF TypeOK, FlashLoads
<1>12. ASSUME NEW s \in Sockets, FlashOpens(s) \/ FlashReceives(s) \/ FlashEnds(s) PROVE TypeOK'
  BY <1>12, FlashEmits, EmitType
<1>13. CASE UNCHANGED vars
  BY <1>13 DEF TypeOK, vars
<1> QED
  BY <1>1, <1>2, <1>3, <1>4, <1>5, <1>7, <1>8, <1>9, <1>10, <1>11, <1>12, <1>13 DEF Next, Close

(* So do the initial states.                                               *)
LEMMA TypeInit == Init => TypeOK
<1>1. <<>> \in Seq(Sockets) /\ <<>> \in Seq(Timers) /\ <<>> \in Seq(Events)
  OBVIOUS
<1> QED
  BY <1>1 DEF Init, TypeOK, States

(* TypeCorrect: the sockets, the tasks and the events of both sides keep   *)
(* their types; an event always carries a readyState of a socket in Flash. *)
THEOREM TypeCorrect == Spec => []TypeOK
BY TypeInit, TypeStep, PTL DEF Spec
-----------------------------------------------------------------------------
(***************************************************************************)
(* What is due                                                             *)
(***************************************************************************)

Within(x, q) == \E n \in 1 .. Len(q) : q[n] = x

(* The creation of a socket that waits for it, the event of Flash that     *)
(* begins with those it kept, and a task for the events that Flash keeps.  *)
DueInv ==
    /\ \A s \in createTask : Within(CreateTimer(s), timers) \/ (~flash /\ Within(s, flashTasks))
    /\ embedded = "loaded" /\ ~flash => Within(ReadyTimer, timers)
    /\ flashEvents # <<>> => Within(ReceiveTimer, timers)

LEMMA IsDueIn ==
    ASSUME TypeOK, NEW timer, Within(timer, timers)
    PROVE  IsDue(timer)
<1>1. DOMAIN timers = 1 .. Len(timers)
  BY DEF TypeOK
<1> QED
  BY <1>1 DEF IsDue, Within

(* What is in a queue stays in it, and so does what is behind its head.    *)
LEMMA WithinAppend ==
    ASSUME NEW X, NEW q \in Seq(X), NEW y \in X
    PROVE  /\ Within(y, Append(q, y))
           /\ \A x : Within(x, q) => Within(x, Append(q, y))
<1>1. Len(Append(q, y)) = Len(q) + 1 /\ Len(q) \in Nat /\ Append(q, y)[Len(q) + 1] = y
  OBVIOUS
<1>2. \A n \in 1 .. Len(q) : n \in 1 .. Len(Append(q, y)) /\ Append(q, y)[n] = q[n]
  OBVIOUS
<1> QED
  BY <1>1, <1>2 DEF Within

LEMMA WithinTail ==
    ASSUME NEW X, NEW q \in Seq(X), q # <<>>
    PROVE  \A x : Within(x, q) /\ Head(q) # x => Within(x, Tail(q))
<1> SUFFICES ASSUME NEW x, Within(x, q), Head(q) # x PROVE Within(x, Tail(q))
  OBVIOUS
<1>1. PICK n \in 1 .. Len(q) : q[n] = x
  BY DEF Within
<1>2. n # 1 /\ Len(Tail(q)) = Len(q) - 1 /\ Len(q) \in Nat
  BY <1>1
<1>3. n - 1 \in 1 .. Len(Tail(q)) /\ Tail(q)[n - 1] = q[n]
  BY <1>1, <1>2
<1> QED
  BY <1>1, <1>3 DEF Within

(* Steps that only take no task from the timers.                           *)
LEMMA DueKept ==
    ASSUME DueInv, UNCHANGED <<flash, flashTasks, embedded>>,
           createTask' \subseteq createTask, flashEvents' = flashEvents,
           \A timer : Within(timer, timers) => Within(timer, timers')
    PROVE  DueInv'
BY DEF DueInv, Within

(* The task at the head of the timers, and what is due without it.         *)
LEMMA TimerTaken ==
    ASSUME TypeOK, RunTimer
    PROVE  \A timer : Within(timer, timers) /\ Head(timers) # timer => Within(timer, timers')
BY WithinTail DEF RunTimer, TypeOK

LEMMA CloseDue ==
    ASSUME TypeOK, DueInv, NEW s \in Sockets, Close(s)
    PROVE  DueInv'
<1>1. CASE CloseBefore(s)
  <2> DEFINE S == Timers \ {CreateTimer(s)}
  <2>1. timers \in Seq(Timers) /\ timers' = Among(timers, S)
    BY <1>1 DEF CloseBefore, Without, TypeOK
  <2>2. /\ UNCHANGED <<flash, flashTasks, embedded, flashEvents>>
        /\ createTask' = createTask \ {s} /\ createTask \subseteq Sockets
    BY <1>1 DEF CloseBefore, flashVars, TypeOK
  <2>3. ASSUME NEW timer \in Timers, timer # CreateTimer(s), Within(timer, timers)
        PROVE  Within(timer, timers')
    <3>1. PICK n \in 1 .. Len(timers) : timers[n] = timer
      BY <2>3 DEF Within
    <3>2. timers[n] \in S
      BY <2>3, <3>1
    <3> HIDE DEF S
    <3>3. \E m \in 1 .. Len(Among(timers, S)) : Among(timers, S)[m] = timers[n]
      BY <2>1, <3>2, AmongKeeps
    <3> QED
      BY <2>1, <3>1, <3>3 DEF Within
  <2>4. \A t \in createTask' : t \in Sockets /\ CreateTimer(t) \in Timers /\ CreateTimer(t) # CreateTimer(s)
    BY <2>2, TimersDiffer
  <2>5. ReadyTimer \in Timers /\ ReceiveTimer \in Timers
        /\ ReadyTimer # CreateTimer(s) /\ ReceiveTimer # CreateTimer(s)
    BY TimersDiffer
  <2>6. \A t \in createTask' :
            Within(CreateTimer(t), timers') \/ (~flash' /\ Within(t, flashTasks'))
    BY <2>2, <2>3, <2>4 DEF DueInv
  <2>7. /\ embedded' = "loaded" /\ ~flash' => Within(ReadyTimer, timers')
        /\ flashEvents' # <<>> => Within(ReceiveTimer, timers')
    BY <2>2, <2>3, <2>5 DEF DueInv
  <2> QED
    BY <2>6, <2>7 DEF DueInv
<1>2. CASE CloseFlash(s)
  BY <1>2, DueKept DEF CloseFlash
<1> QED
  BY <1>1, <1>2 DEF Close

LEMMA RunCreateDue ==
    ASSUME TypeOK, DueInv, RunCreate
    PROVE  DueInv'
<1>1. PICK s \in Sockets : Head(timers) = CreateTimer(s) /\ AddTask(s)
  BY DEF RunCreate
<1>2. UNCHANGED <<flash, embedded, flashEvents>> /\ RunTimer
  BY DEF RunCreate
<1>3. \A timer : Within(timer, timers) /\ CreateTimer(s) # timer => Within(timer, timers')
  BY <1>1, <1>2, TimerTaken
<1>4. createTask \subseteq Sockets /\ flashTasks \in Seq(Sockets)
  BY DEF TypeOK
<1>5. ASSUME NEW t \in createTask'
      PROVE  Within(CreateTimer(t), timers') \/ (~flash' /\ Within(t, flashTasks'))
  <2>1. t \in createTask /\ t \in Sockets /\ (t # s => CreateTimer(t) # CreateTimer(s))
    BY <1>1, <1>4, <1>5, TimersDiffer DEF AddTask, Create
  <2>2. flash => t # s /\ flashTasks' = flashTasks
    BY <1>1, <1>5 DEF AddTask, Create
  <2>3. ~flash => /\ Within(s, flashTasks')
                  /\ Within(t, flashTasks) => Within(t, flashTasks')
    BY <1>1, <1>4, WithinAppend DEF AddTask
  <2> QED
    BY <1>2, <1>3, <2>1, <2>2, <2>3 DEF DueInv
<1>6. /\ embedded' = "loaded" /\ ~flash' => Within(ReadyTimer, timers')
      /\ flashEvents' # <<>> => Within(ReceiveTimer, timers')
  BY <1>2, <1>3, TimersDiffer DEF DueInv
<1> QED
  BY <1>5, <1>6 DEF DueInv

(* Flash is there now: what was kept for it is created.                    *)
LEMMA RunReadyDue ==
    ASSUME TypeOK, DueInv, RunReady
    PROVE  DueInv'
<1>1. /\ Head(timers) = ReadyTimer /\ flash' /\ UNCHANGED flashEvents /\ RunTimer
      /\ createTask' = createTask \ {flashTasks[n] : n \in DOMAIN flashTasks}
  BY DEF RunReady, Create
<1>2. \A timer : Within(timer, timers) /\ ReadyTimer # timer => Within(timer, timers')
  BY <1>1, TimerTaken
<1>3. ReceiveTimer # ReadyTimer
  BY DEF ReceiveTimer, ReadyTimer
<1>4. createTask \subseteq Sockets /\ DOMAIN flashTasks = 1 .. Len(flashTasks)
  BY DEF TypeOK
<1>5. ASSUME NEW s \in createTask' PROVE Within(CreateTimer(s), timers')
  <2>1. s \in createTask /\ s \in Sockets /\ ~Within(s, flashTasks)
    BY <1>1, <1>4, <1>5 DEF Within
  <2> QED
    BY <1>2, <2>1, TimersDiffer DEF DueInv
<1> QED
  BY <1>1, <1>2, <1>3, <1>5 DEF DueInv

(* Every step keeps what is due, or does it.                               *)
LEMMA DueStep == TypeOK /\ DueInv /\ [Next]_vars => DueInv'
<1> SUFFICES ASSUME TypeOK, DueInv, [Next]_vars PROVE DueInv'
  OBVIOUS
<1>0. timers \in Seq(Timers)
  BY DEF TypeOK
<1>1. ASSUME NEW s \in Sockets, Construct(s) PROVE DueInv'
  <2>1. /\ timers' = Append(timers, CreateTimer(s)) /\ createTask' = createTask \union {s}
        /\ UNCHANGED <<flash, flashTasks, embedded, flashEvents>>
    BY <1>1 DEF Construct, flashVars
  <2>2. Within(CreateTimer(s), timers') /\ \A timer : Within(timer, timers) => Within(timer, timers')
    BY <1>0, <2>1, TimersDiffer, WithinAppend
  <2> QED
    BY <2>1, <2>2 DEF DueInv, Within
<1>2. ASSUME UNCHANGED <<createTask, flash, flashTasks, timers, embedded, flashEvents>> PROVE DueInv'
  BY <1>2, DueKept
<1>3. ASSUME NEW s \in Sockets, Send(s) PROVE DueInv'
  BY <1>2, <1>3 DEF Send, flashVars
<1>4. ASSUME NEW located \in BOOLEAN, Initialize(located) PROVE DueInv'
  BY <1>4 DEF Initialize, DueInv, Within
<1>5. CASE RunReceive
  <2>1. /\ RunTimer /\ Head(timers) = ReceiveTimer /\ flashEvents' = <<>>
        /\ UNCHANGED <<createTask, flash, flashTasks, embedded>>
    BY <1>5 DEF RunReceive
  <2>2. \A timer : Within(timer, timers) /\ ReceiveTimer # timer => Within(timer, timers')
    BY <2>1, TimerTaken
  <2>3. ReceiveTimer # ReadyTimer
    BY DEF ReceiveTimer, ReadyTimer
  <2>4. \A s \in createTask : CreateTimer(s) # ReceiveTimer
    BY TimersDiffer DEF TypeOK
  <2>5. \A s \in createTask : Within(CreateTimer(s), timers') \/ (~flash /\ Within(s, flashTasks))
    BY <2>2, <2>4 DEF DueInv
  <2>6. embedded = "loaded" /\ ~flash => Within(ReadyTimer, timers')
    BY <2>2, <2>3 DEF DueInv
  <2> QED
    BY <2>1, <2>5, <2>6 DEF DueInv, Within
<1>6. ASSUME NEW throws \in BOOLEAN, HandleEvent(throws) PROVE DueInv'
  BY <1>2, <1>6 DEF HandleEvent, flashVars
<1>7. CASE FlashLoads
  <2>1. /\ timers' = Append(timers, ReadyTimer)
        /\ UNCHANGED <<createTask, flash, flashTasks, flashEvents>>
    BY <1>7 DEF FlashLoads
  <2>2. Within(ReadyTimer, timers') /\ \A timer : Within(timer, timers) => Within(timer, timers')
    BY <1>0, <2>1, TimersDiffer, WithinAppend
  <2> QED
    BY <2>1, <2>2 DEF DueInv, Within
<1>8. ASSUME NEW s \in Sockets, FlashOpens(s) \/ FlashReceives(s) \/ FlashEnds(s) PROVE DueInv'
  <2>1. /\ timers' = Append(timers, ReceiveTimer)
        /\ UNCHANGED <<createTask, flash, flashTasks, embedded>>
    BY <1>8 DEF FlashOpens, FlashReceives, FlashEnds, Emit
  <2>2. Within(ReceiveTimer, timers') /\ \A timer : Within(timer, timers) => Within(timer, timers')
    BY <1>0, <2>1, TimersDiffer, WithinAppend
  <2> QED
    BY <2>1, <2>2 DEF DueInv, Within
<1>9. CASE UNCHANGED vars
  BY <1>2, <1>9 DEF vars, pageVars, flashVars
<1> QED
  BY <1>1, <1>3, <1>4, <1>5, <1>6, <1>7, <1>8, <1>9, CloseDue, RunCreateDue, RunReadyDue DEF Next

LEMMA DueInit == Init => DueInv
BY DEF Init, DueInv

-----------------------------------------------------------------------------
(***************************************************************************)
(* CreatedOnce                                                             *)
(***************************************************************************)

(* An element stands at most once, or nowhere, in a queue.                 *)
Once(q, x) == \A m, n \in 1 .. Len(q) : q[m] = x /\ q[n] = x => m = n

Never(q, x) == \A n \in 1 .. Len(q) : q[n] # x

(* What CreatedOnce says of one socket, and that one that was not          *)
(* constructed is not known anywhere.                                      *)
Sound(s) ==
    /\ Once(timers, CreateTimer(s)) /\ Once(flashTasks, s)
    /\ remote[s] # "none" =>
           flash /\ Never(timers, CreateTimer(s)) /\ Never(flashTasks, s) /\ s \notin createTask
    /\ ~Never(timers, CreateTimer(s)) => Never(flashTasks, s) /\ s \in createTask
    /\ s \in createTask <=> readyState[s] = "CONNECTING" /\ remote[s] = "none"
    /\ readyState[s] \in {"CONNECTING", "OPEN", "CLOSING"} /\ s \notin createTask
           => remote[s] # "none"
    /\ readyState[s] = "none" =>
           Never(timers, CreateTimer(s)) /\ Never(flashTasks, s) /\ remote[s] = "none"

(* An event that is not handled yet is of a socket that Flash knows.       *)
Known(events) == \A n \in 1 .. Len(events) : remote[events[n].socket] # "none"

CreatedInv == (\A s \in Sockets : Sound(s)) /\ Known(batch) /\ Known(flashEvents)

(* CreatedOnce follows.                                                    *)
LEMMA SoundSuffices ==
    ASSUME TypeOK, DueInv, CreatedInv
    PROVE  CreatedOnce
<1> SUFFICES ASSUME NEW s \in Sockets
             PROVE  /\ \A m, n \in Pending(s) : m = n
                    /\ \A m, n \in Kept(s) : m = n
                    /\ remote[s] # "none" =>
                           flash /\ Pending(s) = {} /\ Kept(s) = {} /\ s \notin createTask
                    /\ Pending(s) # {} => Kept(s) = {} /\ s \in createTask
                    /\ s \in createTask <=> readyState[s] = "CONNECTING" /\ remote[s] = "none"
                    /\ s \in createTask =>
                           \/ Pending(s) # {}
                           \/ Kept(s) # {} /\ ~flash /\ (embedded = "loaded" => IsDue(ReadyTimer))
                    /\ readyState[s] \in {"CONNECTING", "OPEN", "CLOSING"} /\ s \notin createTask
                           => remote[s] # "none"
  BY DEF CreatedOnce
<1>1. DOMAIN timers = 1 .. Len(timers) /\ DOMAIN flashTasks = 1 .. Len(flashTasks)
  BY DEF TypeOK
<1>2. /\ Never(timers, CreateTimer(s)) <=> Pending(s) = {}
      /\ Once(timers, CreateTimer(s)) <=> \A m, n \in Pending(s) : m = n
  BY <1>1 DEF Never, Once, Pending
<1>3. /\ Never(flashTasks, s) <=> Kept(s) = {}
      /\ Once(flashTasks, s) <=> \A m, n \in Kept(s) : m = n
  BY <1>1 DEF Never, Once, Kept
<1>4. Sound(s)
  BY DEF CreatedInv
<1>5. s \in createTask =>
          \/ Pending(s) # {}
          \/ Kept(s) # {} /\ ~flash /\ (embedded = "loaded" => IsDue(ReadyTimer))
  BY <1>1, IsDueIn DEF DueInv, Within, Pending, Kept
<1> QED
  BY <1>2, <1>3, <1>4, <1>5 DEF Sound

(* Another element appended changes nothing; the first of its kind is one. *)
LEMMA OnceAppend ==
    ASSUME NEW X, NEW q \in Seq(X), NEW x \in X, NEW y \in X
    PROVE  /\ x # y => /\ Once(Append(q, y), x) <=> Once(q, x)
                       /\ Never(Append(q, y), x) <=> Never(q, x)
           /\ Never(q, x) => Once(Append(q, x), x)
<1>1. /\ Len(Append(q, y)) = Len(q) + 1 /\ Append(q, y)[Len(q) + 1] = y
      /\ \A n \in 1 .. Len(q) : Append(q, y)[n] = q[n]
      /\ Len(q) \in Nat
  OBVIOUS
<1>2. /\ Len(Append(q, x)) = Len(q) + 1 /\ Append(q, x)[Len(q) + 1] = x
      /\ \A n \in 1 .. Len(q) : Append(q, x)[n] = q[n]
  OBVIOUS
<1>3. \A n \in 1 .. Len(q) + 1 : n \in 1 .. Len(q) \/ n = Len(q) + 1
  BY <1>1
<1>4. \A n \in 1 .. Len(q) : n \in 1 .. Len(q) + 1
  BY <1>1
<1> DEFINE u == Append(q, y)  v == Append(q, x)
<1> HIDE DEF u, v
<1>5. x # y => (Never(u, x) <=> Never(q, x))
  BY <1>1, <1>3, <1>4 DEF Never, u
<1>6. x # y => (Once(u, x) <=> Once(q, x))
  BY <1>1, <1>3, <1>4 DEF Once, u
<1>7. Never(q, x) => Once(v, x)
  BY <1>2, <1>3 DEF Never, Once, v
<1> QED
  BY <1>5, <1>6, <1>7 DEF u, v

(* What is in the tail was in the queue, and the only one may be its head. *)
LEMMA OnceTail ==
    ASSUME NEW X, NEW q \in Seq(X), q # <<>>, NEW x
    PROVE  /\ Once(q, x) => Once(Tail(q), x)
           /\ Never(q, x) => Never(Tail(q), x)
           /\ Once(q, x) /\ Head(q) = x => Never(Tail(q), x)
           /\ Head(q) = x => ~Never(q, x)
<1> DEFINE t == Tail(q)
<1>1. /\ Head(q) = q[1] /\ 1 \in 1 .. Len(q)
      /\ \A n \in 1 .. Len(t) : t[n] = q[n + 1] /\ n + 1 \in 1 .. Len(q) /\ n + 1 # 1 /\ n \in Int
  BY TailFacts
<1> HIDE DEF t
<1>2. \A m, n \in 1 .. Len(t) : m + 1 = n + 1 => m = n
  BY <1>1
<1>3. Once(q, x) => Once(t, x)
  BY <1>1, <1>2 DEF Once
<1>4. Never(q, x) => Never(t, x)
  BY <1>1 DEF Never
<1>5. Once(q, x) /\ Head(q) = x => Never(t, x)
  BY <1>1 DEF Once, Never
<1>6. Head(q) = x => ~Never(q, x)
  BY <1>1 DEF Never
<1> QED
  BY <1>3, <1>4, <1>5, <1>6 DEF t

(* What is selected of a queue was in it.                                  *)
LEMMA OnceAmong ==
    ASSUME NEW X, NEW q \in Seq(X), NEW S, NEW x
    PROVE  /\ Once(q, x) => Once(Among(q, S), x)
           /\ Never(q, x) => Never(Among(q, S), x)
           /\ x \notin S => Never(Among(q, S), x)
<1> DEFINE a == Among(q, S)
<1>1. PICK h \in [1 .. Len(a) -> 1 .. Len(q)] :
          /\ \A n \in 1 .. Len(a) : a[n] = q[h[n]]
          /\ \A m, n \in 1 .. Len(a) : m < n => h[m] < h[n]
  BY AmongFrom
<1>2. a \in Seq(X \cap S)
  BY AmongType
<1> HIDE DEF a
<1>3. ASSUME NEW n \in 1 .. Len(a) PROVE h[n] \in 1 .. Len(q) /\ a[n] \in S /\ n \in Int /\ h[n] \in Int
  <2>1. h[n] \in 1 .. Len(q)
    BY <1>1
  <2>2. a[n] \in X \cap S
    BY <1>2
  <2> QED
    BY <2>1, <2>2
<1>4. ASSUME NEW m \in 1 .. Len(a), NEW n \in 1 .. Len(a), h[m] = h[n] PROVE m = n
  <2>1. ~(m < n) /\ ~(n < m)
    BY <1>1, <1>3, <1>4
  <2> QED
    BY <1>3, <2>1
<1>5. Once(q, x) => Once(a, x)
  BY <1>1, <1>3, <1>4 DEF Once
<1>6. Never(q, x) => Never(a, x)
  BY <1>1, <1>3 DEF Never
<1>7. x \notin S => Never(a, x)
  BY <1>3 DEF Never
<1> QED
  BY <1>5, <1>6, <1>7 DEF a

(* Creating sockets in Flash of which no creation is left keeps each of    *)
(* them sound, given what is left of the others.                           *)
LEMMA CreateSound ==
    ASSUME TypeOK, TypeOK', NEW S, Create(S), flash', readyState' = readyState,
           NEW s \in Sockets, Sound(s),
           Once(timers', CreateTimer(s)), Once(flashTasks', s),
           s \in S => /\ Never(timers', CreateTimer(s)) /\ Never(flashTasks', s)
                      /\ readyState[s] # "none",
           Never(timers, CreateTimer(s)) => Never(timers', CreateTimer(s)),
           Never(flashTasks, s) => Never(flashTasks', s)
    PROVE  Sound(s)'
<1>1. CASE s \in S
  <2>1. remote'[s] = "CONNECTING" /\ s \notin createTask'
    BY <1>1 DEF Create
  <2> QED
    BY <1>1, <2>1 DEF Sound
<1>2. CASE s \notin S
  <2>1. remote'[s] = remote[s] /\ (s \in createTask' <=> s \in createTask)
    BY <1>2 DEF Create
  <2> QED
    BY <1>2, <2>1 DEF Sound
<1> QED
  BY <1>1, <1>2

(* Nothing is forgotten by Flash.                                          *)
LEMMA KnownStays ==
    ASSUME TypeOK, NEW events \in Seq(Events), Known(events),
           \A s \in Sockets : remote[s] # "none" => remote'[s] # "none"
    PROVE  \A n \in 1 .. Len(events) : remote'[events[n].socket] # "none"
<1> TAKE n \in 1 .. Len(events)
<1>1. events[n] \in Events
  OBVIOUS
<1>2. events[n].socket \in Sockets
  BY <1>1 DEF Events
<1> QED
  BY <1>2 DEF Known

(* Steps that leave the events alone and make Flash forget no socket.      *)
LEMMA EventsKept ==
    ASSUME TypeOK, CreatedInv, batch' = batch, flashEvents' = flashEvents,
           \A s \in Sockets : Sound(s)',
           \A s \in Sockets : remote[s] # "none" => remote'[s] # "none"
    PROVE  CreatedInv'
<1>1. /\ \A n \in 1 .. Len(batch) : remote'[batch[n].socket] # "none"
      /\ \A n \in 1 .. Len(flashEvents) : remote'[flashEvents[n].socket] # "none"
  BY KnownStays DEF TypeOK, CreatedInv
<1> QED
  BY <1>1 DEF CreatedInv, Known

(* The page's calls.                                                       *)
LEMMA ConstructCreated ==
    ASSUME TypeOK, TypeOK', CreatedInv, NEW t \in Sockets, Construct(t)
    PROVE  CreatedInv'
<1>1. ASSUME NEW s \in Sockets PROVE Sound(s)'
  <2>0. Sound(s)
    BY DEF CreatedInv
  <2>1. timers' = Append(timers, CreateTimer(t)) /\ timers \in Seq(Timers)
    BY DEF Construct, TypeOK
  <2>2. CASE s = t
    <3>1. Never(timers, CreateTimer(s)) /\ Never(flashTasks, s) /\ remote[s] = "none"
          /\ s \notin createTask
      BY <2>0, <2>2 DEF Sound, Construct
    <3>2. Once(timers', CreateTimer(s))
      BY <2>1, <2>2, <3>1, OnceAppend, TimersDiffer
    <3>3. readyState'[s] = "CONNECTING" /\ s \in createTask'
      BY <2>2 DEF Construct, TypeOK
    <3>4. UNCHANGED <<flash, flashTasks, remote>>
      BY DEF Construct, flashVars
    <3> QED
      BY <2>0, <3>1, <3>2, <3>3, <3>4 DEF Sound
  <2>3. CASE s # t
    <3>1. CreateTimer(s) # CreateTimer(t) /\ CreateTimer(s) \in Timers /\ CreateTimer(t) \in Timers
      BY <2>3, TimersDiffer
    <3>2. /\ Once(timers', CreateTimer(s)) <=> Once(timers, CreateTimer(s))
          /\ Never(timers', CreateTimer(s)) <=> Never(timers, CreateTimer(s))
      BY <2>1, <3>1, OnceAppend
    <3>3. readyState'[s] = readyState[s] /\ (s \in createTask' <=> s \in createTask)
      BY <2>3 DEF Construct, TypeOK
    <3>4. UNCHANGED <<flash, flashTasks, remote>>
      BY DEF Construct, flashVars
    <3> QED
      BY <2>0, <3>2, <3>3, <3>4 DEF Sound
  <2> QED
    BY <2>2, <2>3
<1> QED
  BY <1>1, EventsKept DEF Construct, flashVars, eventVars

LEMMA CloseBeforeCreated ==
    ASSUME TypeOK, TypeOK', CreatedInv, NEW t \in Sockets, CloseBefore(t)
    PROVE  CreatedInv'
<1>0. /\ UNCHANGED <<flash, flashTasks, remote, batch, flashEvents>>
      /\ timers' = Among(timers, Timers \ {CreateTimer(t)}) /\ timers \in Seq(Timers)
      /\ createTask' = createTask \ {t} /\ readyState' = [readyState EXCEPT ![t] = "CLOSED"]
      /\ t \in createTask /\ readyState \in [Sockets -> States]
  BY DEF CloseBefore, Without, flashVars, eventVars, TypeOK
<1>1. ASSUME NEW s \in Sockets PROVE Sound(s)'
  <2>0. Sound(s)
    BY DEF CreatedInv
  <2>1. /\ Once(timers, CreateTimer(s)) => Once(timers', CreateTimer(s))
        /\ Never(timers, CreateTimer(s)) => Never(timers', CreateTimer(s))
    BY <1>0, OnceAmong
  <2>2. CASE s = t
    <3>1. remote[s] = "none"
      BY <1>0, <2>0, <2>2 DEF Sound
    <3>2. readyState'[s] = "CLOSED" /\ s \notin createTask'
      BY <1>0, <2>2
    <3>3. Never(timers', CreateTimer(s))
      BY <1>0, <2>2, OnceAmong
    <3> QED
      BY <1>0, <2>0, <2>1, <3>1, <3>2, <3>3 DEF Sound
  <2>3. CASE s # t
    <3>1. readyState'[s] = readyState[s] /\ (s \in createTask' <=> s \in createTask)
      BY <1>0, <2>3
    <3> QED
      BY <1>0, <2>0, <2>1, <3>1 DEF Sound
  <2> QED
    BY <2>2, <2>3
<1> QED
  BY <1>0, <1>1, EventsKept

LEMMA CloseFlashCreated ==
    ASSUME TypeOK, TypeOK', CreatedInv, NEW t \in Sockets, CloseFlash(t)
    PROVE  CreatedInv'
<1>0. /\ UNCHANGED <<flash, flashTasks, timers, createTask, batch, flashEvents>>
      /\ remote' = [remote EXCEPT ![t] = IF @ = "CLOSED" THEN @ ELSE "CLOSING"]
      /\ readyState' = [readyState EXCEPT ![t] = "CLOSING"]
      /\ t \notin createTask /\ readyState[t] \in {"CONNECTING", "OPEN"}
      /\ readyState \in [Sockets -> States] /\ remote \in [Sockets -> States]
  BY DEF CloseFlash, eventVars, TypeOK
<1>1. remote[t] # "none"
  BY <1>0 DEF CreatedInv, Sound
<1>2. \A s \in Sockets : remote'[s] # "none" <=> remote[s] # "none"
  BY <1>0, <1>1
<1>3. ASSUME NEW s \in Sockets PROVE Sound(s)'
  <2>0. Sound(s)
    BY DEF CreatedInv
  <2>1. s # t => readyState'[s] = readyState[s]
    BY <1>0
  <2>2. s = t => readyState'[s] = "CLOSING"
    BY <1>0
  <2> QED
    BY <1>0, <1>1, <1>2, <2>0, <2>1, <2>2 DEF Sound
<1> QED
  BY <1>0, <1>2, <1>3, EventsKept

(* The tasks.                                                              *)
LEMMA RunCreateCreated ==
    ASSUME TypeOK, TypeOK', CreatedInv, RunCreate
    PROVE  CreatedInv'
<1>0. PICK t \in Sockets : Head(timers) = CreateTimer(t) /\ AddTask(t)
  BY DEF RunCreate
<1>1. /\ timers # <<>> /\ timers' = Tail(timers) /\ timers \in Seq(Timers)
      /\ flashTasks \in Seq(Sockets)
      /\ UNCHANGED <<readyState, flash, batch, flashEvents>>
  BY DEF RunCreate, RunTimer, eventVars, TypeOK
<1>2. ASSUME NEW s \in Sockets
      PROVE  /\ Once(timers, CreateTimer(s)) => Once(timers', CreateTimer(s))
             /\ Never(timers, CreateTimer(s)) => Never(timers', CreateTimer(s))
             /\ Once(timers, CreateTimer(s)) /\ s = t =>
                    Never(timers', CreateTimer(s)) /\ ~Never(timers, CreateTimer(s))
  BY <1>0, <1>1, OnceTail
<1>3. Sound(t)
  BY DEF CreatedInv
<1>4. Never(timers', CreateTimer(t)) /\ Never(flashTasks, t) /\ remote[t] = "none"
      /\ readyState[t] # "none"
  BY <1>2, <1>3 DEF Sound
<1>5. CASE flash
  <2>1. Create({t}) /\ flashTasks' = flashTasks
    BY <1>0, <1>5 DEF AddTask
  <2>2. ASSUME NEW s \in Sockets PROVE Sound(s)'
    <3>1. Sound(s)
      BY DEF CreatedInv
    <3>2. Once(timers', CreateTimer(s)) /\ Once(flashTasks', s)
      BY <1>2, <2>1, <3>1 DEF Sound
    <3>3. s \in {t} => /\ Never(timers', CreateTimer(s)) /\ Never(flashTasks', s)
                       /\ readyState[s] # "none"
      BY <1>4, <2>1
    <3> QED
      BY <1>1, <1>2, <1>5, <2>1, <3>1, <3>2, <3>3, CreateSound
  <2>3. \A s \in Sockets : remote[s] # "none" => remote'[s] # "none"
    BY <2>1 DEF Create
  <2> QED
    BY <1>1, <2>2, <2>3, EventsKept
<1>6. CASE ~flash
  <2>1. flashTasks' = Append(flashTasks, t) /\ UNCHANGED <<createTask, remote>>
    BY <1>0, <1>6 DEF AddTask
  <2>2. ASSUME NEW s \in Sockets PROVE Sound(s)'
    <3>1. Sound(s)
      BY DEF CreatedInv
    <3>2. CASE s = t
      <4>1. Once(flashTasks', t)
        BY <1>1, <1>4, <2>1, OnceAppend
      <4> QED
        BY <1>1, <1>2, <1>4, <2>1, <3>1, <3>2, <4>1 DEF Sound
    <3>3. CASE s # t
      <4>1. /\ Once(flashTasks', s) <=> Once(flashTasks, s)
            /\ Never(flashTasks', s) <=> Never(flashTasks, s)
        BY <1>1, <2>1, <3>3, OnceAppend
      <4> QED
        BY <1>1, <1>2, <2>1, <3>1, <4>1 DEF Sound
    <3> QED
      BY <3>2, <3>3
  <2> QED
    BY <1>1, <2>1, <2>2, EventsKept
<1> QED
  BY <1>5, <1>6

LEMMA RunReadyCreated ==
    ASSUME TypeOK, TypeOK', CreatedInv, RunReady
    PROVE  CreatedInv'
<1> DEFINE S == {flashTasks[n] : n \in DOMAIN flashTasks}
<1>1. /\ timers # <<>> /\ timers' = Tail(timers) /\ timers \in Seq(Timers)
      /\ flashTasks \in Seq(Sockets) /\ flashTasks' = <<>> /\ flash' /\ Create(S)
      /\ UNCHANGED <<readyState, batch, flashEvents>>
  BY DEF RunReady, RunTimer, eventVars, TypeOK
<1>2. DOMAIN flashTasks = 1 .. Len(flashTasks) /\ Len(flashTasks') = 0
  BY <1>1
<1>3. ASSUME NEW s \in Sockets PROVE Sound(s)'
  <2>1. Sound(s)
    BY DEF CreatedInv
  <2>2. /\ Once(timers, CreateTimer(s)) => Once(timers', CreateTimer(s))
        /\ Never(timers, CreateTimer(s)) => Never(timers', CreateTimer(s))
    BY <1>1, OnceTail
  <2>3. Once(flashTasks', s) /\ Never(flashTasks', s)
    BY <1>2 DEF Once, Never
  <2>4. s \in S => ~Never(flashTasks, s)
    BY <1>2 DEF Never
  <2>5. s \in S => /\ Never(timers', CreateTimer(s)) /\ Never(flashTasks', s)
                   /\ readyState[s] # "none"
    BY <2>1, <2>2, <2>3, <2>4 DEF Sound
  <2>6. Once(timers', CreateTimer(s))
    BY <2>1, <2>2 DEF Sound
  <2> HIDE DEF S
  <2> QED
    BY <1>1, <2>1, <2>2, <2>3, <2>5, <2>6, CreateSound
<1>4. \A s \in Sockets : remote[s] # "none" => remote'[s] # "none"
  BY <1>1 DEF Create
<1> QED
  BY <1>1, <1>3, <1>4, EventsKept

LEMMA RunReceiveCreated ==
    ASSUME TypeOK, TypeOK', CreatedInv, RunReceive
    PROVE  CreatedInv'
<1>1. /\ timers # <<>> /\ timers' = Tail(timers) /\ timers \in Seq(Timers)
      /\ batch' = flashEvents /\ flashEvents' = <<>>
      /\ UNCHANGED <<readyState, createTask, flash, flashTasks, remote>>
  BY DEF RunReceive, RunTimer, TypeOK
<1>2. ASSUME NEW s \in Sockets PROVE Sound(s)'
  <2>1. Sound(s)
    BY DEF CreatedInv
  <2>2. /\ Once(timers, CreateTimer(s)) => Once(timers', CreateTimer(s))
        /\ Never(timers, CreateTimer(s)) => Never(timers', CreateTimer(s))
    BY <1>1, OnceTail
  <2> QED
    BY <1>1, <2>1, <2>2 DEF Sound
<1>3. Known(flashEvents)' /\ Known(batch)'
  <2>1. Len(flashEvents') = 0
    BY <1>1
  <2> QED
    BY <1>1, <2>1 DEF Known, CreatedInv
<1> QED
  BY <1>2, <1>3 DEF CreatedInv

LEMMA HandleEventCreated ==
    ASSUME TypeOK, TypeOK', CreatedInv, NEW throws \in BOOLEAN, HandleEvent(throws)
    PROVE  CreatedInv'
<1> DEFINE event == Head(batch)
<1>1. /\ batch # <<>> /\ batch \in Seq(Events)
      /\ readyState' = [readyState EXCEPT ![event.socket] = event.readyState]
      /\ batch' = IF throws THEN <<>> ELSE Tail(batch)
      /\ UNCHANGED <<timers, createTask, flash, flashTasks, remote, flashEvents>>
  BY DEF HandleEvent, flashVars, TypeOK
<1>2. /\ event \in Events /\ event = batch[1] /\ 1 \in 1 .. Len(batch)
      /\ \A n \in 1 .. Len(Tail(batch)) : Tail(batch)[n] = batch[n + 1] /\ n + 1 \in 1 .. Len(batch)
  BY <1>1, TailFacts
<1>3. event.socket \in Sockets /\ event.readyState # "none" /\ remote[event.socket] # "none"
  <2>1. remote[event.socket] # "none"
    BY <1>2 DEF CreatedInv, Known
  <2> QED
    BY <1>2, <2>1 DEF Events
<1> HIDE DEF event
<1>4. ASSUME NEW s \in Sockets PROVE Sound(s)'
  <2>1. Sound(s)
    BY DEF CreatedInv
  <2>2. CASE s = event.socket
    <3>1. readyState'[s] # "none"
      BY <1>1, <1>3, <2>2 DEF TypeOK
    <3> QED
      BY <1>1, <1>3, <2>1, <2>2, <3>1 DEF Sound
  <2>3. CASE s # event.socket
    <3>1. readyState'[s] = readyState[s]
      BY <1>1, <2>3 DEF TypeOK
    <3> QED
      BY <1>1, <2>1, <3>1 DEF Sound
  <2> QED
    BY <2>2, <2>3
<1>5. Known(batch)'
  <2>1. CASE throws
    <3>1. Len(batch') = 0
      BY <1>1, <2>1
    <3> QED
      BY <3>1 DEF Known
  <2>2. CASE ~throws
    <3>1. batch' = Tail(batch)
      BY <1>1, <2>2
    <3>2. \A n \in 1 .. Len(Tail(batch)) : remote[Tail(batch)[n].socket] # "none"
      BY <1>2 DEF CreatedInv, Known
    <3> QED
      BY <1>1, <3>1, <3>2 DEF Known
  <2> QED
    BY <2>1, <2>2
<1>6. Known(flashEvents)'
  BY <1>1 DEF CreatedInv, Known
<1> QED
  BY <1>4, <1>5, <1>6 DEF CreatedInv

(* What Flash does.                                                        *)
LEMMA AnnounceSound ==
    ASSUME TypeOK, NEW timer \in {ReadyTimer, ReceiveTimer}, timers' = Append(timers, timer),
           UNCHANGED <<readyState, createTask, flash, flashTasks>>,
           \A s \in Sockets : remote'[s] = "none" <=> remote[s] = "none",
           NEW s \in Sockets, Sound(s)
    PROVE  Sound(s)'
<1>1. /\ Once(timers', CreateTimer(s)) <=> Once(timers, CreateTimer(s))
      /\ Never(timers', CreateTimer(s)) <=> Never(timers, CreateTimer(s))
  <2>1. CreateTimer(s) # timer /\ CreateTimer(s) \in Timers /\ timer \in Timers
    BY TimersDiffer
  <2>2. timers \in Seq(Timers)
    BY DEF TypeOK
  <2> QED
    BY <2>1, <2>2, OnceAppend
<1> QED
  BY <1>1 DEF Sound

LEMMA EmitCreated ==
    ASSUME TypeOK, TypeOK', CreatedInv, NEW t \in Sockets, remote[t] # "none",
           NEW type \in {"open", "message", "end"}, NEW state \in States \ {"none"},
           Emit(t, type, state)
    PROVE  CreatedInv'
<1> DEFINE event == [socket |-> t, type |-> type, number |-> Len(emitted) + 1, readyState |-> state]
<1>1. /\ remote' = [remote EXCEPT ![t] = state] /\ flashEvents' = Append(flashEvents, event)
      /\ timers' = Append(timers, ReceiveTimer) /\ remote \in [Sockets -> States]
      /\ UNCHANGED <<readyState, createTask, flash, flashTasks, batch>>
  BY DEF Emit, eventVars, TypeOK
<1>2. \A s \in Sockets : remote'[s] = "none" <=> remote[s] = "none"
  BY <1>1
<1>3. \A s \in Sockets : Sound(s)'
  BY <1>1, <1>2, AnnounceSound DEF CreatedInv
<1>4. /\ \A n \in 1 .. Len(batch) : remote'[batch[n].socket] # "none"
      /\ \A n \in 1 .. Len(flashEvents) : remote'[flashEvents[n].socket] # "none"
  BY <1>2, KnownStays DEF TypeOK, CreatedInv
<1>5. event.socket = t /\ flashEvents \in Seq(Events) /\ event \in Events
  BY DEF TypeOK, Events
<1> HIDE DEF event
<1>6. ASSUME NEW n \in 1 .. Len(flashEvents') PROVE remote'[flashEvents'[n].socket] # "none"
  <2>1. n \in 1 .. Len(flashEvents) \/ n = Len(flashEvents) + 1
    BY <1>1, <1>5, AppendFacts
  <2>2. CASE n \in 1 .. Len(flashEvents)
    BY <1>1, <1>4, <1>5, <2>2, AppendFacts
  <2>3. CASE n = Len(flashEvents) + 1
    <3>1. flashEvents'[n] = event
      BY <1>1, <1>5, <2>3, AppendFacts
    <3> QED
      BY <1>2, <1>5, <3>1
  <2> QED
    BY <2>1, <2>2, <2>3
<1> QED
  BY <1>1, <1>3, <1>4, <1>6 DEF CreatedInv, Known

(* Every step keeps it.                                                    *)
LEMMA CreatedStep == TypeOK /\ TypeOK' /\ CreatedInv /\ [Next]_vars => CreatedInv'
<1> SUFFICES ASSUME TypeOK, TypeOK', CreatedInv, [Next]_vars PROVE CreatedInv'
  OBVIOUS
<1>1. ASSUME UNCHANGED <<readyState, createTask, flash, flashTasks, timers, remote, batch, flashEvents>>
      PROVE  CreatedInv'
  BY <1>1 DEF CreatedInv, Sound, Known, Once, Never
<1>2. ASSUME NEW s \in Sockets, Send(s) PROVE CreatedInv'
  BY <1>1, <1>2 DEF Send, eventVars, flashVars
<1>3. ASSUME NEW located \in BOOLEAN, Initialize(located) PROVE CreatedInv'
  BY <1>1, <1>3 DEF Initialize, eventVars
<1>4. CASE FlashLoads
  <2>1. /\ timers' = Append(timers, ReadyTimer)
        /\ UNCHANGED <<readyState, createTask, flash, flashTasks, remote, batch, flashEvents>>
    BY <1>4 DEF FlashLoads, eventVars
  <2>2. \A s \in Sockets : Sound(s)'
    BY <2>1, AnnounceSound DEF CreatedInv
  <2> QED
    BY <2>1, <2>2, EventsKept
<1>5. ASSUME NEW s \in Sockets, FlashOpens(s) \/ FlashReceives(s) \/ FlashEnds(s) PROVE CreatedInv'
  BY <1>5, FlashEmits, EmitCreated
<1>6. CASE UNCHANGED vars
  BY <1>1, <1>6 DEF vars, pageVars, eventVars, flashVars
<1> QED
  BY <1>2, <1>3, <1>4, <1>5, <1>6, ConstructCreated, CloseBeforeCreated, CloseFlashCreated,
     RunCreateCreated, RunReadyCreated, RunReceiveCreated, HandleEventCreated DEF Next, Close

(* It holds before anything was constructed.                               *)
LEMMA CreatedInit == Init => CreatedInv
<1> SUFFICES ASSUME Init PROVE CreatedInv
  OBVIOUS
<1>1. Len(timers) = 0 /\ Len(flashTasks) = 0 /\ Len(batch) = 0 /\ Len(flashEvents) = 0
  BY DEF Init
<1> QED
  BY <1>1 DEF Init, CreatedInv, Sound, Known, Once, Never

(* CreatedOnceAlways: however the page constructs and closes sockets,      *)
(* before, while and after Flash loads, each is created there at most once,*)
(* when Flash is there, one that waits has what will create it, and close  *)
(* never names one that Flash does not know.                               *)
THEOREM CreatedOnceAlways == Spec => []CreatedOnce
<1>1. Init => TypeOK /\ DueInv /\ CreatedInv
  BY TypeInit, DueInit, CreatedInit
<1>2. (TypeOK /\ DueInv /\ CreatedInv) /\ [Next]_vars => (TypeOK /\ DueInv /\ CreatedInv)'
  BY TypeStep, DueStep, CreatedStep
<1>3. TypeOK /\ DueInv /\ CreatedInv => CreatedOnce
  BY SoundSuffices
<1> QED
  BY <1>1, <1>2, <1>3, PTL DEF Spec
-----------------------------------------------------------------------------
(***************************************************************************)
(* InOrder                                                                 *)
(***************************************************************************)

(* Events have the numbers Flash gave them; dropped ones are of Flash.     *)
Numbered ==
    /\ \A n \in 1 .. Len(emitted) : emitted[n].number = n
    /\ \A event \in dropped : event.number \in 1 .. Len(emitted)

(* InOrder without what is due.                                            *)
Ordered == Among(emitted, Events \ dropped) = handled \o batch \o flashEvents

OrderInv == Ordered /\ Numbered

(* The facts about sequences, for sequences of events.                     *)
LEMMA EventsConcat ==
    ASSUME NEW X
    PROVE  \A s, t \in Seq(Events) : Among(s \o t, X) = Among(s, X) \o Among(t, X)
BY AmongConcat

LEMMA EventsAppend ==
    \A s, t \in Seq(Events), x \in Events : Append(s \o t, x) = s \o Append(t, x)
<1> SUFFICES ASSUME NEW s \in Seq(Events), NEW t \in Seq(Events), NEW x \in Events
             PROVE  Append(s \o t, x) = s \o Append(t, x)
  OBVIOUS
<1> QED
  OBVIOUS

(* The events that are handled, being handled and kept by Flash are in the *)
(* order of their numbers, which are those that Flash gave.                *)
LEMMA Ascending ==
    ASSUME TypeOK, OrderInv
    PROVE  LET q == handled \o batch \o flashEvents
           IN  /\ \A m, n \in 1 .. Len(q) : m < n => q[m].number < q[n].number
               /\ \A n \in 1 .. Len(q) : q[n].number \in 1 .. Len(emitted)
              /\ \A n \in 1 .. Len(q) : q[n] = emitted[q[n].number]
<1> DEFINE q == handled \o batch \o flashEvents
           kept == Events \ dropped
<1>1. q = Among(emitted, kept)
  BY DEF OrderInv, Ordered
<1> HIDE DEF q, kept
<1>2. PICK h \in [1 .. Len(q) -> 1 .. Len(emitted)] :
          /\ \A n \in 1 .. Len(q) : q[n] = emitted[h[n]]
          /\ \A m, n \in 1 .. Len(q) : m < n => h[m] < h[n]
  <2>1. emitted \in Seq(Events)
    BY DEF TypeOK
  <2>2. \E h \in [1 .. Len(Among(emitted, kept)) -> 1 .. Len(emitted)] :
            /\ \A n \in 1 .. Len(Among(emitted, kept)) : Among(emitted, kept)[n] = emitted[h[n]]
            /\ \A m, n \in 1 .. Len(Among(emitted, kept)) : m < n => h[m] < h[n]
    BY <2>1, AmongFrom
  <2> QED
    BY <1>1, <2>2
<1>3. ASSUME NEW n \in 1 .. Len(q)
      PROVE  q[n].number = h[n] /\ h[n] \in 1 .. Len(emitted)
  BY <1>2 DEF OrderInv, Numbered
<1>4. \A m, n \in 1 .. Len(q) : m < n => q[m].number < q[n].number
  BY <1>2, <1>3
<1>5. \A n \in 1 .. Len(q) : q[n].number \in 1 .. Len(emitted)
  BY <1>3
<1>6. \A n \in 1 .. Len(q) : q[n] = emitted[q[n].number]
  BY <1>2, <1>3
<1> QED
  BY <1>4, <1>5, <1>6 DEF q

(* A throwing listener drops what is behind the head of the batch, and     *)
(* nothing else: what was kept by Flash or handled has other numbers.      *)
LEMMA DroppedApart ==
    ASSUME TypeOK, OrderInv, batch # <<>>
    PROVE  LET D == {batch[n] : n \in 2 .. Len(batch)}
           IN  /\ \A n \in 1 .. Len(handled) : handled[n] \notin D
               /\ Head(batch) \notin D
               /\ \A n \in 1 .. Len(flashEvents) : flashEvents[n] \notin D
<1> DEFINE D == {batch[n] : n \in 2 .. Len(batch)}
           q == handled \o batch \o flashEvents
           a == Len(handled)  b == Len(batch)
<1>1. a \in Nat /\ b \in Nat /\ b > 0 /\ Len(flashEvents) \in Nat
      /\ Len(q) = a + b + Len(flashEvents)
  BY DEF TypeOK
<1>2. /\ \A n \in 1 .. a : q[n] = handled[n] /\ n \in 1 .. Len(q)
      /\ \A n \in 1 .. b : q[a + n] = batch[n] /\ a + n \in 1 .. Len(q)
      /\ \A n \in 1 .. Len(flashEvents) : q[a + b + n] = flashEvents[n] /\ a + b + n \in 1 .. Len(q)
  BY DEF TypeOK
<1>3. \A m, n \in 1 .. Len(q) : m < n => q[m].number < q[n].number
  BY Ascending
<1>4. \A n \in 1 .. Len(q) : q[n].number \in Nat
  <2>1. q \in Seq(Events)
    BY DEF TypeOK
  <2> HIDE DEF q
  <2>2. \A n \in 1 .. Len(q) : q[n] \in Events
    BY <2>1
  <2> QED
    BY <2>2 DEF Events
<1> HIDE DEF q, a, b
<1>5. ASSUME NEW m \in 1 .. Len(q), NEW n \in 1 .. Len(q), m # n PROVE q[m] # q[n]
  <2>1. m \in Int /\ n \in Int
    OBVIOUS
  <2>2. m < n \/ n < m
    BY <1>5, <2>1
  <2> QED
    BY <1>3, <1>4, <2>2
<1>6. ASSUME NEW n \in 1 .. a, NEW k \in 2 .. b PROVE handled[n] # batch[k]
  <2>1. n # a + k /\ k \in 1 .. b
    BY <1>1
  <2> QED
    BY <1>2, <1>5, <2>1
<1>7. ASSUME NEW k \in 2 .. b PROVE Head(batch) # batch[k]
  <2>1. a + 1 # a + k /\ k \in 1 .. b /\ 1 \in 1 .. b
    BY <1>1
  <2>2. Head(batch) = batch[1]
    BY TailFacts DEF TypeOK
  <2> QED
    BY <1>2, <1>5, <2>1, <2>2
<1>8. ASSUME NEW n \in 1 .. Len(flashEvents), NEW k \in 2 .. b PROVE flashEvents[n] # batch[k]
  <2>1. a + b + n # a + k /\ k \in 1 .. b
    BY <1>1
  <2>2. /\ q[a + b + n] = flashEvents[n] /\ a + b + n \in 1 .. Len(q)
        /\ q[a + k] = batch[k] /\ a + k \in 1 .. Len(q)
    BY <1>2, <2>1
  <2>3. q[a + b + n] # q[a + k]
    BY <1>5, <2>1, <2>2, Zenon
  <2> QED
    BY <2>2, <2>3, Zenon
<1> QED
  BY <1>6, <1>7, <1>8 DEF a, b

(* The loop of the receiving task.                                         *)
LEMMA HandleEventOrder ==
    ASSUME TypeOK, OrderInv, NEW throws \in BOOLEAN, HandleEvent(throws)
    PROVE  OrderInv'
<1> DEFINE event == Head(batch)  rest == Tail(batch)
<1>1. /\ batch # <<>> /\ handled' = Append(handled, event)
      /\ batch' = IF throws THEN <<>> ELSE rest
      /\ dropped' = IF throws THEN dropped \union {batch[n] : n \in 2 .. Len(batch)} ELSE dropped
      /\ UNCHANGED <<flashEvents, emitted>>
  BY DEF HandleEvent, flashVars
<1>2. /\ batch \in Seq(Events) /\ event \in Events /\ rest \in Seq(Events)
      /\ handled \in Seq(Events) /\ flashEvents \in Seq(Events) /\ emitted \in Seq(Events)
  BY <1>1, TailFacts DEF TypeOK
<1>3. Append(handled, event) = handled \o <<event>> /\ <<event>> \in Seq(Events)
  BY <1>2
<1>4. batch = <<event>> \o rest
  BY <1>1, <1>2, HeadBeforeTail
<1>5. CASE ~throws
  <2>1. (handled \o <<event>>) \o rest = handled \o (<<event>> \o rest)
    BY <1>2, <1>3, ConcatAssoc
  <2>2. handled' \o batch' \o flashEvents' = handled \o batch \o flashEvents
    BY <1>1, <1>3, <1>4, <1>5, <2>1
  <2>3. dropped' = dropped /\ emitted' = emitted
    BY <1>1, <1>5
  <2> HIDE DEF event, rest
  <2> QED
    BY <2>2, <2>3 DEF OrderInv, Ordered, Numbered
<1>6. CASE throws
  <2> DEFINE D == {batch[n] : n \in 2 .. Len(batch)}
             X == Events \ D
  <2>1. /\ \A n \in 1 .. Len(handled) : handled[n] \notin D
        /\ event \notin D
        /\ \A n \in 1 .. Len(flashEvents) : flashEvents[n] \notin D
    BY <1>1, DroppedApart
  <2>2. rest \in Seq(D)
    <3>1. \A n \in 1 .. Len(rest) : rest[n] = batch[n + 1] /\ n + 1 \in 2 .. Len(batch)
      BY <1>1, <1>2, TailFacts
    <3>2. \A n \in 1 .. Len(rest) : rest[n] \in D
      BY <3>1
    <3> HIDE DEF D, rest
    <3> QED
      BY <1>2, <3>2
  <2> HIDE DEF D
  <2>3. handled \in Seq(X) /\ flashEvents \in Seq(X) /\ <<event>> \in Seq(X)
    <3>1. \A n \in 1 .. Len(handled) : handled[n] \in X
      BY <1>2, <2>1
    <3>2. \A n \in 1 .. Len(flashEvents) : flashEvents[n] \in X
      BY <1>2, <2>1
    <3>3. event \in X
      BY <1>2, <2>1
    <3> HIDE DEF X
    <3>4. handled \in Seq(X)
      BY <1>2, <3>1
    <3>5. flashEvents \in Seq(X)
      BY <1>2, <3>2
    <3> QED
      BY <3>3, <3>4, <3>5
  <2> HIDE DEF event, rest
  <2>4. Among(batch, X) = <<event>>
    <3>1. Among(rest, X) = <<>>
      <4>1. D \cap X = {}
        OBVIOUS
      <4> QED
        BY <2>2, <4>1, AmongNone
    <3>2. Among(<<event>>, X) = <<event>>
      BY <2>3, AmongAll
    <3>3. Among(<<event>> \o rest, X) = Among(<<event>>, X) \o Among(rest, X)
      BY <1>2, <1>3, EventsConcat, Zenon
    <3> QED
      BY <1>3, <1>4, <3>1, <3>2, <3>3, ConcatEmpty
  <2>5. Among(handled, X) = handled /\ Among(flashEvents, X) = flashEvents
    BY <2>3, AmongAll
  <2>6. Among(handled \o batch \o flashEvents, X) = (handled \o <<event>>) \o flashEvents
    <3>1. handled \o batch \in Seq(Events)
      BY <1>2
    <3>2. Among((handled \o batch) \o flashEvents, X)
              = Among(handled \o batch, X) \o Among(flashEvents, X)
      BY <1>2, <3>1, EventsConcat, Zenon
    <3>3. Among(handled \o batch, X) = Among(handled, X) \o Among(batch, X)
      BY <1>2, EventsConcat, Zenon
    <3> QED
      BY <2>4, <2>5, <3>2, <3>3, Zenon
  <2>7. dropped' = dropped \union D
    BY <1>1, <1>6 DEF D
  <2>8. Among(Among(emitted, Events \ dropped), X) = Among(emitted, Events \ dropped')
    <3>1. (Events \ dropped) \cap X = Events \ dropped'
      BY <2>7
    <3> QED
      BY <1>2, <3>1, AmongAmong
  <2>9. handled' \o batch' \o flashEvents' = (handled \o <<event>>) \o flashEvents
    <3>1. (handled \o <<event>>) \o <<>> = handled \o <<event>>
      <4>1. handled \o <<event>> \in Seq(Events)
        BY <1>2, <1>3
      <4> QED
        BY <4>1, ConcatEmpty
    <3> QED
      BY <1>1, <1>3, <1>6, <3>1
  <2>10. Ordered'
    BY <1>1, <2>6, <2>8, <2>9 DEF OrderInv, Ordered
  <2>11. Numbered'
    <3>1. ASSUME NEW e \in D PROVE e.number \in 1 .. Len(emitted)
      <4> DEFINE q == handled \o batch \o flashEvents
      <4>1. PICK k \in 2 .. Len(batch) : e = batch[k]
        BY DEF D
      <4>2. q[Len(handled) + k] = batch[k] /\ Len(handled) + k \in 1 .. Len(q)
        BY <1>2
      <4>3. \A n \in 1 .. Len(q) : q[n].number \in 1 .. Len(emitted)
        BY Ascending
      <4> HIDE DEF q
      <4> QED
        BY <4>1, <4>2, <4>3
    <3> QED
      BY <1>1, <2>7, <3>1 DEF OrderInv, Numbered
  <2> QED
    BY <2>10, <2>11 DEF OrderInv
<1> QED
  BY <1>5, <1>6

(* A new event has a new number, and so was not dropped.                   *)
LEMMA EmitOrder ==
    ASSUME TypeOK, OrderInv, NEW s \in Sockets, NEW type \in {"open", "message", "end"},
           NEW state \in States \ {"none"}, Emit(s, type, state)
    PROVE  OrderInv'
<1> DEFINE event == [socket |-> s, type |-> type, number |-> Len(emitted) + 1, readyState |-> state]
<1>1. /\ flashEvents' = Append(flashEvents, event) /\ emitted' = Append(emitted, event)
      /\ UNCHANGED <<handled, batch, dropped>>
  BY DEF Emit, eventVars
<1>2. /\ event \in Events /\ event.number = Len(emitted) + 1 /\ emitted \in Seq(Events)
      /\ handled \in Seq(Events) /\ batch \in Seq(Events) /\ flashEvents \in Seq(Events)
  BY DEF TypeOK, Events
<1> HIDE DEF event
<1>3. event \notin dropped
  <2>1. Len(emitted) + 1 \notin 1 .. Len(emitted)
    BY <1>2
  <2> QED
    BY <1>2, <2>1 DEF OrderInv, Numbered
<1>4. Among(emitted', Events \ dropped') = Append(Among(emitted, Events \ dropped), event)
  <2>1. Among(Append(emitted, event), Events \ dropped)
            = AppendIf(Among(emitted, Events \ dropped), event, Events \ dropped)
    BY <1>2, AmongAppend
  <2> QED
    BY <1>1, <1>2, <1>3, <2>1 DEF AppendIf
<1>5. Append(handled \o batch \o flashEvents, event) = handled \o batch \o Append(flashEvents, event)
  <2> DEFINE before == handled \o batch
  <2>1. before \in Seq(Events)
    BY <1>2
  <2> HIDE DEF before
  <2>2. Append(before \o flashEvents, event) = before \o Append(flashEvents, event)
    BY <1>2, <2>1, EventsAppend, Zenon
  <2> QED
    BY <2>2, Zenon DEF before
<1>6. Ordered'
  BY <1>1, <1>4, <1>5 DEF OrderInv, Ordered
<1>7. Numbered'
  <2>1. Len(emitted') = Len(emitted) + 1 /\ Len(emitted) \in Nat
    BY <1>1, <1>2
  <2>2. \A n \in 1 .. Len(emitted) : emitted'[n] = emitted[n]
    BY <1>1, <1>2
  <2>3. emitted'[Len(emitted) + 1] = event
    BY <1>1, <1>2
  <2> QED
    BY <1>1, <1>2, <2>1, <2>2, <2>3 DEF OrderInv, Numbered
<1> QED
  BY <1>6, <1>7 DEF OrderInv

(* Every step keeps the order.                                             *)
LEMMA OrderStep == TypeOK /\ OrderInv /\ [Next]_vars => OrderInv'
<1> SUFFICES ASSUME TypeOK, OrderInv, [Next]_vars PROVE OrderInv'
  OBVIOUS
<1>1. ASSUME UNCHANGED <<batch, handled, dropped, flashEvents, emitted>> PROVE OrderInv'
  BY <1>1 DEF OrderInv, Ordered, Numbered
<1>2. CASE RunReceive
  <2>1. /\ batch = <<>> /\ batch' = flashEvents /\ flashEvents' = <<>>
        /\ UNCHANGED <<handled, dropped, emitted>>
    BY <1>2 DEF RunReceive, RunTimer, flashVars
  <2>2. handled \o <<>> = handled /\ (handled \o flashEvents) \o <<>> = handled \o flashEvents
    <3>1. handled \in Seq(Events) /\ handled \o flashEvents \in Seq(Events)
      BY DEF TypeOK
    <3> QED
      BY <3>1, ConcatEmpty
  <2> QED
    BY <2>1, <2>2 DEF OrderInv, Ordered, Numbered
<1>3. ASSUME NEW s \in Sockets, Construct(s) \/ Send(s) \/ Close(s) PROVE OrderInv'
  BY <1>1, <1>3 DEF Construct, Send, Close, CloseBefore, CloseFlash, eventVars, flashVars
<1>4. ASSUME NEW located \in BOOLEAN, Initialize(located) PROVE OrderInv'
  BY <1>1, <1>4 DEF Initialize, eventVars
<1>5. CASE RunCreate \/ RunReady \/ FlashLoads
  BY <1>1, <1>5 DEF RunCreate, RunReady, FlashLoads, eventVars
<1>6. ASSUME NEW s \in Sockets, FlashOpens(s) \/ FlashReceives(s) \/ FlashEnds(s) PROVE OrderInv'
  BY <1>6, FlashEmits, EmitOrder
<1>7. CASE UNCHANGED vars
  BY <1>1, <1>7 DEF vars, eventVars, flashVars
<1> QED
  BY <1>2, <1>3, <1>4, <1>5, <1>6, <1>7, HandleEventOrder DEF Next

(* Without events there is nothing to order.                               *)
LEMMA OrderInit == Init => OrderInv
<1> SUFFICES ASSUME Init PROVE OrderInv
  OBVIOUS
<1>1. /\ emitted = <<>> /\ handled = <<>> /\ batch = <<>> /\ flashEvents = <<>> /\ dropped = {}
      /\ Len(emitted) = 0
  BY DEF Init
<1>2. <<>> \o <<>> \o <<>> = <<>>
  OBVIOUS
<1> QED
  BY <1>1, <1>2, AmongEmpty DEF OrderInv, Ordered, Numbered

(* InOrderAlways: however late Flash announces its events and however many *)
(* tasks take them, the page handles them in Flash's order, each once, and *)
(* only those behind a throwing listener in its batch are lost.            *)
THEOREM InOrderAlways == Spec => []InOrder
<1>1. Init => TypeOK /\ DueInv /\ OrderInv
  BY TypeInit, DueInit, OrderInit
<1>2. (TypeOK /\ DueInv /\ OrderInv) /\ [Next]_vars => (TypeOK /\ DueInv /\ OrderInv)'
  BY TypeStep, DueStep, OrderStep
<1>3. TypeOK /\ DueInv /\ OrderInv => InOrder
  BY IsDueIn DEF DueInv, OrderInv, Ordered, InOrder
<1> QED
  BY <1>1, <1>2, <1>3, PTL DEF Spec

-----------------------------------------------------------------------------
(***************************************************************************)
(* EndStays                                                                *)
(***************************************************************************)

(* Once the page's code was told that a socket has ended, it stays closed, *)
(* whatever the page calls, and is not heard of again (lines 100-112,      *)
(* 167-193 and 330-345).                                                  *)
EndStays ==
    \A n \in 1 .. Len(handled) :
        handled[n].type = "end" =>
            /\ readyState[handled[n].socket] = "CLOSED"
            /\ \A m \in n + 1 .. Len(handled) : handled[m].socket # handled[n].socket

(* The end is the last event of its socket, which Flash knows to be closed.*)
LastIsEnd ==
    \A n \in 1 .. Len(emitted) :
        emitted[n].type = "end" =>
            /\ emitted[n].readyState = "CLOSED" /\ remote[emitted[n].socket] = "CLOSED"
            /\ \A m \in n + 1 .. Len(emitted) : emitted[m].socket # emitted[n].socket

EndInv == LastIsEnd /\ EndStays

(* So it is in what was handled or will be.                                *)
LEMMA NothingAfterEnd ==
    ASSUME TypeOK, OrderInv, LastIsEnd
    PROVE  LET q == handled \o batch \o flashEvents
           IN  \A n \in 1 .. Len(q) :
                   q[n].type = "end" =>
                       /\ q[n].readyState = "CLOSED"
                       /\ \A m \in n + 1 .. Len(q) : q[m].socket # q[n].socket
<1> DEFINE q == handled \o batch \o flashEvents
<1>1. /\ \A m, n \in 1 .. Len(q) : m < n => q[m].number < q[n].number
      /\ \A n \in 1 .. Len(q) : q[n].number \in 1 .. Len(emitted)
      /\ \A n \in 1 .. Len(q) : q[n] = emitted[q[n].number]
  BY Ascending
<1>2. Len(emitted) \in Nat /\ Len(q) \in Nat
  BY DEF TypeOK
<1> HIDE DEF q
<1>3. ASSUME NEW n \in 1 .. Len(q), q[n].type = "end"
      PROVE  /\ q[n].readyState = "CLOSED"
             /\ \A m \in n + 1 .. Len(q) : q[m].socket # q[n].socket
  <2>1. /\ q[n].number \in 1 .. Len(emitted) /\ q[n] = emitted[q[n].number]
        /\ emitted[q[n].number].type = "end"
    BY <1>1, <1>3
  <2>2. ASSUME NEW m \in n + 1 .. Len(q) PROVE q[m].socket # q[n].socket
    <3>1. m \in 1 .. Len(q) /\ n < m
      BY <1>2
    <3>2. /\ q[m].number \in 1 .. Len(emitted) /\ q[m] = emitted[q[m].number]
          /\ q[n].number < q[m].number
      BY <1>1, <3>1
    <3>3. q[m].number \in q[n].number + 1 .. Len(emitted)
      BY <1>2, <2>1, <3>2
    <3>4. emitted[q[m].number].socket # emitted[q[n].number].socket
      BY <2>1, <3>3 DEF LastIsEnd
    <3> QED
      BY <2>1, <3>2, <3>4
  <2> QED
    BY <2>1, <2>2 DEF LastIsEnd
<1> QED
  BY <1>3 DEF q

(* Steps that tell the page nothing and forget no end.                     *)
LEMMA EndKept ==
    ASSUME TypeOK, EndInv, UNCHANGED <<handled, emitted>>,
           \A s \in Sockets : remote[s] = "CLOSED" => remote'[s] = "CLOSED",
           \A s \in Sockets : readyState[s] = "CLOSED" => readyState'[s] = "CLOSED"
    PROVE  EndInv'
<1>1. ASSUME NEW n \in 1 .. Len(emitted) PROVE emitted[n].socket \in Sockets
  <2>1. emitted[n] \in Events
    BY DEF TypeOK
  <2> QED
    BY <2>1 DEF Events
<1>2. ASSUME NEW n \in 1 .. Len(handled) PROVE handled[n].socket \in Sockets
  <2>1. handled[n] \in Events
    BY DEF TypeOK
  <2> QED
    BY <2>1 DEF Events
<1>3. LastIsEnd'
  BY <1>1 DEF EndInv, LastIsEnd
<1>4. EndStays'
  BY <1>2 DEF EndInv, EndStays
<1> QED
  BY <1>3, <1>4 DEF EndInv

(* A socket that has ended is not created again.                           *)
LEMMA CreateEnds ==
    ASSUME TypeOK, CreatedInv, EndInv, NEW S \in SUBSET Sockets, Create(S),
           UNCHANGED <<readyState, handled, emitted>>,
           \A s \in S : remote[s] = "none"
    PROVE  EndInv'
<1>1. \A s \in Sockets : remote[s] = "CLOSED" => remote'[s] = "CLOSED"
  BY DEF Create
<1> QED
  BY <1>1, EndKept

(* The handling of an event: if its socket had ended, the end would be     *)
(* behind it.                                                              *)
LEMMA HandleEventEnds ==
    ASSUME TypeOK, OrderInv, EndInv, NEW throws \in BOOLEAN, HandleEvent(throws)
    PROVE  EndInv'
<1> DEFINE event == Head(batch)
           q == handled \o batch \o flashEvents
           a == Len(handled)
<1>1. /\ batch # <<>> /\ handled' = Append(handled, event)
      /\ readyState' = [readyState EXCEPT ![event.socket] = event.readyState]
      /\ UNCHANGED <<remote, emitted>>
  BY DEF HandleEvent, flashVars
<1>2. /\ event \in Events /\ event = batch[1] /\ a \in Nat
      /\ Len(batch) \in Nat /\ Len(batch) > 0 /\ Len(flashEvents) \in Nat
      /\ Len(q) = a + Len(batch) + Len(flashEvents)
  BY <1>1, TailFacts DEF TypeOK
<1>3. event.socket \in Sockets /\ readyState \in [Sockets -> States]
  BY <1>2 DEF Events, TypeOK
<1>4. /\ \A n \in 1 .. a : q[n] = handled[n]
      /\ q[a + 1] = event
  BY <1>2 DEF TypeOK
<1>5. /\ Len(handled') = a + 1 /\ handled'[a + 1] = event
      /\ \A n \in 1 .. a : handled'[n] = handled[n]
  BY <1>1 DEF TypeOK
<1>6. \A n \in 1 .. Len(q) :
          q[n].type = "end" =>
              /\ q[n].readyState = "CLOSED"
              /\ \A m \in n + 1 .. Len(q) : q[m].socket # q[n].socket
  BY NothingAfterEnd DEF EndInv
<1>7. \A n \in 1 .. a : handled[n] \in Events
  BY DEF TypeOK
<1> HIDE DEF event, q, a
<1>8. ASSUME NEW n \in 1 .. a, handled[n].type = "end"
      PROVE  /\ readyState'[handled[n].socket] = "CLOSED"
             /\ \A m \in n + 1 .. a + 1 : handled'[m].socket # handled[n].socket
  <2>1. n \in 1 .. Len(q) /\ a + 1 \in n + 1 .. Len(q) /\ q[n] = handled[n]
    BY <1>2, <1>4
  <2>2. event.socket # handled[n].socket
    BY <1>4, <1>6, <1>8, <2>1
  <2>3. handled[n].socket \in Sockets
    BY <1>7 DEF Events
  <2>4. /\ readyState[handled[n].socket] = "CLOSED"
        /\ \A m \in n + 1 .. a : handled[m].socket # handled[n].socket
    BY <1>8 DEF EndInv, EndStays, a
  <2>5. readyState'[handled[n].socket] = "CLOSED"
    BY <1>1, <1>3, <2>2, <2>3, <2>4
  <2>6. ASSUME NEW m \in n + 1 .. a + 1 PROVE handled'[m].socket # handled[n].socket
    <3>1. CASE m = a + 1
      BY <1>5, <2>2, <3>1
    <3>2. CASE m # a + 1
      <4>1. m \in n + 1 .. a /\ m \in 1 .. a
        BY <1>2, <3>2
      <4> QED
        BY <1>5, <2>4, <4>1
    <3> QED
      BY <3>1, <3>2
  <2> QED
    BY <2>5, <2>6
<1>9. event.type = "end" => readyState'[event.socket] = "CLOSED"
  <2>1. a + 1 \in 1 .. Len(q)
    BY <1>2
  <2> QED
    BY <1>1, <1>3, <1>4, <1>6, <2>1
<1>10. EndStays'
  <2> SUFFICES ASSUME NEW n \in 1 .. a + 1, handled'[n].type = "end"
               PROVE  /\ readyState'[handled'[n].socket] = "CLOSED"
                      /\ \A m \in n + 1 .. a + 1 : handled'[m].socket # handled'[n].socket
    BY <1>5 DEF EndStays
  <2>1. CASE n \in 1 .. a
    BY <1>5, <1>8, <2>1
  <2>2. CASE n = a + 1
    BY <1>2, <1>5, <1>9, <2>2
  <2> QED
    BY <1>2, <2>1, <2>2
<1>11. LastIsEnd'
  BY <1>1 DEF EndInv, LastIsEnd
<1> QED
  BY <1>10, <1>11 DEF EndInv

(* A socket that emits an event has not ended.                             *)
LEMMA EmitEnds ==
    ASSUME TypeOK, EndInv, NEW s \in Sockets, NEW type \in {"open", "message", "end"},
           NEW state \in States \ {"none"}, Emit(s, type, state),
           remote[s] # "CLOSED", type = "end" => state = "CLOSED"
    PROVE  EndInv'
<1> DEFINE event == [socket |-> s, type |-> type, number |-> Len(emitted) + 1, readyState |-> state]
           k == Len(emitted)
<1>1. /\ emitted' = Append(emitted, event) /\ remote' = [remote EXCEPT ![s] = state]
      /\ UNCHANGED <<handled, readyState>>
  BY DEF Emit, eventVars
<1>2. event.socket = s /\ event.type = type /\ event.readyState = state /\ k \in Nat
      /\ remote \in [Sockets -> States]
  BY DEF TypeOK
<1>3. /\ Len(emitted') = k + 1 /\ emitted'[k + 1] = event
      /\ \A n \in 1 .. k : emitted'[n] = emitted[n] /\ emitted[n] \in Events
  BY <1>1 DEF TypeOK
<1> HIDE DEF event, k
<1>4. ASSUME NEW n \in 1 .. k, emitted[n].type = "end"
      PROVE  /\ emitted[n].readyState = "CLOSED" /\ remote'[emitted[n].socket] = "CLOSED"
             /\ \A m \in n + 1 .. k + 1 : emitted'[m].socket # emitted[n].socket
  <2>1. /\ emitted[n].readyState = "CLOSED" /\ remote[emitted[n].socket] = "CLOSED"
        /\ \A m \in n + 1 .. k : emitted[m].socket # emitted[n].socket
    BY <1>4 DEF EndInv, LastIsEnd, k
  <2>2. emitted[n].socket \in Sockets /\ emitted[n].socket # s
    BY <1>3, <2>1 DEF Events
  <2>3. ASSUME NEW m \in n + 1 .. k + 1 PROVE emitted'[m].socket # emitted[n].socket
    <3>1. CASE m = k + 1
      BY <1>2, <1>3, <2>2, <3>1
    <3>2. CASE m # k + 1
      <4>1. m \in n + 1 .. k /\ m \in 1 .. k
        BY <1>2, <3>2
      <4> QED
        BY <1>3, <2>1, <4>1
    <3> QED
      BY <3>1, <3>2
  <2> QED
    BY <1>1, <1>2, <2>1, <2>2, <2>3
<1>5. LastIsEnd'
  <2> SUFFICES ASSUME NEW n \in 1 .. k + 1, emitted'[n].type = "end"
               PROVE  /\ emitted'[n].readyState = "CLOSED"
                      /\ remote'[emitted'[n].socket] = "CLOSED"
                      /\ \A m \in n + 1 .. k + 1 : emitted'[m].socket # emitted'[n].socket
    BY <1>3 DEF LastIsEnd
  <2>1. CASE n \in 1 .. k
    BY <1>3, <1>4, <2>1
  <2>2. CASE n = k + 1
    BY <1>1, <1>2, <1>3, <2>2
  <2> QED
    BY <1>2, <2>1, <2>2
<1>6. EndStays'
  BY <1>1 DEF EndInv, EndStays
<1> QED
  BY <1>5, <1>6 DEF EndInv

(* Every step keeps the ends.                                              *)
LEMMA EndStep == TypeOK /\ CreatedInv /\ OrderInv /\ EndInv /\ [Next]_vars => EndInv'
<1> SUFFICES ASSUME TypeOK, CreatedInv, OrderInv, EndInv, [Next]_vars PROVE EndInv'
  OBVIOUS
<1>1. ASSUME NEW s \in Sockets, Construct(s) \/ Send(s) \/ Close(s) PROVE EndInv'
  <2>1. UNCHANGED <<handled, emitted>>
    BY <1>1 DEF Construct, Send, Close, CloseBefore, CloseFlash, eventVars, flashVars
  <2>2. \A t \in Sockets : remote[t] = "CLOSED" => remote'[t] = "CLOSED"
    BY <1>1 DEF Construct, Send, Close, CloseBefore, CloseFlash, flashVars, TypeOK
  <2>3. \A t \in Sockets : readyState[t] = "CLOSED" => readyState'[t] = "CLOSED"
    BY <1>1 DEF Construct, Send, Close, CloseBefore, CloseFlash, TypeOK
  <2> QED
    BY <2>1, <2>2, <2>3, EndKept
<1>2. ASSUME UNCHANGED <<handled, emitted, readyState, remote>> PROVE EndInv'
  BY <1>2, EndKept
<1>3. CASE RunCreate
  <2>1. PICK s \in Sockets : Head(timers) = CreateTimer(s) /\ AddTask(s)
    BY <1>3 DEF RunCreate
  <2>2. UNCHANGED <<readyState, handled, emitted>>
    BY <1>3 DEF RunCreate, eventVars
  <2>3. CASE flash
    <3>1. Create({s})
      BY <2>1, <2>3 DEF AddTask
    <3>2. ~Never(timers, CreateTimer(s))
      <4>1. timers \in Seq(Timers) /\ timers # <<>>
        BY <1>3 DEF RunCreate, RunTimer, TypeOK
      <4>2. 1 \in 1 .. Len(timers) /\ timers[1] = CreateTimer(s)
        BY <2>1, <4>1
      <4> QED
        BY <4>2 DEF Never
    <3>3. remote[s] = "none"
      BY <3>2 DEF CreatedInv, Sound
    <3> QED
      BY <2>2, <3>1, <3>3, CreateEnds
  <2>4. CASE ~flash
    <3>1. remote' = remote
      BY <2>1, <2>4 DEF AddTask
    <3> QED
      BY <1>2, <2>2, <3>1
  <2> QED
    BY <2>3, <2>4
<1>4. CASE RunReady
  <2> DEFINE S == {flashTasks[n] : n \in DOMAIN flashTasks}
  <2>1. Create(S) /\ UNCHANGED <<readyState, handled, emitted>>
    BY <1>4 DEF RunReady, eventVars
  <2>2. S \subseteq Sockets /\ DOMAIN flashTasks = 1 .. Len(flashTasks)
    BY DEF TypeOK
  <2>3. ASSUME NEW s \in S PROVE remote[s] = "none"
    <3>1. ~Never(flashTasks, s) /\ s \in Sockets
      BY <2>2 DEF Never
    <3> QED
      BY <3>1 DEF CreatedInv, Sound
  <2> HIDE DEF S
  <2> QED
    BY <2>1, <2>2, <2>3, CreateEnds
<1>5. CASE RunReceive
  BY <1>2, <1>5 DEF RunReceive
<1>6. ASSUME NEW located \in BOOLEAN, Initialize(located) PROVE EndInv'
  BY <1>2, <1>6 DEF Initialize, eventVars
<1>7. CASE FlashLoads
  BY <1>2, <1>7 DEF FlashLoads, eventVars
<1>8. ASSUME NEW s \in Sockets, FlashOpens(s) \/ FlashReceives(s) \/ FlashEnds(s) PROVE EndInv'
  <2>1. remote[s] \in States /\ remote[s] # "CLOSED"
    BY <1>8 DEF FlashOpens, FlashReceives, FlashEnds, TypeOK
  <2>2. CASE FlashOpens(s)
    BY <2>1, <2>2, EmitEnds DEF FlashOpens, States
  <2>3. CASE FlashReceives(s)
    <3>1. Emit(s, "message", remote[s]) /\ remote[s] \in States \ {"none"}
      BY <2>1, <2>3 DEF FlashReceives
    <3> QED
      BY <2>1, <3>1, EmitEnds
  <2>4. CASE FlashEnds(s)
    BY <2>1, <2>4, EmitEnds DEF FlashEnds, States
  <2> QED
    BY <1>8, <2>2, <2>3, <2>4
<1>9. CASE UNCHANGED vars
  BY <1>2, <1>9 DEF vars, pageVars, eventVars, flashVars
<1> QED
  BY <1>1, <1>3, <1>4, <1>5, <1>6, <1>7, <1>8, <1>9, HandleEventEnds DEF Next

(* EndStays: the page is told of an end after everything else that Flash   *)
(* had to say of the socket, and no call or task takes the end back.       *)
THEOREM EndStaysAlways == Spec => []EndStays
<1>1. Init => TypeOK /\ CreatedInv /\ OrderInv /\ EndInv
  <2>1. Init => EndInv
    BY DEF Init, EndInv, LastIsEnd, EndStays
  <2> QED
    BY <2>1, TypeInit, CreatedInit, OrderInit
<1>2. TypeOK /\ CreatedInv /\ OrderInv /\ EndInv /\ [Next]_vars
          => (TypeOK /\ CreatedInv /\ OrderInv /\ EndInv)'
  BY TypeStep, CreatedStep, OrderStep, EndStep
<1>3. EndInv => EndStays
  BY DEF EndInv
<1> QED
  BY <1>1, <1>2, <1>3, PTL DEF Spec
=============================================================================
