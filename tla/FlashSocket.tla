----------------------------- MODULE FlashSocket ----------------------------
(***************************************************************************)
(* public/pf/web_socket.js: WebSockets made by a Flash object, for         *)
(* browsers without them.  JavaScript runs one stretch at a time: what the *)
(* page calls, a setTimeout(..., 0) task, or, inside the task that         *)
(* receives a batch of events, the handling of one event, whose listeners  *)
(* may call the page's code, which may call close and send.  The Flash     *)
(* object and its sockets are external.  Listeners and handlers are one,   *)
(* and data, protocols and policy files are left out.                      *)
(***************************************************************************)
EXTENDS Subsequences

CONSTANTS
    Sockets,
    Throwing,       \* the sockets with a listener that may throw
    Senders,        \* bound: the sockets the page sends on
    MaxMessages     \* bound: how many messages a socket receives

ASSUME SocketsAssumption == Throwing \subseteq Sockets /\ Senders \subseteq Sockets

VARIABLES
    readyState,     \* socket -> its readyState, "none" until it is constructed
    createTask,     \* the sockets whose __createTask is set
    bufferedAmount, \* the sockets whose bufferedAmount is not 0
    initialized,    \* __initialized
    flash,          \* whether __flash is set
    flashTasks,     \* __tasks: the sockets to create when it is
    timers,         \* the setTimeout(..., 0) tasks, oldest first
    batch,          \* the events the running task has received and not handled yet
    handled,        \* the events handled, in order
    dropped,        \* the events that were received and never handled
    embedded,       \* the Flash object in the page
    remote,         \* socket -> its readyState in Flash, "none" if it does not know it
    flashEvents,    \* the events Flash keeps for receiveEvents
    emitted         \* all events of Flash, in order

pageVars == <<readyState, createTask, bufferedAmount, initialized, flash, flashTasks, timers>>
eventVars == <<batch, handled, dropped>>
flashVars == <<embedded, remote, flashEvents, emitted>>
vars == <<pageVars, eventVars, flashVars>>

States == {"none", "CONNECTING", "OPEN", "CLOSING", "CLOSED"}

(* An event carries the readyState its socket had in Flash at that time;   *)
(* the number, in the order of Flash, is the model's.                      *)
Events ==
    [socket : Sockets, type : {"open", "message", "end"}, number : Nat,
     readyState : States \ {"none"}]

CreateTimer(s) == [task |-> "create", socket |-> s]
ReadyTimer == [task |-> "ready"]
ReceiveTimer == [task |-> "receive"]

Timers == {CreateTimer(s) : s \in Sockets} \union {ReadyTimer, ReceiveTimer}

(* Every variable has its type.                                            *)
TypeOK ==
    /\ readyState \in [Sockets -> States] /\ createTask \subseteq Sockets
    /\ bufferedAmount \subseteq Sockets
    /\ initialized \in BOOLEAN /\ flash \in BOOLEAN
    /\ flashTasks \in Seq(Sockets) /\ timers \in Seq(Timers)
    /\ batch \in Seq(Events) /\ handled \in Seq(Events) /\ dropped \subseteq Events
    /\ embedded \in {"absent", "loading", "loaded"}
    /\ remote \in [Sockets -> States]
    /\ flashEvents \in Seq(Events) /\ emitted \in Seq(Events)

Init ==
    /\ readyState = [s \in Sockets |-> "none"] /\ createTask = {} /\ bufferedAmount = {}
    /\ initialized = FALSE /\ flash = FALSE /\ flashTasks = <<>> /\ timers = <<>>
    /\ batch = <<>> /\ handled = <<>> /\ dropped = {}
    /\ embedded = "absent" /\ remote = [s \in Sockets |-> "none"]
    /\ flashEvents = <<>> /\ emitted = <<>>

-----------------------------------------------------------------------------
(***************************************************************************)
(* What the page calls                                                     *)
(***************************************************************************)

(* new WebSocket.                                                          *)
Construct(s) ==
    /\ readyState[s] = "none"
    /\ readyState' = [readyState EXCEPT ![s] = "CONNECTING"]
    /\ createTask' = createTask \union {s}
    /\ timers' = Append(timers, CreateTimer(s))
    /\ UNCHANGED <<bufferedAmount, initialized, flash, flashTasks, eventVars, flashVars>>

(* send, which raises while the socket is connecting and when there is no  *)
(* Flash object yet, and counts what Flash does not take.                  *)
Send(s) ==
    /\ s \in Senders /\ readyState[s] \notin {"none", "CONNECTING"} /\ flash
    /\ bufferedAmount' = IF remote[s] = "OPEN" THEN bufferedAmount ELSE bufferedAmount \union {s}
    /\ UNCHANGED <<readyState, createTask, initialized, flash, flashTasks, timers,
                   eventVars, flashVars>>

(* A clearTimeout that leaves a hole.                                      *)
WithoutButHole(s) ==
    [n \in DOMAIN timers |-> IF timers[n] = CreateTimer(s) THEN [task |-> "none"] ELSE timers[n]]

(* What clearTimeout leaves of the timers.                                 *)
Without(s) == Among(timers, Timers \ {CreateTimer(s)})

(* A close that looks only for CLOSING.                                    *)
CloseFlashAgain(s) ==
    /\ s \notin createTask /\ readyState[s] \in {"CONNECTING", "OPEN", "CLOSED"}
    /\ readyState' = [readyState EXCEPT ![s] = "CLOSING"]
    /\ remote' = [remote EXCEPT ![s] = IF @ = "CLOSED" THEN @ ELSE "CLOSING"]
    /\ UNCHANGED <<createTask, bufferedAmount, initialized, flash, flashTasks, timers,
                   eventVars, embedded, flashEvents, emitted>>

(* close before the socket was created takes back the timer; otherwise     *)
(* Flash is told.                                                          *)
CloseBefore(s) ==
    /\ s \in createTask
    /\ timers' = Without(s)
    /\ createTask' = createTask \ {s}
    /\ readyState' = [readyState EXCEPT ![s] = "CLOSED"]
    /\ UNCHANGED <<bufferedAmount, initialized, flash, flashTasks, eventVars, flashVars>>

CloseFlash(s) ==
    /\ s \notin createTask /\ readyState[s] \in {"CONNECTING", "OPEN"}
    /\ readyState' = [readyState EXCEPT ![s] = "CLOSING"]
    /\ remote' = [remote EXCEPT ![s] = IF @ = "CLOSED" THEN @ ELSE "CLOSING"]
    /\ UNCHANGED <<createTask, bufferedAmount, initialized, flash, flashTasks, timers,
                   eventVars, embedded, flashEvents, emitted>>

Close(s) == CloseBefore(s) \/ CloseFlash(s)

(* __initialize when the document is loaded: it does so once, embeds       *)
(* nothing if it does not know where the Flash object is, and that may not *)
(* load.                                                                   *)
Initialize(located) ==
    /\ ~initialized
    /\ initialized' = TRUE
    /\ embedded' = IF located THEN "loading" ELSE embedded
    /\ UNCHANGED <<readyState, createTask, bufferedAmount, flash, flashTasks, timers,
                   eventVars, remote, flashEvents, emitted>>

-----------------------------------------------------------------------------
(***************************************************************************)
(* The tasks                                                               *)
(***************************************************************************)

(* The task of the constructor that creates the sockets S in Flash.        *)
Create(S) ==
    /\ createTask' = createTask \ S
    /\ remote' = [s \in Sockets |-> IF s \in S THEN "CONNECTING" ELSE remote[s]]

(* __addTask does the task at once or keeps it for when Flash is there.    *)
AddTask(s) ==
    IF flash
    THEN Create({s}) /\ UNCHANGED flashTasks
    ELSE flashTasks' = Append(flashTasks, s) /\ UNCHANGED <<createTask, remote>>

RunTimer ==
    /\ timers # <<>> /\ batch = <<>>
    /\ timers' = Tail(timers)

RunCreate ==
    /\ RunTimer
    /\ \E s \in Sockets : Head(timers) = CreateTimer(s) /\ AddTask(s)
    /\ UNCHANGED <<readyState, bufferedAmount, initialized, flash, eventVars,
                   embedded, flashEvents, emitted>>

(* A task that keeps the tasks it has done.                                *)
RunReadyKeepingTasks ==
    /\ RunTimer /\ Head(timers) = ReadyTimer
    /\ flash' = TRUE
    /\ Create({flashTasks[n] : n \in DOMAIN flashTasks})
    /\ UNCHANGED <<readyState, bufferedAmount, initialized, flashTasks, eventVars,
                   embedded, flashEvents, emitted>>

(* A task that begins with an empty list of tasks.                         *)
RunReadyWithoutTasks ==
    /\ RunTimer /\ Head(timers) = ReadyTimer
    /\ flash' = TRUE
    /\ flashTasks' = <<>>
    /\ UNCHANGED <<readyState, createTask, bufferedAmount, initialized, eventVars, flashVars>>

(* The task of __onFlashInitialized.                                       *)
RunReady ==
    /\ RunTimer /\ Head(timers) = ReadyTimer
    /\ flash' = TRUE
    /\ Create({flashTasks[n] : n \in DOMAIN flashTasks})
    /\ flashTasks' = <<>>
    /\ UNCHANGED <<readyState, bufferedAmount, initialized, eventVars,
                   embedded, flashEvents, emitted>>

(* A task that reads the events of Flash and leaves them there.            *)
RunReceiveAgain ==
    /\ RunTimer /\ Head(timers) = ReceiveTimer
    /\ batch' = flashEvents
    /\ UNCHANGED <<readyState, createTask, bufferedAmount, initialized, flash, flashTasks,
                   handled, dropped, flashVars>>

(* The task of __onFlashEvent takes all events Flash has.                  *)
RunReceive ==
    /\ RunTimer /\ Head(timers) = ReceiveTimer
    /\ batch' = flashEvents
    /\ flashEvents' = <<>>
    /\ UNCHANGED <<readyState, createTask, bufferedAmount, initialized, flash, flashTasks,
                   handled, dropped, embedded, remote, emitted>>

(* __handleEvent of the next event in the task's loop.  If a listener      *)
(* throws, the catch around the loop drops the rest of the batch.          *)
HandleEvent(throws) ==
    /\ batch # <<>>
    /\ throws => Head(batch).socket \in Throwing
    /\ readyState' = [readyState EXCEPT ![Head(batch).socket] = Head(batch).readyState]
    /\ handled' = Append(handled, Head(batch))
    /\ batch' = IF throws THEN <<>> ELSE Tail(batch)
    /\ dropped' = IF throws THEN dropped \union {batch[n] : n \in 2 .. Len(batch)} ELSE dropped
    /\ UNCHANGED <<createTask, bufferedAmount, initialized, flash, flashTasks, timers, flashVars>>

-----------------------------------------------------------------------------
(***************************************************************************)
(* What Flash does                                                         *)
(***************************************************************************)
FlashLoads ==
    /\ embedded = "loading"
    /\ embedded' = "loaded"
    /\ timers' = Append(timers, ReadyTimer)
    /\ UNCHANGED <<readyState, createTask, bufferedAmount, initialized, flash, flashTasks,
                   eventVars, remote, flashEvents, emitted>>

(* An event is kept for receiveEvents and announced by __onFlashEvent.     *)
Emit(s, type, state) ==
    LET event == [socket |-> s, type |-> type, number |-> Len(emitted) + 1, readyState |-> state]
    IN  /\ remote' = [remote EXCEPT ![s] = state]
        /\ flashEvents' = Append(flashEvents, event)
        /\ emitted' = Append(emitted, event)
        /\ timers' = Append(timers, ReceiveTimer)
        /\ UNCHANGED <<readyState, createTask, bufferedAmount, initialized, flash, flashTasks,
                       eventVars, embedded>>

FlashOpens(s) == remote[s] = "CONNECTING" /\ Emit(s, "open", "OPEN")

FlashReceives(s) ==
    LET IsMessage(event) == event.socket = s /\ event.type = "message"
    IN  /\ remote[s] \in {"OPEN", "CLOSING"}
        /\ Len(SelectSeq(emitted, IsMessage)) < MaxMessages
        /\ Emit(s, "message", remote[s])

(* The end is a close or an error.                                         *)
FlashEnds(s) == remote[s] \in {"CONNECTING", "OPEN", "CLOSING"} /\ Emit(s, "end", "CLOSED")

Next ==
    \/ \E s \in Sockets : Construct(s) \/ Send(s) \/ Close(s)
    \/ \E located \in BOOLEAN : Initialize(located)
    \/ RunCreate
    \/ RunReady
    \/ RunReceive
    \/ \E throws \in BOOLEAN : HandleEvent(throws)
    \/ FlashLoads
    \/ \E s \in Sockets : FlashOpens(s) \/ FlashReceives(s) \/ FlashEnds(s)

Spec == Init /\ [][Next]_vars

(* The browser runs the tasks that are due, and a task to its end.         *)
Running == RunCreate \/ RunReady \/ RunReceive \/ (\E throws \in BOOLEAN : HandleEvent(throws))

FairSpec == Spec /\ WF_vars(Running)

-----------------------------------------------------------------------------
(***************************************************************************)
(* Properties                                                              *)
(***************************************************************************)

(* How often the creation of a socket is still to come.                    *)
Pending(s) == {n \in DOMAIN timers : timers[n] = CreateTimer(s)}

Kept(s) == {n \in DOMAIN flashTasks : flashTasks[n] = s}

(* Whether a task is still to run.                                         *)
IsDue(timer) == \E n \in DOMAIN timers : timers[n] = timer

(* A socket is created in Flash at most once, and what creates one that    *)
(* waits for it is not lost: its own task, or that of a Flash object that  *)
(* has loaded.  One that is alive and not waiting is known to Flash, so    *)
(* close never calls a Flash object that is not there or does not know the *)
(* socket.  A close before the creation leaves no task for it: only what   *)
(* is kept for Flash by then, where close does not look, can still create  *)
(* the closed socket.  Send may name one that Flash does not know: one     *)
(* that was closed before (lines 62-68, 76-88, 100-112, 309-324).          *)
CreatedOnce ==
    \A s \in Sockets :
        /\ \A m, n \in Pending(s) : m = n
        /\ \A m, n \in Kept(s) : m = n
        /\ remote[s] # "none" => flash /\ Pending(s) = {} /\ Kept(s) = {} /\ s \notin createTask
        /\ Pending(s) # {} => Kept(s) = {} /\ s \in createTask
        /\ s \in createTask <=> readyState[s] = "CONNECTING" /\ remote[s] = "none"
        /\ s \in createTask =>
               \/ Pending(s) # {}
               \/ Kept(s) # {} /\ ~flash /\ (embedded = "loaded" => IsDue(ReadyTimer))
        /\ readyState[s] \in {"CONNECTING", "OPEN", "CLOSING"} /\ s \notin createTask
               => remote[s] # "none"

(* The comment on receiveEvents: the order of Flash is kept, whatever the  *)
(* order of its notifications.  And every event is handled once or waiting *)
(* to be, but for those that a throwing listener had dropped; for what     *)
(* Flash keeps there is a task to come, although one task takes all of it. *)
InOrder ==
    /\ Among(emitted, Events \ dropped) = handled \o batch \o flashEvents
    /\ flashEvents # <<>> => IsDue(ReceiveTimer)

(* Once Flash is there, every socket that waits for it is created or       *)
(* closed.                                                                 *)
EachIsCreated ==
    \A s \in Sockets : (s \in createTask /\ embedded = "loaded") ~> s \notin createTask

(* When a socket has ended in Flash, the page's has for good, however late *)
(* its earlier events come, unless the end was dropped.                    *)
EndIsFinal ==
    \A s \in Sockets :
        remote[s] = "CLOSED" ~> [](\/ readyState[s] = "CLOSED"
                                  \/ \E event \in dropped : event.socket = s /\ event.type = "end")
=============================================================================
