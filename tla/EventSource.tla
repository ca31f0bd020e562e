----------------------------- MODULE EventSource ----------------------------
(***************************************************************************)
(* public/pf/eventsource.js: an EventSource made of XMLHttpRequests, for   *)
(* browsers without one.  A callback of the request or of a timer runs to  *)
(* its end before the next one begins.  The request, which belongs to the  *)
(* browser, and the server behind it are external: they answer, the text   *)
(* grows line by line, and the request ends, whenever they like.           *)
(***************************************************************************)
EXTENDS EventLines

CONSTANTS
    MaxConnections,     \* bound: how often the source connects
    Streams             \* bound: the texts the server sends, each up to any line

ASSUME StreamsAssumption == Streams \subseteq Seq(Lines)

VARIABLES
    readyState,
    lastEventId, retry,
    xhr,                \* the number of the connection whose request it is, or None
    reconnectTimeout,   \* whether the timer is set
    checkTimeout,       \* the connection that set the timer, or None
    closures,           \* connection -> the local variables of its openConnection
    tasks,              \* the setTimeout(..., 0) tasks of queue, oldest first
    told,               \* what was dispatched, in order
    answers,            \* connection -> the content type it was answered with
    texts,              \* connection -> the lines its request has received
    ends                \* connection -> how its request has ended, or "not"

sourceVars == <<readyState, lastEventId, retry, xhr, reconnectTimeout, checkTimeout, closures>>
requestVars == <<answers, texts, ends>>
vars == <<sourceVars, tasks, told, requestVars>>

None == 0

States == {"CONNECTING", "OPEN", "CLOSED"}

(* A task dispatches an event after it has set readyState, unless Same.    *)
Same == "same"
Task(event, to) == [event |-> event, to |-> to]

Open == Event("open", "", <<>>)
Error == Event("error", "", <<>>)

(* A connection that does not know the id of the last event.               *)
ClosureWithoutId(id) ==
    [offset |-> 0, charOffset |-> 0, opened |-> FALSE, closed |-> FALSE,
     data |-> <<>>, name |-> "", id |-> ""]

(* offset and charOffset count lines: offset is at the beginning of a      *)
(* line, and of charOffset it only matters which line breaks are behind it.*)
Closure(id) ==
    [offset |-> 0, charOffset |-> 0, opened |-> FALSE, closed |-> FALSE,
     data |-> <<>>, name |-> "", id |-> id]

Closures ==
    [offset : Nat, charOffset : Nat, opened : BOOLEAN, closed : BOOLEAN,
     data : Seq(Data), name : Names, id : Ids]

Connections == 1 .. Len(closures)

(* Every variable has its type.                                            *)
TypeOK ==
    /\ readyState \in States /\ lastEventId \in Ids /\ retry \in Delays
    /\ closures \in Seq(Closures)
    /\ xhr \in {None} \union Connections /\ checkTimeout \in {None} \union Connections
    /\ reconnectTimeout \in BOOLEAN
    /\ tasks \in Seq([event : Events \union {Open, Error}, to : States \union {Same}])
    /\ told \in Seq(Events \union {Open, Error})
    /\ answers \in Seq({"none", "event-stream", "other"}) /\ Len(answers) = Len(closures)
    /\ texts \in Seq(Seq(Lines)) /\ Len(texts) = Len(closures)
    /\ ends \in Seq({"not", "complete", "broken"}) /\ Len(ends) = Len(closures)

-----------------------------------------------------------------------------
(* An openConnection that keeps the request in a variable of its own.      *)
OpenConnectionLocally ==
    /\ reconnectTimeout' = FALSE
    /\ closures' = Append(closures, Closure(lastEventId))
    /\ answers' = Append(answers, "none")
    /\ texts' = Append(texts, <<>>)
    /\ ends' = Append(ends, "not")
    /\ UNCHANGED xhr

(* openConnection: a new request and new local variables.                  *)
OpenConnection ==
    /\ reconnectTimeout' = FALSE
    /\ xhr' = Len(closures) + 1
    /\ closures' = Append(closures, Closure(lastEventId))
    /\ answers' = Append(answers, "none")
    /\ texts' = Append(texts, <<>>)
    /\ ends' = Append(ends, "not")

Init ==
    /\ readyState = "CONNECTING" /\ lastEventId = "" /\ retry = 1000
    /\ xhr = 1 /\ closures = <<Closure("")>>
    /\ reconnectTimeout = FALSE /\ checkTimeout = None
    /\ tasks = <<>> /\ told = <<>>
    /\ answers = <<"none">> /\ texts = <<<<>>>> /\ ends = <<"not">>

(* The reader that goes on where the connection stopped.                   *)
Reader(me) ==
    [data |-> me.data, name |-> me.name, id |-> me.id,
     lastEventId |-> lastEventId, retry |-> retry, events |-> <<>>]

(* Of a request that broke neither its headers nor its text can be read.   *)
ContentType(c) == IF ends[c] = "broken" THEN "none" ELSE answers[c]

ResponseText(c, state) == IF state > 2 /\ ends[c] # "broken" THEN texts[c] ELSE <<>>

(* Whether the connection counts as open, now that it was looked at.       *)
IsOpened(c) == closures[c].opened \/ ContentType(c) = "event-stream"

(* The lines to read: those behind offset, if a line break is behind       *)
(* charOffset.                                                             *)
NewLines(c, state) ==
    IF IsOpened(c) /\ Len(ResponseText(c, state)) > closures[c].charOffset
    THEN SubSeq(texts[c], closures[c].offset + 1, Len(texts[c]))
    ELSE <<>>

(* What a callback queues: that the connection is open, its events, and    *)
(* that it was lost or has failed.                                         *)
Queued(c, state, events) ==
    (IF IsOpened(c) /\ ~closures[c].opened THEN <<Task(Open, "OPEN")>> ELSE <<>>)
        \o [n \in DOMAIN events |-> Task(events[n], Same)]
        \o (IF state # 4 THEN <<>>
            ELSE IF IsOpened(c) THEN <<Task(Error, "CONNECTING")>>
            ELSE <<Task(Error, "CLOSED")>>)

(* onReadyStateChange of an open connection, with the check timer as it is *)
(* then.  In state 4 stop ends the timer and nothing is left of the        *)
(* request; if it had been opened, it is made again later.                 *)
Handle(c, state, timer) ==
    LET me == closures[c]
        read == ReadLines(Reader(me), NewLines(c, state))
    IN  /\ closures' = [closures EXCEPT ![c] =
                [offset |-> me.offset + Len(NewLines(c, state)),
                 charOffset |-> Len(ResponseText(c, state)),
                 opened |-> IsOpened(c), closed |-> state = 4,
                 data |-> read.data, name |-> read.name, id |-> read.id]]
        /\ lastEventId' = read.lastEventId
        /\ retry' = read.retry
        /\ tasks' = tasks \o Queued(c, state, read.events)
        /\ checkTimeout' = IF state = 4 THEN None
                           ELSE IF timer = None /\ state = 3 /\ IsOpened(c) THEN c
                           ELSE timer
        /\ xhr' = IF state = 4 THEN None ELSE xhr
        /\ reconnectTimeout' = (reconnectTimeout \/ (state = 4 /\ IsOpened(c)))
        /\ UNCHANGED <<readyState, told, requestVars>>

(* A callback that does not look whether its connection is closed.         *)
OnReadyStateChangeAnyway(c, state, timer) == Handle(c, state, timer)

(* A callback of a request whose connection is closed returns at once.     *)
OnReadyStateChange(c, state, timer) ==
    IF closures[c].closed THEN UNCHANGED vars ELSE Handle(c, state, timer)

-----------------------------------------------------------------------------
(* What the readyState of a request can be.                                *)
InState(c, state) ==
    CASE state = 2 -> answers[c] # "none" /\ texts[c] = <<>> /\ ends[c] = "not"
      [] state = 3 -> answers[c] # "none" /\ ends[c] = "not"
      [] state = 4 -> ends[c] # "not"

(* A request calls back, once or more often in a state; its load or error  *)
(* may come even after the connection is closed.                           *)
Callback(c, state) ==
    /\ InState(c, state)
    /\ xhr = c \/ (closures[c].closed /\ state = 4)
    /\ OnReadyStateChange(c, state, checkTimeout)

(* A check timer that only ends itself.                                    *)
CheckTimerOnce ==
    /\ checkTimeout # None
    /\ checkTimeout' = None
    /\ UNCHANGED <<readyState, lastEventId, retry, xhr, reconnectTimeout, closures,
                   tasks, told, requestVars>>

(* The check timer looks at the request that xhr is now.                   *)
CheckTimer ==
    /\ checkTimeout # None
    /\ IF InState(xhr, 3)
       THEN OnReadyStateChange(checkTimeout, 3, None)
       ELSE /\ checkTimeout' = None
            /\ UNCHANGED <<readyState, lastEventId, retry, xhr, reconnectTimeout, closures,
                           tasks, told, requestVars>>

(* The timer to connect again was set after the tasks that are queued, and *)
(* fires after them.                                                       *)
Reconnect ==
    /\ reconnectTimeout /\ tasks = <<>>
    /\ Len(closures) < MaxConnections
    /\ OpenConnection
    /\ UNCHANGED <<readyState, lastEventId, retry, checkTimeout, tasks, told>>

(* A task that sets readyState to whatever it was queued with.             *)
RunTaskAlwaysSetting ==
    /\ tasks # <<>>
    /\ tasks' = Tail(tasks)
    /\ IF readyState = "CLOSED"
       THEN UNCHANGED <<readyState, told>>
       ELSE readyState' = Head(tasks).to /\ told' = Append(told, Head(tasks).event)
    /\ UNCHANGED <<lastEventId, retry, xhr, reconnectTimeout, checkTimeout, closures, requestVars>>

(* The oldest task, which does nothing once the source is closed.          *)
RunTask ==
    /\ tasks # <<>>
    /\ tasks' = Tail(tasks)
    /\ IF readyState = "CLOSED"
       THEN UNCHANGED <<readyState, told>>
       ELSE /\ readyState' = IF Head(tasks).to = Same THEN readyState ELSE Head(tasks).to
            /\ told' = Append(told, Head(tasks).event)
    /\ UNCHANGED <<lastEventId, retry, xhr, reconnectTimeout, checkTimeout, closures, requestVars>>

(* A close that forgets the timer to connect again.                        *)
CloseRequestOnly ==
    /\ checkTimeout' = IF xhr = None THEN checkTimeout ELSE None
    /\ xhr' = None
    /\ readyState' = "CLOSED"
    /\ UNCHANGED <<lastEventId, retry, reconnectTimeout, closures, tasks, told, requestVars>>

(* close: stop and abort the request, if any, and both timers.             *)
Close ==
    /\ checkTimeout' = IF xhr = None THEN checkTimeout ELSE None
    /\ xhr' = None
    /\ reconnectTimeout' = FALSE
    /\ readyState' = "CLOSED"
    /\ UNCHANGED <<lastEventId, retry, closures, tasks, told, requestVars>>

(* The server answers, sends, and ends the request, or the network does.   *)
Alive == xhr # None /\ ends[xhr] = "not"

Answer(type) ==
    /\ Alive /\ answers[xhr] = "none"
    /\ answers' = [answers EXCEPT ![xhr] = type]
    /\ UNCHANGED <<sourceVars, tasks, told, texts, ends>>

Receive(stream) ==
    /\ Alive /\ answers[xhr] # "none"
    /\ Len(texts[xhr]) < Len(stream) /\ texts[xhr] = SubSeq(stream, 1, Len(texts[xhr]))
    /\ texts' = [texts EXCEPT ![xhr] = Append(texts[xhr], stream[Len(texts[xhr]) + 1])]
    /\ UNCHANGED <<sourceVars, tasks, told, answers, ends>>

EndRequest(how) ==
    /\ Alive
    /\ ends' = [ends EXCEPT ![xhr] = how]
    /\ UNCHANGED <<sourceVars, tasks, told, answers, texts>>

Next ==
    \/ \E c \in Connections, state \in 2 .. 4 : Callback(c, state)
    \/ CheckTimer
    \/ Reconnect
    \/ RunTask
    \/ Close
    \/ \E type \in {"event-stream", "other"} : Answer(type)
    \/ \E stream \in Streams : Receive(stream)
    \/ \E how \in {"complete", "broken"} : EndRequest(how)

Spec == Init /\ [][Next]_vars

(* Timers fire and tasks run; the server and the network owe nothing.      *)
FairSpec == Spec /\ WF_vars(RunTask) /\ WF_vars(CheckTimer) /\ WF_vars(Reconnect)

-----------------------------------------------------------------------------
(***************************************************************************)
(* Properties                                                              *)
(***************************************************************************)

(* The check timer looks on: a request that was found to receive lines and *)
(* still does has one, and an open connection has read as much of its text *)
(* as it has looked at, so that what it has not read it will find.         *)
LooksOn ==
    xhr # None /\ closures[xhr].opened =>
        /\ closures[xhr].charOffset <= closures[xhr].offset
        /\ closures[xhr].offset <= Len(texts[xhr])
        /\ closures[xhr].offset > 0 /\ ends[xhr] = "not" => checkTimeout = xhr

(* What is alive: a request or the timer that makes the next one, never    *)
(* both; a check timer only with its own, opened request, and always with  *)
(* one that is read; nothing once the source is closed, and something as   *)
(* long as it is not, unless its failure is about to be told (stop, close, *)
(* openConnection, lines 122-134).                                         *)
Lifeline ==
    /\ ~(xhr # None /\ reconnectTimeout)
    /\ checkTimeout # None => checkTimeout = xhr /\ closures[xhr].opened
    /\ readyState = "CLOSED" => xhr = None /\ ~reconnectTimeout
    /\ \/ readyState = "CLOSED" \/ xhr # None \/ reconnectTimeout
       \/ \E n \in DOMAIN tasks : tasks[n].to = "CLOSED"
    /\ LooksOn

(* The lines that a connection has read of its text.                       *)
Read(c) == SubSeq(texts[c], 1, closures[c].offset)

(* The id of the last event.                                               *)
LastId(events) == IF events = <<>> THEN "" ELSE events[Len(events)].lastEventId

(* The events of texts that were read one after the other.                 *)
StoryOf(reads) ==
    LET upTo[c \in 0 .. Len(reads)] ==
            IF c = 0 THEN <<>> ELSE upTo[c - 1] \o EventsOf(reads[c], LastId(upTo[c - 1]))
    IN  upTo[Len(reads)]

(* The events of all connections' texts, as far as they have been read.    *)
Story == StoryOf([c \in Connections |-> Read(c)])

(* Open and Error have no data, other events must have some.               *)
WithData == {event \in Events : event.data # <<>>}

Waiting == [n \in DOMAIN tasks |-> tasks[n].event]

(* However a text is cut into pieces, and however often and by whom it is  *)
(* looked at (readystatechange, progress, load, the check timer), every    *)
(* event in the lines read is told once, in order, with its own id and     *)
(* type; when the source was closed on the way, none out of order.         *)
ToldOnce ==
    /\ readyState # "CLOSED" => Among(told \o Waiting, WithData) = Story
    /\ LET messages == Among(told, WithData)
       IN  Len(messages) <= Len(Story) /\ messages = SubSeq(Story, 1, Len(messages))

(* The page sees an EventStream.                                           *)
Stream == INSTANCE EventStream WITH Messages <- Events, state <- readyState, heard <- told

ImplementsEventStream == Stream!EventStreamSpec

(* Even if the browser never calls back again while a text arrives, as the *)
(* comment about Opera has it, all lines of an open connection are read,   *)
(* once the check timer runs, unless the request ends or the page closes.  *)
LinesAreRead ==
    \A c \in 1 .. MaxConnections :
        checkTimeout = c ~> (xhr # c \/ ends[c] # "not" \/ closures[c].offset = Len(texts[c]))

(* A connection that was lost is made again, unless the page closes.       *)
LostIsReconnected ==
    (reconnectTimeout /\ Len(closures) < MaxConnections) ~> (xhr # None \/ readyState = "CLOSED")
=============================================================================
