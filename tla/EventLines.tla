----------------------------- MODULE EventLines -----------------------------
(***************************************************************************)
(* How eventsource.js reads the lines of an event stream.  A line is a     *)
(* field with its value, a comment, or blank; what remains of a text after *)
(* its last line break is no line yet.                                     *)
(***************************************************************************)
EXTENDS Subsequences

CONSTANTS
    Data, Ids, Names,   \* the values of the fields data, id and event
    Delays,             \* the values of the field retry that consist of digits
    NotDigits           \* one that does not

ASSUME ValuesAssumption ==
    /\ "" \in Ids /\ "" \in Names
    /\ 1000 \in Delays /\ Delays \subseteq Nat /\ NotDigits \notin Delays

Blank == [field |-> "blank"]
Comment == [field |-> "comment"]

Lines ==
    [field : {"data"}, value : Data] \union [field : {"id"}, value : Ids]
    \union [field : {"event"}, value : Names]
    \union [field : {"retry"}, value : Delays \union {NotDigits}] \union {Blank, Comment}

(* The empty name stands for "message".                                    *)
TypeOf(name) == IF name = "" THEN "message" ELSE name

(* The data of an event are the values of its data lines, in order.        *)
Event(type, id, data) == [type |-> type, lastEventId |-> id, data |-> data]

Events == [type : {TypeOf(n) : n \in Names}, lastEventId : Ids, data : Seq(Data)]

(* The buffer of a connection (data, name, id), the variables lastEventId  *)
(* and retry that all connections share, and the events it has queued.     *)
Readers ==
    [data : Seq(Data), name : Names, id : Ids,
     lastEventId : Ids, retry : Delays, events : Seq(Events)]

(* The blank line ends an event, which is one only if it has data.         *)
DispatchBuffer(r) ==
    IF r.data = <<>>
    THEN [r EXCEPT !.name = ""]
    ELSE [r EXCEPT !.lastEventId = r.id,
                   !.events = Append(r.events, Event(TypeOf(r.name), r.id, r.data)),
                   !.data = <<>>, !.name = ""]

ReadLine(r, line) ==
    CASE line.field = "blank" -> DispatchBuffer(r)
      [] line.field = "event" -> [r EXCEPT !.name = line.value]
      [] line.field = "id" -> [r EXCEPT !.id = line.value]
      [] line.field = "retry" /\ line.value \in Delays -> [r EXCEPT !.retry = line.value]
      [] line.field = "data" -> [r EXCEPT !.data = Append(r.data, line.value)]
      [] OTHER -> r

(* The lines of a text, one after the other.                               *)
ReadLines(r, lines) ==
    LET after[n \in 0 .. Len(lines)] == IF n = 0 THEN r ELSE ReadLine(after[n - 1], lines[n])
    IN  after[Len(lines)]

-----------------------------------------------------------------------------
(***************************************************************************)
(* What the events of a text are, without a reader: one for each blank     *)
(* line that follows at least one line of data, with the last name since   *)
(* the blank line before it, and the last id since the text began.         *)
(***************************************************************************)
LastOf(S) == CHOOSE n \in S : \A m \in S : m <= n

(* The lines of one field in lines a + 1 .. b.                             *)
Of(lines, field, a, b) == {n \in a + 1 .. b : lines[n].field = field}

(* The blank line before line b, or 0.                                     *)
Before(lines, b) == LastOf({0} \union Of(lines, "blank", 0, b - 1))

LastValue(lines, field, a, b, default) ==
    IF Of(lines, field, a, b) = {} THEN default ELSE lines[LastOf(Of(lines, field, a, b))].value

(* The numbers in S up to b, in order.                                     *)
Listed(S, b) == Among([n \in 1 .. b |-> n], S)

DataBetween(lines, a, b) ==
    LET found == Listed(Of(lines, "data", a, b), b)
    IN  [n \in DOMAIN found |-> lines[found[n]].value]

EventAt(lines, b, id) ==
    Event(TypeOf(LastValue(lines, "event", Before(lines, b), b, "")),
          LastValue(lines, "id", 0, b, id), DataBetween(lines, Before(lines, b), b))

(* The lines that end an event.                                            *)
IsEnd(lines, b) == lines[b].field = "blank" /\ Of(lines, "data", Before(lines, b), b) # {}

Ends(lines) == Listed({b \in 1 .. Len(lines) : IsEnd(lines, b)}, Len(lines))

(* The events of the text of a connection that began with an id.           *)
EventsOf(lines, id) == [n \in DOMAIN Ends(lines) |-> EventAt(lines, Ends(lines)[n], id)]
=============================================================================
