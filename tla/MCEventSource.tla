---------------------------- MODULE MCEventSource ---------------------------
(***************************************************************************)
(* An instance of EventSource for TLC.  The first text is like those of    *)
(* event_source.rb; the others have several fields, lines and blank lines  *)
(* in an event, in other orders.                                           *)
(***************************************************************************)
EXTENDS EventSource

Field(field, value) == [field |-> field, value |-> value]

Texts == {
    <<Field("id", ""), Field("data", "a"), Blank, Field("data", "b"), Blank>>,
    <<Field("id", "7"), Field("data", "a"), Field("data", "b"), Blank>>,
    <<Field("event", "news"), Field("retry", 0), Blank, Field("data", "a"), Blank>>}

(* Every text of up to four lines has the events it should have.           *)
ShortTexts == UNION {[1 .. n -> Lines] : n \in 0 .. 4}

NewReader == [data |-> <<>>, name |-> "", id |-> "", lastEventId |-> "", retry |-> 1000, events |-> <<>>]

ASSUME ReadersAreRight ==
    \A text \in ShortTexts : ReadLines(NewReader, text).events = EventsOf(text, "")
=============================================================================
