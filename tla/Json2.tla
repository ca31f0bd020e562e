-------------------------------- MODULE Json2 -------------------------------
(***************************************************************************)
(* public/pf/json2.js: JSON for browsers without it.  JsonText writes the  *)
(* texts; here is what parse makes of them.                                *)
(***************************************************************************)
EXTENDS JsonText

-----------------------------------------------------------------------------
(***************************************************************************)
(* parse                                                                   *)
(***************************************************************************)

(* What eval makes of a text (external): the value that begins with the    *)
(* first token, and the tokens behind it.  Characters of a string that     *)
(* JavaScript ignores are lost unless they are escaped.                    *)
Evaluated(chars) ==
    LET IsSeen(char) == char.escaped \/ char.is \notin Ignored
        seen == SelectSeq(chars, IsSeen)
    IN  [n \in DOMAIN seen |-> seen[n].is]

RECURSIVE Read(_), ReadElements(_), ReadMembers(_)

ReadElements(tokens) ==
    IF tokens[1] = Token("]") THEN [list |-> <<>>, rest |-> Tail(tokens)]
    ELSE LET first == Read(IF tokens[1] = Token(",") THEN Tail(tokens) ELSE tokens)
             more == ReadElements(first.rest)
         IN  [more EXCEPT !.list = <<first.value>> \o @]

ReadMembers(tokens) ==
    IF tokens[1] = Token("}") THEN [list |-> <<>>, rest |-> Tail(tokens)]
    ELSE LET here == IF tokens[1] = Token(",") THEN Tail(tokens) ELSE tokens
             key == Evaluated(here[1].chars)
             first == Read(SubSeq(here, 3, Len(here)))
             more == ReadMembers(first.rest)
         IN  [more EXCEPT !.list = <<Member(key, first.value)>> \o @]

Read(tokens) ==
    LET first == tokens[1]
        list == IF first = Token("[") THEN ReadElements(Tail(tokens)) ELSE ReadMembers(Tail(tokens))
    IN  CASE first.token = "literal" -> [value |-> first.value, rest |-> Tail(tokens)]
          [] first.token = "string" ->
                [value |-> String(Evaluated(first.chars)), rest |-> Tail(tokens)]
          [] first.token = "[" -> [value |-> Array(list.list), rest |-> list.rest]
          [] first.token = "{" -> [value |-> Object(list.list), rest |-> list.rest]

eval(text) ==
    LET IsNoLayout(token) == token.token # "newline"
    IN  Read(SelectSeq(text, IsNoLayout)).value

(* A reviver: the identity, or undefined for numbers.                      *)
Revive(reviver, value) ==
    IF reviver = "hide" /\ value.type = "number" THEN Undefined ELSE value

RECURSIVE walk(_, _)

(* Mutant: the members of an object are not walked through.                *)
walkArraysOnly(reviver, value) ==
    IF value.type = "array"
    THEN Revive(reviver, Array([n \in DOMAIN value.elements |-> walk(reviver, value.elements[n])]))
    ELSE Revive(reviver, value)

(* walk goes through the elements or members first.  An element that       *)
(* becomes undefined is deleted, which leaves a hole; a member is gone.    *)
walk(reviver, value) ==
    CASE value.type = "array" ->
            Revive(reviver, Array([n \in DOMAIN value.elements |-> walk(reviver, value.elements[n])]))
      [] value.type = "object" ->
            LET all == [n \in DOMAIN value.members |->
                          Member(value.members[n].key, walk(reviver, value.members[n].value))]
                IsThere(member) == member.value # Undefined
            IN  Revive(reviver, Object(SelectSeq(all, IsThere)))
      [] OTHER -> Revive(reviver, value)

(* Mutant: nothing is escaped before the text is evaluated.                *)
EscapeNothing(token, characters) == token

(* The first stage: what JavaScript would ignore is escaped.               *)
Escape(token, characters) ==
    IF token.token # "string" THEN token
    ELSE [token EXCEPT !.chars =
            [n \in DOMAIN @ |-> [@[n] EXCEPT !.escaped = @ \/ token.chars[n].is \in characters]]]

(* The second stage: no string is broken, and a bracket opens only at the  *)
(* beginning or behind a colon, a comma or another one.                    *)
IsAccepted(text) ==
    LET IsNoLayout(token) == token.token # "newline"
        tokens == SelectSeq(text, IsNoLayout)
    IN  \A n \in DOMAIN tokens :
            /\ tokens[n].token = "string" =>
                \A i \in DOMAIN tokens[n].chars :
                    tokens[n].chars[i].is \in Breaking => tokens[n].chars[i].escaped
            /\ tokens[n].token = "[" /\ n > 1 =>
                tokens[n - 1].token \in {":", ": ", ",", "["}

(* JSON.parse(text, reviver).                                              *)
parse(text, reviver) ==
    LET escaped == [n \in DOMAIN text |-> Escape(text[n], Ignored)]
        value == eval(escaped)
    IN  IF ~IsAccepted(escaped) THEN [raised |-> TRUE, value |-> Undefined]
        ELSE [raised |-> FALSE, value |-> IF reviver = "none" THEN value ELSE walk(reviver, value)]

-----------------------------------------------------------------------------
(***************************************************************************)
(* Calls, one after the other                                              *)
(***************************************************************************)

VARIABLE read       \* what was parsed of the last call's text, and how

NoRead == [as |-> "none"]

Init == TextInit /\ read = NoRead

(* The server's texts: it escapes no more than it must.                    *)
Foreign(text) ==
    [n \in DOMAIN text |->
        IF text[n].token # "string" THEN text[n]
        ELSE [text[n] EXCEPT !.chars = [i \in DOMAIN @ |->
                [@[i] EXCEPT !.escaped = text[n].chars[i].is \in Breaking]]]]

(* The text is parsed as it is, in the server's form, or with a reviver.   *)
Parse(as) ==
    /\ call.state = "done" /\ call.text # <<>> /\ read = NoRead
    /\ read' = [as |-> as,
                result |-> parse(IF as = "foreign" THEN Foreign(call.text) ELSE call.text,
                                 IF as = "revived" THEN "hide" ELSE "none")]
    /\ UNCHANGED textVars

Next ==
    \/ TextNext /\ read' = NoRead
    \/ \E as \in {"text", "foreign", "revived"} : Parse(as)

Spec == Init /\ [][Next]_<<textVars, read>>

-----------------------------------------------------------------------------
(***************************************************************************)
(* Properties                                                              *)
(***************************************************************************)

(* What JSON can say of a value, hidden in the types it cannot.            *)
RECURSIVE Sayable(_, _)
Sayable(value, hidden) ==
    LET IsSaid(member) == member.value.type \notin hidden
        said == SelectSeq(value.members, IsSaid)
    IN  CASE value.type \in {"dated", "nested"} -> String(value.chars)
          [] value.type = "NaN" -> Null
          [] value.type = "array" ->
                Array([n \in DOMAIN value.elements |->
                         IF value.elements[n].type \in hidden THEN Null
                         ELSE Sayable(value.elements[n], hidden)])
          [] value.type = "object" ->
                Object([n \in DOMAIN said |-> Member(said[n].key, Sayable(said[n].value, hidden))])
          [] OTHER -> value

Hidden(replacer) == {"undefined"} \cup (IF replacer = HideNumbers THEN {"number"} ELSE {})

(* RoundTrip: parse makes of a text of stringify the value again, as far   *)
(* as JSON can say it and the replacer let it; of the server's text too,   *)
(* with characters in it that JavaScript would ignore.  A toJSON method    *)
(* that calls stringify does no harm if there is no replacer.              *)
RoundTrip ==
    read.as \in {"text", "foreign"}
        /\ \/ call.replacer = NoReplacer
           \/ call.replacer = HideNumbers /\ ~call.nested
        => read.result = [raised |-> FALSE, value |-> Sayable(call.value, Hidden(call.replacer))]

(* RevivedLikeReplaced: hiding values with a reviver while reading gives   *)
(* the value that hiding them while writing gives, with a hole where that  *)
(* has null.                                                               *)
RECURSIVE WithoutHoles(_)
WithoutHoles(value) ==
    CASE value.type = "array" ->
            Array([n \in DOMAIN value.elements |->
                     IF value.elements[n] = Undefined THEN Null ELSE WithoutHoles(value.elements[n])])
      [] value.type = "object" ->
            Object([n \in DOMAIN value.members |->
                      Member(value.members[n].key, WithoutHoles(value.members[n].value))])
      [] OTHER -> value

RevivedLikeReplaced ==
    read.as = "revived" /\ call.replacer = NoReplacer /\ call.value.type # "number"
        => WithoutHoles(read.result.value) = Sayable(call.value, Hidden(HideNumbers))
=============================================================================
