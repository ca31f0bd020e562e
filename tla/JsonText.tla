------------------------------ MODULE JsonText ------------------------------
(***************************************************************************)
(* public/pf/json2.js, JSON.stringify.  A text is a sequence of tokens; a  *)
(* JavaScript value is a record with its type.  gap, indent and rep are    *)
(* variables that all calls share, the nested ones that a toJSON method    *)
(* makes as well.  An action goes on from one call of str to the next or   *)
(* to its return: what stack holds of the JavaScript stack are the loops   *)
(* of str over elements and members that have not ended, innermost first.  *)
(***************************************************************************)
EXTENDS Integers, Sequences, Subsequences

CONSTANTS
    Breaking,       \* the characters that break a string: ", \, newline
    Ignored,        \* those that JavaScript ignores when it evaluates a text
    Values, Replacers, Spaces       \* the arguments of the calls

Escapable == Breaking \cup Ignored

Undefined == [type |-> "undefined"]     \* functions are treated alike
Null == [type |-> "null"]
Number(n) == [type |-> "number", is |-> n]
NaN == [type |-> "NaN"]                 \* or infinite
String(chars) == [type |-> "string", chars |-> chars]
Array(elements) == [type |-> "array", elements |-> elements]
Object(members) == [type |-> "object", members |-> members]
Member(key, value) == [key |-> key, value |-> value]

(* Objects with a toJSON method: like Date it returns a string, it raises, *)
(* or it calls JSON.stringify(value) itself before it returns a string.    *)
Dated(chars) == [type |-> "dated", chars |-> chars]
Faulty == [type |-> "faulty"]
Nested(chars, value) == [type |-> "nested", chars |-> chars, value |-> value]

Keys(value) == {value.members[n].key : n \in DOMAIN value.members}

(* value[key], which is undefined if there is no such member.              *)
At(value, key) ==
    IF key \in Keys(value)
    THEN (CHOOSE m \in {value.members[n] : n \in DOMAIN value.members} : m.key = key).value
    ELSE Undefined

Token(t) == [token |-> t]
Newline(n) == [token |-> "newline", length |-> n]
Literal(value) == [token |-> "literal", value |-> value]

(* A string in a text, each character with whether it is escaped.          *)
Quoted(chars, escaped) ==
    [token |-> "string", chars |-> [n \in DOMAIN chars |-> [is |-> chars[n], escaped |-> chars[n] \in escaped]]]

quote(chars) == <<Quoted(chars, Escapable)>>

(* A replacer is none, a function, a list of keys, or nothing of these.    *)
NoReplacer == [is |-> "none"]
HideNumbers == [is |-> "function"]      \* returns undefined for numbers
Select(keys) == [is |-> "keys", keys |-> keys]
BadReplacer == [is |-> "bad"]

ASSUME SpacesAssumption == Spaces \subseteq Nat
ASSUME ReplacersAssumption ==
    \A replacer \in Replacers : replacer.is = "keys" =>
        replacer.keys \in Seq({replacer.keys[n] : n \in DOMAIN replacer.keys})

VARIABLES
    gap, indent, rep,   \* the variables of the library
    stack,              \* the loops of str that have not ended
    call                \* the page's call: its arguments, state and text

libVars == <<gap, indent, rep>>
textVars == <<gap, indent, rep, stack, call>>

NoCall == [value |-> Undefined, replacer |-> NoReplacer, space |-> 0,
           state |-> "none", nested |-> FALSE, text |-> <<>>]

TextInit == gap = 0 /\ indent = 0 /\ rep = NoReplacer /\ stack = <<>> /\ call = NoCall

-----------------------------------------------------------------------------
(***************************************************************************)
(* The loops                                                               *)
(***************************************************************************)

(* A loop of str over an array ("["), over an object ("{"), listed if over *)
(* the keys of a list, or the fake root object of a stringify ("call"):    *)
(* the members it has still to ask str for, the texts of those before      *)
(* (partial), and the gap there was (mind).                                *)
Frame(open, listed, todo, mind) ==
    [open |-> open, listed |-> listed, todo |-> todo, mind |-> mind, partial |-> <<>>]

frame == Head(stack)
holds == Head(frame.todo).value     \* holder[key]

(* What toJSON and then the replacer make of a value.                      *)
ToJSON(value) == IF value.type = "dated" THEN String(value.chars) ELSE value

Replace(value) ==
    IF rep.is = "function" /\ value.type = "number" THEN Undefined ELSE value

(* Mutant: an object's own members whatever the list says.                 *)
TriedAll(value) == value.members

(* The members that are tried: those the list names, whether they are      *)
(* there or not, or the object's own.                                      *)
Tried(value) ==
    IF rep.is = "keys"
    THEN [n \in DOMAIN rep.keys |-> Member(rep.keys[n], At(value, rep.keys[n]))]
    ELSE value.members

Loop(value) ==
    IF value.type = "array"
    THEN Frame("[", FALSE, [n \in DOMAIN value.elements |-> Member(n, value.elements[n])], gap)
    ELSE Frame("{", rep.is = "keys", Tried(value), gap)

(* What a value without parts comes to; no text if it is undefined.        *)
Text(value) ==
    CASE value.type = "string" -> quote(value.chars)
      [] value.type \in {"number", "boolean", "null"} -> <<Literal(value)>>
      [] value.type = "NaN" -> <<Literal(Null)>>
      [] OTHER -> <<>>

(* What a loop makes of the text of its member: null stands in for an      *)
(* element that has none, a member that has none is left out.              *)
Part(loop, text, width) ==
    CASE loop.open = "call" -> <<text>>
      [] loop.open = "[" -> <<IF text = <<>> THEN <<Literal(Null)>> ELSE text>>
      [] loop.open = "{" ->
            IF text = <<>> THEN <<>>
            ELSE <<quote(Head(loop.todo).key) \o <<Token(IF width = 0 THEN ":" ELSE ": ")>> \o text>>

(* str returns a text to the innermost of some loops.                      *)
Returned(text, loops, width) ==
    <<[Head(loops) EXCEPT !.todo = Tail(@), !.partial = @ \o Part(Head(loops), text, width)]>>
        \o Tail(loops)

(* partial, joined with commas, and on lines of their own if there is a gap*)
Join(parts) ==
    LET upTo[n \in DOMAIN parts] ==
            IF n = 1 THEN parts[1] ELSE upTo[n - 1] \o <<Token(",")>> \o parts[n]
    IN  upTo[Len(parts)]

Wrap(loop, width) ==
    LET OnLine(text, length) == IF width = 0 THEN text ELSE <<Newline(length)>> \o text
        lines == [n \in DOMAIN loop.partial |-> OnLine(loop.partial[n], width)]
        close == <<Token(IF loop.open = "[" THEN "]" ELSE "}")>>
    IN  <<Token(loop.open)>> \o
        (IF lines = <<>> THEN close ELSE Join(lines) \o OnLine(close, loop.mind))

-----------------------------------------------------------------------------
(***************************************************************************)
(* The steps of a call                                                     *)
(***************************************************************************)

(* Mutant: gap is not set at the start.                                    *)
BeginKeepingGap(value, replacer, space) ==
    /\ gap' = gap /\ indent' = space /\ rep' = replacer
    /\ stack' = <<Frame("call", FALSE, <<Member("", value)>>, 0)>> \o stack

(* JSON.stringify sets the variables and has str look for the value in a   *)
(* fake root object.                                                       *)
Begin(value, replacer, space) ==
    /\ gap' = 0 /\ indent' = space /\ rep' = replacer
    /\ stack' = <<Frame("call", FALSE, <<Member("", value)>>, 0)>> \o stack

(* The page calls it; it raises if the replacer is none.                   *)
Stringify(value, replacer, space) ==
    /\ replacer.is # "bad"
    /\ Begin(value, replacer, space)
    /\ call' = [NoCall EXCEPT !.value = value, !.replacer = replacer, !.space = space,
                              !.state = "running"]

StringifyRefused(value, replacer, space) ==
    /\ replacer.is = "bad"
    /\ gap' = 0 /\ indent' = space /\ rep' = replacer
    /\ call' = [NoCall EXCEPT !.value = value, !.replacer = replacer, !.space = space,
                              !.state = "raised"]
    /\ UNCHANGED stack

Trying == stack # <<>> /\ frame.todo # <<>>

(* The loop over a list of keys looks into rep again for each of them; a   *)
(* nested call may have set it.                                            *)
ListIsLost == frame.listed /\ rep.is # "keys"

Raise ==
    /\ Trying /\ (ListIsLost \/ holds.type = "faulty")
    /\ stack' = <<>>
    /\ call' = [call EXCEPT !.state = "raised"]
    /\ UNCHANGED libVars

(* A toJSON method calls JSON.stringify.                                   *)
CallNested ==
    /\ Trying /\ ~ListIsLost /\ holds.type = "nested"
    /\ Begin(holds.value, NoReplacer, 0)
    /\ call' = [call EXCEPT !.nested = TRUE]

(* str of a value without parts.                                           *)
StrText ==
    /\ Trying /\ ~ListIsLost /\ holds.type \notin {"faulty", "nested", "array", "object"}
    /\ stack' = Returned(Text(Replace(ToJSON(holds))), stack, gap)
    /\ UNCHANGED <<gap, indent, rep, call>>

(* str of an array or an object enters a loop, with a larger gap.          *)
StrParts ==
    /\ Trying /\ ~ListIsLost /\ holds.type \in {"array", "object"}
    /\ stack' = <<Loop(holds)>> \o stack
    /\ gap' = gap + indent
    /\ UNCHANGED <<indent, rep, call>>

Ended(opens) == stack # <<>> /\ frame.todo = <<>> /\ frame.open \in opens

(* Mutant: the gap stays as large as the parts needed it.                  *)
StrReturnsLeavingGap ==
    /\ Ended({"[", "{"})
    /\ stack' = Returned(Wrap(frame, gap), Tail(stack), frame.mind)
    /\ UNCHANGED <<gap, indent, rep, call>>

(* The loop ends: the text of the parts, and the gap it had in mind.       *)
StrReturns ==
    /\ Ended({"[", "{"})
    /\ stack' = Returned(Wrap(frame, gap), Tail(stack), frame.mind)
    /\ gap' = frame.mind
    /\ UNCHANGED <<indent, rep, call>>

(* A nested call returns to its toJSON method, and that to str.            *)
NestedReturns ==
    /\ Ended({"call"}) /\ Tail(stack) # <<>>
    /\ stack' = Returned(quote(Head(stack[2].todo).value.chars), Tail(stack), gap)
    /\ UNCHANGED <<gap, indent, rep, call>>

StringifyReturns ==
    /\ Ended({"call"}) /\ Tail(stack) = <<>>
    /\ stack' = <<>>
    /\ call' = [call EXCEPT !.state = "done", !.text = frame.partial[1]]
    /\ UNCHANGED libVars

(* On to the page's next call.                                             *)
Forget ==
    /\ call.state \in {"done", "raised"}
    /\ call' = NoCall
    /\ UNCHANGED <<gap, indent, rep, stack>>

TextNext ==
    \/ /\ call.state = "none"
       /\ \E value \in Values, replacer \in Replacers, space \in Spaces :
             Stringify(value, replacer, space) \/ StringifyRefused(value, replacer, space)
    \/ Raise \/ CallNested \/ StrText \/ StrParts \/ StrReturns \/ NestedReturns
    \/ StringifyReturns \/ Forget

TextSpec == TextInit /\ [][TextNext]_textVars

-----------------------------------------------------------------------------
(***************************************************************************)
(* Properties                                                              *)
(***************************************************************************)

(* TypeOK: the library's variables have their types, and a call that       *)
(* succeeds has taken back all the indentation that it added, whatever     *)
(* calls its toJSON methods made meanwhile.                                *)
TypeOK ==
    /\ gap \in Nat /\ indent \in Nat
    /\ rep \in Replacers \cup {NoReplacer}
    /\ call.state = "running" <=> stack # <<>>
    /\ call.state = "done" => gap = 0

(* The brackets that are open at the end of a text.                        *)
Opened(text) ==
    Len(Among(text, {Token("["), Token("{")})) - Len(Among(text, {Token("]"), Token("}")}))

Closes(token) == token.token \in {"]", "}"}

(* Each line of a text is indented by the space for each bracket that is   *)
(* open where it begins, base more of them before the text, less one if it *)
(* closes one; and there are no lines if there is no space.                *)
LaidOut(text, base, space) ==
    \A n \in DOMAIN text : text[n].token = "newline" =>
        /\ space > 0 /\ n < Len(text)
        /\ text[n].length = space * (base + Opened(SubSeq(text, 1, n))
                                          - (IF Closes(text[n + 1]) THEN 1 ELSE 0))

(* Layout: the text of a call is laid out, whatever call came before.  (A  *)
(* nested call ends the indentation of the call that it is nested in.)     *)
Layout == call.state = "done" /\ ~call.nested => LaidOut(call.text, 0, call.space)

(* SelectsKeys: a list of keys for replacer selects the members of all     *)
(* objects, at any depth.  (Not behind a nested call: it has dropped the   *)
(* list.)                                                                  *)
Selected(text, keys) ==
    \A n \in DOMAIN text : text[n].token \in {":", ": "} =>
        n > 1 /\ \E k \in DOMAIN keys : text[n - 1] = quote(keys[k])[1]

SelectsKeys ==
    call.state = "done" /\ ~call.nested /\ call.replacer.is = "keys" =>
        Selected(call.text, call.replacer.keys)
=============================================================================
