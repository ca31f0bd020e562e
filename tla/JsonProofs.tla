----------------------------- MODULE JsonProofs -----------------------------
(***************************************************************************)
(* Proofs about JsonText, for any values, replacers and spaces.            *)
(***************************************************************************)
EXTENDS JsonText, SequenceFacts

-----------------------------------------------------------------------------
(***************************************************************************)
(* Sequences of whatever it may be: tokens and values have no type here.   *)
(***************************************************************************)

IsSeq(s) == \E X : s \in Seq(X)

(* A sequence over a set is one over a larger set.                         *)
LEMMA LargerSet ==
    ASSUME NEW X, NEW Y, NEW s \in Seq(X)
    PROVE  s \in Seq(X \cup Y) /\ s \in Seq(Y \cup X)
  OBVIOUS

(* Two sequences are over one set.                                         *)
LEMMA OverOneSet ==
    ASSUME NEW s, NEW t, IsSeq(s), IsSeq(t)
    PROVE  \E X : s \in Seq(X) /\ t \in Seq(X)
<1>1. PICK X : s \in Seq(X)
  BY DEF IsSeq
<1>2. PICK Y : t \in Seq(Y)
  BY DEF IsSeq
<1>3. s \in Seq(X \cup Y) /\ t \in Seq(X \cup Y)
  BY <1>1, <1>2, LargerSet
<1> QED BY <1>3

(* One after the other.                                                    *)
LEMMA Concat ==
    ASSUME NEW s, NEW t, IsSeq(s), IsSeq(t)
    PROVE  /\ IsSeq(s \o t) /\ Len(s \o t) = Len(s) + Len(t)
           /\ Len(s) \in Nat /\ Len(t) \in Nat
           /\ DOMAIN s = 1 .. Len(s) /\ DOMAIN t = 1 .. Len(t)
           /\ DOMAIN (s \o t) = 1 .. Len(s) + Len(t)
           /\ \A n \in 1 .. Len(s) : (s \o t)[n] = s[n]
           /\ \A n \in 1 .. Len(t) : (s \o t)[Len(s) + n] = t[n]
           /\ s # <<>> => s \o t # <<>> /\ (s \o t)[1] = s[1]
<1>1. PICK X : s \in Seq(X) /\ t \in Seq(X)
  BY OverOneSet
<1>2. /\ s \o t \in Seq(X) /\ Len(s \o t) = Len(s) + Len(t)
      /\ Len(s) \in Nat /\ Len(t) \in Nat
      /\ \A n \in 1 .. Len(s) : (s \o t)[n] = s[n]
      /\ \A n \in 1 .. Len(t) : (s \o t)[Len(s) + n] = t[n]
  BY <1>1, ConcatFacts
<1>3. DOMAIN s = 1 .. Len(s) /\ DOMAIN t = 1 .. Len(t) /\ DOMAIN (s \o t) = 1 .. Len(s) + Len(t)
  BY <1>1, <1>2
<1>4. ASSUME s # <<>> PROVE s \o t # <<>> /\ (s \o t)[1] = s[1]
  <2>1. Len(s) > 0
    BY <1>1, <1>4
  <2> QED BY <1>1, <1>2, <2>1
<1> QED BY <1>2, <1>3, <1>4 DEF IsSeq

(* One element.                                                            *)
LEMMA Single ==
    ASSUME NEW x
    PROVE  /\ IsSeq(<<x>>) /\ Len(<<x>>) = 1 /\ <<x>>[1] = x /\ <<x>> # <<>>
           /\ DOMAIN <<x>> = 1 .. 1 /\ \A n \in DOMAIN <<x>> : n = 1
<1>1. <<x>> \in Seq({x})
  OBVIOUS
<1>2. IsSeq(<<x>>)
  BY <1>1 DEF IsSeq
<1>3. Len(<<x>>) = 1 /\ <<x>>[1] = x /\ DOMAIN <<x>> = 1 .. 1
  OBVIOUS
<1>4. <<x>> # <<>>
  OBVIOUS
<1>5. \A n \in 1 .. 1 : n = 1
  OBVIOUS
<1> QED BY <1>2, <1>3, <1>4, <1>5, Zenon

(* None.                                                                   *)
LEMMA Empty == IsSeq(<<>>) /\ Len(<<>>) = 0 /\ DOMAIN <<>> = {}
<1>1. <<>> \in Seq({})
  OBVIOUS
<1>2. IsSeq(<<>>)
  BY <1>1 DEF IsSeq
<1>3. Len(<<>>) = 0 /\ DOMAIN <<>> = {}
  OBVIOUS
<1> QED BY <1>2, <1>3

(* The elements behind the first.                                          *)
LEMMA Behind ==
    ASSUME NEW s, IsSeq(s), s # <<>>
    PROVE  /\ IsSeq(Tail(s)) /\ Len(Tail(s)) = Len(s) - 1 /\ Len(s) \in Nat \ {0}
           /\ Head(s) = s[1] /\ DOMAIN s = 1 .. Len(s) /\ DOMAIN Tail(s) = 1 .. Len(s) - 1
           /\ \A n \in 1 .. Len(s) - 1 : Tail(s)[n] = s[n + 1]
           /\ Len(s) = 1 <=> Tail(s) = <<>>
<1>1. PICK X : s \in Seq(X)
  BY DEF IsSeq
<1>2. /\ Tail(s) \in Seq(X) /\ Len(Tail(s)) = Len(s) - 1 /\ Len(s) \in Nat /\ Len(s) > 0
      /\ Head(s) = s[1] /\ DOMAIN Tail(s) = 1 .. Len(s) - 1
      /\ \A n \in DOMAIN Tail(s) : Tail(s)[n] = s[n + 1]
  BY <1>1, TailFacts
<1>3. DOMAIN s = 1 .. Len(s)
  BY <1>1
<1>4. Len(s) = 1 <=> Tail(s) = <<>>
  BY <1>2
<1> QED BY <1>2, <1>3, <1>4 DEF IsSeq

(* The first elements of a text.                                           *)
LEMMA Beginning ==
    ASSUME NEW s, NEW t, IsSeq(s), IsSeq(t)
    PROVE  /\ \A n \in 1 .. Len(s) : SubSeq(s \o t, 1, n) = SubSeq(s, 1, n)
           /\ \A n \in 1 .. Len(t) : SubSeq(s \o t, 1, Len(s) + n) = s \o SubSeq(t, 1, n)
           /\ \A n \in 1 .. Len(t) : IsSeq(SubSeq(t, 1, n))
           /\ \A n \in 1 .. Len(s) : IsSeq(SubSeq(s, 1, n))
<1>1. PICK X : s \in Seq(X) /\ t \in Seq(X)
  BY OverOneSet
<1>2. ASSUME NEW n \in 1 .. Len(s) PROVE SubSeq(s \o t, 1, n) = SubSeq(s, 1, n)
  BY <1>1
<1>3. ASSUME NEW n \in 1 .. Len(t)
      PROVE  SubSeq(s \o t, 1, Len(s) + n) = s \o SubSeq(t, 1, n)
  BY <1>1
<1>4. ASSUME NEW n \in 1 .. Len(t) PROVE IsSeq(SubSeq(t, 1, n))
  <2>1. SubSeq(t, 1, n) \in Seq(X)
    BY <1>1
  <2> QED BY <2>1 DEF IsSeq
<1>5. ASSUME NEW n \in 1 .. Len(s) PROVE IsSeq(SubSeq(s, 1, n))
  <2>1. SubSeq(s, 1, n) \in Seq(X)
    BY <1>1
  <2> QED BY <2>1 DEF IsSeq
<1> QED BY <1>2, <1>3, <1>4, <1>5

BegunBoth(u, s, t, n) ==
    SubSeq(u, 1, Len(s) + n) = s \o SubSeq(t, 1, n) /\ IsSeq(SubSeq(t, 1, n))

LEMMA BeginningOfBoth ==
    ASSUME NEW s, NEW t, IsSeq(s), IsSeq(t)
    PROVE  \A n \in 1 .. Len(t) : BegunBoth(s \o t, s, t, n)
<1> SUFFICES ASSUME NEW n \in 1 .. Len(t) PROVE BegunBoth(s \o t, s, t, n)
  OBVIOUS
<1>1. PICK X : s \in Seq(X) /\ t \in Seq(X)
  BY OverOneSet
<1>2. SubSeq(s \o t, 1, Len(s) + n) = s \o SubSeq(t, 1, n)
  BY <1>1
<1>3. IsSeq(SubSeq(t, 1, n))
  BY Beginning, Zenon
<1> QED BY <1>2, <1>3, Zenon DEF BegunBoth
-----------------------------------------------------------------------------
(***************************************************************************)
(* Texts                                                                   *)
(***************************************************************************)

Opening == {Token("["), Token("{")}
Closing == {Token("]"), Token("}")}

(* What brackets look like.                                                *)
LEMMA Brackets ==
    /\ \A y \in Opening : y.token = "[" \/ y.token = "{"
    /\ \A y \in Closing : y.token = "]" \/ y.token = "}"
    /\ \A t : t \in {"[", "{"} => Token(t) \in Opening
    /\ \A t : t \in {"]", "}"} => Token(t) \in Closing
<1>1. \A t : Token(t).token = t
  BY DEF Token
<1>2. ASSUME NEW y \in Opening PROVE y.token = "[" \/ y.token = "{"
  <2>1. y = Token("[") \/ y = Token("{")
    BY Zenon DEF Opening
  <2> QED BY <1>1, <2>1, Zenon
<1>3. ASSUME NEW y \in Closing PROVE y.token = "]" \/ y.token = "}"
  <2>1. y = Token("]") \/ y = Token("}")
    BY Zenon DEF Closing
  <2> QED BY <1>1, <2>1, Zenon
<1>4. /\ \A t : t \in {"[", "{"} => Token(t) \in Opening
      /\ \A t : t \in {"]", "}"} => Token(t) \in Closing
  BY Zenon DEF Opening, Closing
<1> QED BY <1>2, <1>3, <1>4, Zenon

(* No other token is a bracket.                                            *)
LEMMA NoBracket ==
    ASSUME NEW x, x.token \notin {"[", "{", "]", "}"}
    PROVE  x \notin Opening /\ x \notin Closing
  BY Brackets, Zenon

(* The brackets that are open add up.                                      *)
LEMMA OpenedConcat ==
    ASSUME NEW s, NEW t, IsSeq(s), IsSeq(t)
    PROVE  Opened(s) \in Int /\ Opened(t) \in Int /\ Opened(s \o t) = Opened(s) + Opened(t)
<1>1. PICK X : s \in Seq(X) /\ t \in Seq(X)
  BY OverOneSet
<1>2. ASSUME NEW S
      PROVE  /\ Len(Among(s, S)) \in Nat /\ Len(Among(t, S)) \in Nat
             /\ Len(Among(s \o t, S)) = Len(Among(s, S)) + Len(Among(t, S))
  <2>1. Among(s \o t, S) = Among(s, S) \o Among(t, S)
    BY <1>1, AmongConcat
  <2>2. Among(s, S) \in Seq(X \cap S) /\ Among(t, S) \in Seq(X \cap S)
    BY <1>1, AmongType
  <2> QED BY <2>1, <2>2, ConcatFacts
<1>3. Opening = {Token("["), Token("{")} /\ Closing = {Token("]"), Token("}")}
  BY DEF Opening, Closing
<1>4. \A u : Opened(u) = Len(Among(u, Opening)) - Len(Among(u, Closing))
  BY <1>3 DEF Opened
<1> HIDE DEF Opening, Closing
<1>5. /\ Len(Among(s, Opening)) \in Nat /\ Len(Among(t, Opening)) \in Nat
      /\ Len(Among(s \o t, Opening)) = Len(Among(s, Opening)) + Len(Among(t, Opening))
      /\ Len(Among(s, Closing)) \in Nat /\ Len(Among(t, Closing)) \in Nat
      /\ Len(Among(s \o t, Closing)) = Len(Among(s, Closing)) + Len(Among(t, Closing))
  BY <1>2
<1> QED BY <1>4, <1>5

(* One token opens a bracket, closes one, or does neither.                 *)
LEMMA OpenedOne ==
    ASSUME NEW x
    PROVE  /\ x \in Opening => Opened(<<x>>) = 1
           /\ x \in Closing => Opened(<<x>>) = -1
           /\ x \notin Opening \cup Closing => Opened(<<x>>) = 0
<1>1. ASSUME NEW S PROVE Among(<<x>>, S) = IF x \in S THEN <<x>> ELSE <<>>
  <2>1. <<>> \in Seq({x}) /\ Append(<<>>, x) = <<x>>
    OBVIOUS
  <2>2. Among(Append(<<>>, x), S) = AppendIf(Among(<<>>, S), x, S)
    BY <2>1, AmongAppend
  <2> QED
    BY <2>1, <2>2, AmongEmpty, Zenon DEF AppendIf
<1>2. Opened(<<x>>) = Len(Among(<<x>>, Opening)) - Len(Among(<<x>>, Closing))
  BY DEF Opened, Opening, Closing
<1>3. \A y : y \in Opening => y \notin Closing
  BY Brackets
<1> HIDE DEF Opening, Closing
<1>4. Among(<<x>>, Opening) = (IF x \in Opening THEN <<x>> ELSE <<>>)
      /\ Among(<<x>>, Closing) = (IF x \in Closing THEN <<x>> ELSE <<>>)
  BY <1>1
<1>5. Len(<<x>>) = 1 /\ Len(<<>>) = 0
  OBVIOUS
<1>6. /\ Len(Among(<<x>>, Opening)) = (IF x \in Opening THEN 1 ELSE 0)
      /\ Len(Among(<<x>>, Closing)) = (IF x \in Closing THEN 1 ELSE 0)
  BY <1>4, <1>5, Zenon
<1> DEFINE a == Len(Among(<<x>>, Opening))  b == Len(Among(<<x>>, Closing))
<1>7. a = 1 /\ b = 0 => a - b = 1
  OBVIOUS
<1>8. CASE x \in Opening
  <2>1. Len(Among(<<x>>, Opening)) = 1 /\ Len(Among(<<x>>, Closing)) = 0
    BY <1>3, <1>6, <1>8, Zenon
  <2>2. Opened(<<x>>) = 1
    BY <1>2, <1>7, <2>1, Zenon
  <2> QED BY <1>3, <1>8, <2>2, Zenon
<1>9. CASE x \in Closing
  <2>1. Len(Among(<<x>>, Opening)) = 0 /\ Len(Among(<<x>>, Closing)) = 1
    BY <1>3, <1>6, <1>9, Zenon
  <2>2. Opened(<<x>>) = -1
    BY <1>2, <2>1
  <2> QED BY <1>3, <1>9, <2>2, Zenon
<1>10. CASE x \notin Opening \cup Closing
  <2>1. Len(Among(<<x>>, Opening)) = 0 /\ Len(Among(<<x>>, Closing)) = 0
    BY <1>6, <1>10
  <2>2. Opened(<<x>>) = 0
    BY <1>2, <2>1
  <2> QED BY <1>10, <2>2, Zenon
<1> QED BY <1>8, <1>9, <1>10

(* What a piece of a text within base brackets has to be, written with a   *)
(* space and a replacer.                                                   *)
Piece(text, base, space, replacer) ==
    /\ IsSeq(text)
    /\ LaidOut(text, base, space)
    /\ replacer.is = "keys" => Selected(text, replacer.keys)

(* Pieces make a piece.                                                    *)
LEMMA LaidOutConcat ==
    ASSUME NEW s, NEW t, IsSeq(s), IsSeq(t), NEW base \in Int, NEW space \in Nat,
           LaidOut(s, base, space), LaidOut(t, base + Opened(s), space)
    PROVE  LaidOut(s \o t, base, space)
<1> DEFINE u == s \o t
<1>1. SUFFICES ASSUME NEW n \in DOMAIN u, u[n].token = "newline"
               PROVE  /\ space > 0 /\ n < Len(u)
                      /\ u[n].length = space * (base + Opened(SubSeq(u, 1, n))
                                                   - (IF Closes(u[n + 1]) THEN 1 ELSE 0))
  BY DEF LaidOut
<1>2. /\ Len(u) = Len(s) + Len(t) /\ Len(s) \in Nat /\ Len(t) \in Nat
      /\ DOMAIN s = 1 .. Len(s) /\ DOMAIN t = 1 .. Len(t) /\ DOMAIN u = 1 .. Len(s) + Len(t)
      /\ \A m \in 1 .. Len(s) : u[m] = s[m]
      /\ \A m \in 1 .. Len(t) : u[Len(s) + m] = t[m]
  BY Concat
<1>3. CASE n \in 1 .. Len(s)
  <2>1. u[n] = s[n] /\ n \in DOMAIN s
    BY <1>2, <1>3
  <2>2. /\ space > 0 /\ n < Len(s)
        /\ s[n].length = space * (base + Opened(SubSeq(s, 1, n))
                                     - (IF Closes(s[n + 1]) THEN 1 ELSE 0))
    BY <1>1, <2>1, Zenon DEF LaidOut
  <2>3. u[n + 1] = s[n + 1] /\ n < Len(u)
    BY <1>2, <1>3, <2>2
  <2>4. SubSeq(u, 1, n) = SubSeq(s, 1, n)
    BY <1>3, Beginning
  <2> QED BY <2>1, <2>2, <2>3, <2>4, Zenon
<1>4. CASE n \notin 1 .. Len(s)
  <2>1. PICK m \in 1 .. Len(t) : n = Len(s) + m
    <3>1. n - Len(s) \in 1 .. Len(t) /\ n = Len(s) + (n - Len(s))
      BY <1>2, <1>4
    <3> QED BY <3>1
  <2>2. u[n] = t[m] /\ m \in DOMAIN t
    BY <1>2, <2>1
  <2>3. /\ space > 0 /\ m < Len(t)
        /\ t[m].length = space * (base + Opened(s) + Opened(SubSeq(t, 1, m))
                                     - (IF Closes(t[m + 1]) THEN 1 ELSE 0))
    BY <1>1, <2>2, Zenon DEF LaidOut
  <2>4. u[n + 1] = t[m + 1] /\ n < Len(u)
    <3>1. m + 1 \in 1 .. Len(t) /\ n + 1 = Len(s) + (m + 1) /\ n < Len(s) + Len(t)
      BY <1>2, <2>1, <2>3
    <3> QED BY <1>2, <3>1
  <2>5. SubSeq(u, 1, n) = s \o SubSeq(t, 1, m) /\ IsSeq(SubSeq(t, 1, m))
    <3>1. SubSeq(u, 1, Len(s) + m) = s \o SubSeq(t, 1, m) /\ IsSeq(SubSeq(t, 1, m))
      <4>1. BegunBoth(u, s, t, m)
        BY <2>1, BeginningOfBoth, Zenon
      <4> QED BY <4>1, Zenon DEF BegunBoth
    <3> QED BY <2>1, <3>1, Zenon
  <2>6. Opened(s) \in Int /\ Opened(SubSeq(t, 1, m)) \in Int
        /\ Opened(SubSeq(u, 1, n)) = Opened(s) + Opened(SubSeq(t, 1, m))
    BY <2>5, OpenedConcat
  <2>7. \A c \in {0, 1} : base + Opened(s) + Opened(SubSeq(t, 1, m)) - c
                             = base + Opened(SubSeq(u, 1, n)) - c
    BY <2>6
  <2>8. u[n].length = space * (base + Opened(SubSeq(u, 1, n))
                                 - (IF Closes(u[n + 1]) THEN 1 ELSE 0))
    <3>1. t[m].length = space * (base + Opened(SubSeq(u, 1, n))
                                   - (IF Closes(t[m + 1]) THEN 1 ELSE 0))
      <4> DEFINE c == IF Closes(t[m + 1]) THEN 1 ELSE 0
      <4>1. c \in {0, 1}
        OBVIOUS
      <4>2. t[m].length = space * (base + Opened(s) + Opened(SubSeq(t, 1, m)) - c)
        BY <2>3, Zenon
      <4> HIDE DEF c
      <4>3. t[m].length = space * (base + Opened(SubSeq(u, 1, n)) - c)
        BY <2>7, <4>1, <4>2, Zenon
      <4> QED BY <4>3 DEF c
    <3> QED BY <2>2, <2>4, <3>1, Zenon
  <2> QED BY <2>3, <2>4, <2>8, Zenon
<1> QED BY <1>3, <1>4

LEMMA PieceConcat ==
    ASSUME NEW s, NEW t, NEW base \in Int, NEW space \in Nat, NEW replacer,
           Piece(s, base, space, replacer), Piece(t, base + Opened(s), space, replacer)
    PROVE  Piece(s \o t, base, space, replacer)
<1>1. IsSeq(s) /\ IsSeq(t) /\ LaidOut(s, base, space) /\ LaidOut(t, base + Opened(s), space)
  BY Zenon DEF Piece
<1>2. LaidOut(s \o t, base, space)
  BY <1>1, LaidOutConcat
<1>3. ASSUME replacer.is = "keys" PROVE Selected(s \o t, replacer.keys)
  <2> DEFINE u == s \o t
  <2>1. Selected(s, replacer.keys) /\ Selected(t, replacer.keys)
    BY <1>3, Zenon DEF Piece
  <2>2. /\ Len(s) \in Nat /\ Len(t) \in Nat
        /\ DOMAIN s = 1 .. Len(s) /\ DOMAIN t = 1 .. Len(t) /\ DOMAIN u = 1 .. Len(s) + Len(t)
        /\ \A m \in 1 .. Len(s) : u[m] = s[m]
        /\ \A m \in 1 .. Len(t) : u[Len(s) + m] = t[m]
    BY <1>1, Concat
  <2>3. ASSUME NEW n \in DOMAIN u, u[n].token \in {":", ": "}
        PROVE  n > 1 /\ \E k \in DOMAIN replacer.keys : u[n - 1] = quote(replacer.keys[k])[1]
    <3>1. CASE n \in 1 .. Len(s)
      <4>1. u[n] = s[n] /\ n \in DOMAIN s
        BY <2>2, <3>1
      <4>2. n > 1 /\ \E k \in DOMAIN replacer.keys : s[n - 1] = quote(replacer.keys[k])[1]
        BY <2>1, <2>3, <4>1, Zenon DEF Selected
      <4>3. u[n - 1] = s[n - 1]
        BY <2>2, <3>1, <4>2
      <4> QED BY <4>2, <4>3
    <3>2. CASE n \notin 1 .. Len(s)
      <4>1. PICK m \in 1 .. Len(t) : n = Len(s) + m
        <5>1. n - Len(s) \in 1 .. Len(t) /\ n = Len(s) + (n - Len(s))
          BY <2>2, <3>2
        <5> QED BY <5>1
      <4>2. u[n] = t[m] /\ m \in DOMAIN t
        BY <2>2, <4>1
      <4>3. m > 1 /\ \E k \in DOMAIN replacer.keys : t[m - 1] = quote(replacer.keys[k])[1]
        BY <2>1, <2>3, <4>2, Zenon DEF Selected
      <4>4. u[n - 1] = t[m - 1] /\ n > 1
        <5>1. m - 1 \in 1 .. Len(t) /\ n - 1 = Len(s) + (m - 1) /\ n > 1
          BY <2>2, <4>1, <4>3
        <5> QED BY <2>2, <5>1
      <4> QED BY <4>3, <4>4
    <3> QED BY <3>1, <3>2
  <2> QED BY <2>3 DEF Selected
<1>4. IsSeq(s \o t)
  BY <1>1, Concat
<1> QED BY <1>2, <1>3, <1>4, Zenon DEF Piece

(* A token that is no newline and no colon.                                *)
LEMMA PieceOne ==
    ASSUME NEW x, x.token \notin {"newline", ":", ": "}, NEW base, NEW space, NEW replacer
    PROVE  Piece(<<x>>, base, space, replacer)
<1>1. IsSeq(<<x>>) /\ DOMAIN <<x>> = 1 .. 1 /\ <<x>>[1] = x
  BY Single
<1>2. \A n \in DOMAIN <<x>> : <<x>>[n].token \notin {"newline", ":", ": "}
  <2>1. \A n \in DOMAIN <<x>> : n = 1
    BY Single, Zenon
  <2> QED BY <1>1, <2>1, Zenon
<1>3. LaidOut(<<x>>, base, space)
  BY <1>2, Zenon DEF LaidOut
<1>4. Selected(<<x>>, replacer.keys)
  BY <1>2, Zenon DEF Selected
<1> QED BY <1>1, <1>3, <1>4, Zenon DEF Piece
(* A line of a text, indented as it should be.                             *)
LEMMA PieceLine ==
    ASSUME NEW p, NEW base \in Int, NEW space \in Nat, NEW replacer, NEW length,
           Piece(p, base, space, replacer), p # <<>>, space > 0,
           length = space * (base - (IF Closes(p[1]) THEN 1 ELSE 0))
    PROVE  Piece(<<Newline(length)>> \o p, base, space, replacer)
<1> DEFINE line == <<Newline(length)>>  u == line \o p
<1>1. /\ IsSeq(line) /\ Len(line) = 1 /\ line[1] = Newline(length) /\ line # <<>>
      /\ DOMAIN line = 1 .. 1 /\ \A n \in DOMAIN line : n = 1
  BY Single, Zenon
<1>2. Newline(length).token = "newline" /\ Newline(length).length = length
  BY DEF Newline
<1>3. IsSeq(p) /\ LaidOut(p, base, space)
  BY Zenon DEF Piece
<1>4. Opened(line) = 0
  <2>1. Newline(length) \notin Opening /\ Newline(length) \notin Closing
    BY <1>2, NoBracket
  <2> QED BY <2>1, OpenedOne DEF line
<1> HIDE DEF line
<1>5. /\ Len(u) = 1 + Len(p) /\ Len(p) \in Nat /\ Len(p) > 0 /\ IsSeq(u)
      /\ DOMAIN p = 1 .. Len(p) /\ DOMAIN u = 1 .. 1 + Len(p)
      /\ u[1] = Newline(length)
      /\ \A n \in 1 .. Len(p) : u[1 + n] = p[n]
  <2>1. Len(p) \in Nat \ {0}
    BY <1>3, Behind
  <2>2. /\ IsSeq(u) /\ Len(u) = Len(line) + Len(p) /\ DOMAIN p = 1 .. Len(p)
        /\ DOMAIN u = 1 .. Len(line) + Len(p)
        /\ line # <<>> => u[1] = line[1]
        /\ \A n \in 1 .. Len(p) : u[Len(line) + n] = p[n]
    BY <1>1, <1>3, Concat
  <2> QED BY <1>1, <2>1, <2>2
<1>6. LaidOut(u, base, space)
  <2>1. SUFFICES ASSUME NEW n \in DOMAIN u, u[n].token = "newline"
                 PROVE  /\ space > 0 /\ n < Len(u)
                        /\ u[n].length = space * (base + Opened(SubSeq(u, 1, n))
                                                     - (IF Closes(u[n + 1]) THEN 1 ELSE 0))
    BY DEF LaidOut
  <2>2. CASE n = 1
    <3>1. u[n + 1] = p[1] /\ n < Len(u)
      BY <1>5, <2>2
    <3>2. SubSeq(u, 1, n) = line
      <4>1. SubSeq(u, 1, 1) = SubSeq(line, 1, 1)
        <5>1. 1 \in 1 .. Len(line)
          BY <1>1
        <5> QED BY <1>1, <1>3, <5>1, Beginning
      <4>2. SubSeq(line, 1, 1) = line
        <5>1. PICK X : line \in Seq(X)
          BY <1>1 DEF IsSeq
        <5> QED BY <1>1, <5>1
      <4> QED BY <2>2, <4>1, <4>2
    <3> DEFINE c == IF Closes(p[1]) THEN 1 ELSE 0
    <3>3. c \in {0, 1}
      OBVIOUS
    <3>4. length = space * (base - c)
      OBVIOUS
    <3>5. u[n].length = length
      BY <1>2, <1>5, <2>2, Zenon
    <3> HIDE DEF c
    <3>6. base - c = base + Opened(SubSeq(u, 1, n)) - c
      <4>1. base - c = base + 0 - c
        BY <3>3
      <4> QED BY <1>4, <3>2, <4>1, Zenon
    <3>7. u[n].length = space * (base + Opened(SubSeq(u, 1, n)) - c)
      BY <3>4, <3>5, <3>6, Zenon
    <3> QED BY <3>1, <3>7, Zenon DEF c
  <2>3. CASE n # 1
    <3>1. PICK m \in 1 .. Len(p) : n = 1 + m
      <4>1. n - 1 \in 1 .. Len(p) /\ n = 1 + (n - 1)
        BY <1>5, <2>3
      <4> QED BY <4>1
    <3>2. u[n] = p[m] /\ m \in DOMAIN p
      BY <1>5, <3>1
    <3>3. /\ m < Len(p)
          /\ p[m].length = space * (base + Opened(SubSeq(p, 1, m))
                                      - (IF Closes(p[m + 1]) THEN 1 ELSE 0))
      BY <1>3, <2>1, <3>2, Zenon DEF LaidOut
    <3>4. u[n + 1] = p[m + 1] /\ n < Len(u)
      <4>1. m + 1 \in 1 .. Len(p) /\ n + 1 = 1 + (m + 1) /\ n < 1 + Len(p)
        BY <1>5, <3>1, <3>3
      <4> QED BY <1>5, <4>1
    <3>5. SubSeq(u, 1, n) = line \o SubSeq(p, 1, m) /\ IsSeq(SubSeq(p, 1, m))
      <4>1. SubSeq(u, 1, Len(line) + m) = line \o SubSeq(p, 1, m) /\ IsSeq(SubSeq(p, 1, m))
        <5>1. BegunBoth(u, line, p, m)
          BY <1>1, <1>3, <3>1, BeginningOfBoth, Zenon
        <5> QED BY <5>1, Zenon DEF BegunBoth
      <4>2. n = Len(line) + m
        BY <1>1, <3>1
      <4> QED BY <4>1, <4>2, Zenon
    <3>6. Opened(SubSeq(p, 1, m)) \in Int
          /\ Opened(SubSeq(u, 1, n)) = Opened(line) + Opened(SubSeq(p, 1, m))
      BY <1>1, <3>5, OpenedConcat
    <3>7. Opened(SubSeq(u, 1, n)) = Opened(SubSeq(p, 1, m))
      BY <1>4, <3>6
    <3> QED BY <3>2, <3>3, <3>4, <3>7, Zenon
  <2> QED BY <2>2, <2>3
<1>7. ASSUME replacer.is = "keys" PROVE Selected(u, replacer.keys)
  <2>1. Selected(p, replacer.keys)
    BY <1>7, Zenon DEF Piece
  <2>2. ASSUME NEW n \in DOMAIN u, u[n].token \in {":", ": "}
        PROVE  n > 1 /\ \E k \in DOMAIN replacer.keys : u[n - 1] = quote(replacer.keys[k])[1]
    <3>1. n # 1
      BY <1>2, <1>5, <2>2
    <3>2. PICK m \in 1 .. Len(p) : n = 1 + m
      <4>1. n - 1 \in 1 .. Len(p) /\ n = 1 + (n - 1)
        BY <1>5, <3>1
      <4> QED BY <4>1
    <3>3. u[n] = p[m] /\ m \in DOMAIN p
      BY <1>5, <3>2
    <3>4. m > 1 /\ \E k \in DOMAIN replacer.keys : p[m - 1] = quote(replacer.keys[k])[1]
      BY <2>1, <2>2, <3>3, Zenon DEF Selected
    <3>5. u[n - 1] = p[m - 1] /\ n > 1
      <4>1. m - 1 \in 1 .. Len(p) /\ n - 1 = 1 + (m - 1) /\ n > 1
        BY <1>5, <3>2, <3>4
      <4> QED BY <1>5, <4>1
    <3> QED BY <3>4, <3>5, Zenon
  <2> QED BY <2>2 DEF Selected
<1>8. Piece(u, base, space, replacer)
  BY <1>5, <1>6, <1>7, Zenon DEF Piece
<1> QED BY <1>8 DEF line

(* Two tokens.                                                             *)
LEMMA Two ==
    ASSUME NEW q, NEW c
    PROVE  /\ IsSeq(<<q>> \o <<c>>) /\ DOMAIN (<<q>> \o <<c>>) = 1 .. 2
           /\ (<<q>> \o <<c>>)[1] = q /\ (<<q>> \o <<c>>)[2] = c
           /\ \A n \in 1 .. 2 : n = 1 \/ (n = 2 /\ n - 1 = 1 /\ n > 1)
           /\ q \notin Opening /\ q \notin Closing /\ c \notin Opening /\ c \notin Closing
                  => Opened(<<q>> \o <<c>>) = 0
<1> DEFINE s == <<q>>  t == <<c>>  u == s \o t
<1>1. /\ IsSeq(s) /\ Len(s) = 1 /\ s[1] = q /\ s # <<>>
      /\ IsSeq(t) /\ Len(t) = 1 /\ t[1] = c
  BY Single, Zenon
<1>2. /\ q \notin Opening /\ q \notin Closing => Opened(s) = 0
      /\ c \notin Opening /\ c \notin Closing => Opened(t) = 0
  BY OpenedOne
<1> HIDE DEF s, t
<1>3. IsSeq(u) /\ DOMAIN u = 1 .. 2 /\ u[1] = q /\ u[2] = c
  <2>1. IsSeq(s) /\ IsSeq(t)
    BY <1>1
  <2>2. /\ IsSeq(u) /\ DOMAIN u = 1 .. Len(s) + Len(t)
        /\ s # <<>> => u[1] = s[1]
        /\ \A n \in 1 .. Len(t) : u[Len(s) + n] = t[n]
    BY <2>1, Concat
  <2>3. u[1 + 1] = t[1]
    BY <1>1, <2>2
  <2> QED BY <1>1, <2>2, <2>3
<1>4. q \notin Opening /\ q \notin Closing /\ c \notin Opening /\ c \notin Closing => Opened(u) = 0
  <2>1. Opened(u) = Opened(s) + Opened(t)
    BY <1>1, OpenedConcat
  <2> QED BY <1>2, <2>1
<1>5. \A n \in 1 .. 2 : n = 1 \/ (n = 2 /\ n - 1 = 1 /\ n > 1)
  OBVIOUS
<1> QED BY <1>3, <1>4, <1>5, Zenon DEF s, t

InList(key, replacer) == \E k \in DOMAIN replacer.keys : key = replacer.keys[k]

IsColon(colon) == colon \in {":", ": "}

(* A key and a colon, if the key is one of the list.                       *)
LEMMA PieceKey ==
    ASSUME NEW key, NEW colon, IsColon(colon), NEW base, NEW space, NEW replacer,
           replacer.is = "keys" => InList(key, replacer)
    PROVE  /\ Piece(quote(key) \o <<Token(colon)>>, base, space, replacer)
           /\ Opened(quote(key) \o <<Token(colon)>>) = 0
           /\ (quote(key) \o <<Token(colon)>>)[1].token = "string"
<1> DEFINE q == Quoted(key, Escapable)  c == Token(colon)  u == <<q>> \o <<c>>
<1>1. q.token = "string" /\ c.token = colon
  BY DEF Quoted, Token
<1>2. quote(key) = <<q>>
  BY DEF quote
<1> HIDE DEF q, c
<1>3. /\ IsSeq(u) /\ DOMAIN u = 1 .. 2 /\ u[1] = q /\ u[2] = c
      /\ \A n \in 1 .. 2 : n = 1 \/ (n = 2 /\ n - 1 = 1 /\ n > 1)
      /\ q \notin Opening /\ q \notin Closing /\ c \notin Opening /\ c \notin Closing
             => Opened(u) = 0
  BY Two, Zenon
<1>4. Opened(u) = 0
  <2>1. q.token \notin {"[", "{", "]", "}"} /\ c.token \notin {"[", "{", "]", "}"}
    BY <1>1 DEF IsColon
  <2> QED BY <1>3, <2>1, NoBracket, Zenon
<1>5. \A n \in DOMAIN u : u[n].token # "newline"
  <2>1. u[1].token # "newline" /\ u[2].token # "newline"
    BY <1>1, <1>3 DEF IsColon
  <2> QED BY <1>3, <2>1, Zenon
<1>6. LaidOut(u, base, space)
  BY <1>5, Zenon DEF LaidOut
<1>7. ASSUME replacer.is = "keys" PROVE Selected(u, replacer.keys)
  <2>1. PICK k \in DOMAIN replacer.keys : key = replacer.keys[k]
    BY <1>7, Zenon DEF InList
  <2>2. u[1] = quote(replacer.keys[k])[1]
    BY <1>2, <1>3, <2>1, Single, Zenon
  <2>3. ASSUME NEW n \in DOMAIN u, u[n].token \in {":", ": "}
        PROVE  n > 1 /\ \E i \in DOMAIN replacer.keys : u[n - 1] = quote(replacer.keys[i])[1]
    <3>1. u[1].token \notin {":", ": "}
      BY <1>1, <1>3
    <3>2. n = 2 /\ n - 1 = 1 /\ n > 1
      BY <1>3, <2>3, <3>1, Zenon
    <3> QED BY <2>2, <3>2, Zenon
  <2> QED BY <2>3 DEF Selected
<1>8. Piece(u, base, space, replacer)
  BY <1>3, <1>6, <1>7, Zenon DEF Piece
<1>9. u[1].token = "string"
  BY <1>1, <1>3, Zenon
<1> QED BY <1>2, <1>4, <1>8, <1>9, Zenon DEF c
-----------------------------------------------------------------------------
(***************************************************************************)
(* Join and Wrap                                                           *)
(***************************************************************************)

(* One more part.                                                          *)
More(text, part) == text \o <<Token(",")>> \o part

(* g[n] is the first n parts joined, as far as part k.                     *)
IsJoined(g, k, parts) ==
    g = [n \in 1 .. k |-> IF n = 1 THEN parts[1] ELSE More(g[n - 1], parts[n])]

(* There is such a function for each k.                                    *)
LEMMA JoinedExists ==
    ASSUME NEW parts
    PROVE  \A k \in Nat : \E g : IsJoined(g, k, parts)
<1> DEFINE T == {k \in Nat : \E g : IsJoined(g, k, parts)}
<1>1. 0 \in T
  <2>1. [n \in 1 .. 0 |-> 0]
          = [n \in 1 .. 0 |-> IF n = 1 THEN parts[1] ELSE More([m \in 1 .. 0 |-> 0][n - 1], parts[n])]
    OBVIOUS
  <2>2. IsJoined([n \in 1 .. 0 |-> 0], 0, parts)
    BY <2>1, Zenon DEF IsJoined
  <2> QED BY <2>2
<1>2. ASSUME NEW k \in T PROVE k + 1 \in T
  <2>1. PICK g : IsJoined(g, k, parts)
    OBVIOUS
  <2> DEFINE h == [n \in 1 .. k + 1 |-> IF n = 1 THEN parts[1] ELSE More(g[n - 1], parts[n])]
  <2>2. \A n \in 1 .. k : h[n] = g[n]
    <3>1. ASSUME NEW n \in 1 .. k
          PROVE  g[n] = IF n = 1 THEN parts[1] ELSE More(g[n - 1], parts[n])
      BY <2>1, Zenon DEF IsJoined
    <3>2. ASSUME NEW n \in 1 .. k
          PROVE  h[n] = IF n = 1 THEN parts[1] ELSE More(g[n - 1], parts[n])
      <4>1. n \in 1 .. k + 1
        OBVIOUS
      <4> QED BY <4>1
    <3> HIDE DEF h
    <3> QED BY <3>1, <3>2
  <2>3. h = [n \in 1 .. k + 1 |-> IF n = 1 THEN parts[1] ELSE More(h[n - 1], parts[n])]
    <3>1. ASSUME NEW n \in 1 .. k + 1, n # 1 PROVE h[n - 1] = g[n - 1]
      <4>1. n - 1 \in 1 .. k
        BY <3>1
      <4> HIDE DEF h
      <4> QED BY <2>2, <4>1
    <3> HIDE DEF h
    <3>2. \A n \in 1 .. k + 1 : (IF n = 1 THEN parts[1] ELSE More(g[n - 1], parts[n]))
                                   = (IF n = 1 THEN parts[1] ELSE More(h[n - 1], parts[n]))
      BY <3>1
    <3>3. h = [n \in 1 .. k + 1 |-> IF n = 1 THEN parts[1] ELSE More(g[n - 1], parts[n])]
      BY DEF h
    <3> QED BY <3>2, <3>3, Zenon
  <2>4. IsJoined(h, k + 1, parts)
    BY <2>3 DEF IsJoined
  <2> QED BY <2>4
<1> HIDE DEF T
<1>3. T = Nat
  <2>1. T \in SUBSET Nat
    BY DEF T
  <2> QED BY <1>1, <1>2, <2>1, Induction
<1> QED BY <1>3 DEF T

(* Join is the value of one of them at the last part.                      *)
LEMMA JoinIs ==
    ASSUME NEW parts, IsSeq(parts)
    PROVE  \E g : /\ Join(parts) = g[Len(parts)]
                  /\ g[1] = parts[1] \/ Len(parts) = 0
                  /\ \A n \in 1 .. Len(parts) : n # 1 => g[n] = More(g[n - 1], parts[n])
<1> DEFINE upTo[n \in DOMAIN parts] ==
             IF n = 1 THEN parts[1] ELSE upTo[n - 1] \o <<Token(",")>> \o parts[n]
<1>1. Len(parts) \in Nat /\ DOMAIN parts = 1 .. Len(parts)
  <2>1. PICK X : parts \in Seq(X)
    BY DEF IsSeq
  <2> QED BY <2>1
<1>2. PICK g : IsJoined(g, Len(parts), parts)
  BY <1>1, JoinedExists
<1>3. g = [n \in DOMAIN parts |-> IF n = 1 THEN parts[1] ELSE g[n - 1] \o <<Token(",")>> \o parts[n]]
  BY <1>1, <1>2, Zenon DEF IsJoined, More
<1>4. upTo = [n \in DOMAIN parts |-> IF n = 1 THEN parts[1]
                                      ELSE upTo[n - 1] \o <<Token(",")>> \o parts[n]]
  BY <1>3
<1>5. Join(parts) = upTo[Len(parts)]
  BY DEF Join
<1> HIDE DEF upTo
<1>6. \A n \in 1 .. Len(parts) : upTo[n] = IF n = 1 THEN parts[1] ELSE More(upTo[n - 1], parts[n])
  BY <1>1, <1>4, Zenon DEF More
<1>7. upTo[1] = parts[1] \/ Len(parts) = 0
  <2>1. Len(parts) # 0 => 1 \in 1 .. Len(parts)
    BY <1>1
  <2> QED BY <1>6, <2>1, Zenon
<1> QED BY <1>5, <1>6, <1>7, Zenon

(* A piece with all its brackets closed again.                             *)
Balanced(text, base, space, replacer) ==
    Piece(text, base, space, replacer) /\ text # <<>> /\ Opened(text) = 0

(* Such pieces, joined, are one.                                           *)
LEMMA JoinBalanced ==
    ASSUME NEW parts, IsSeq(parts), parts # <<>>,
           NEW base \in Int, NEW space \in Nat, NEW replacer,
           \A n \in 1 .. Len(parts) : Balanced(parts[n], base, space, replacer)
    PROVE  Balanced(Join(parts), base, space, replacer)
<1>1. PICK g : /\ Join(parts) = g[Len(parts)]
               /\ g[1] = parts[1] \/ Len(parts) = 0
               /\ \A n \in 1 .. Len(parts) : n # 1 => g[n] = More(g[n - 1], parts[n])
  BY JoinIs
<1>2. Len(parts) \in Nat \ {0}
  BY Behind
<1> DEFINE comma == <<Token(",")>>
<1>3. ASSUME NEW s, NEW t, Balanced(s, base, space, replacer), Balanced(t, base, space, replacer)
      PROVE  Balanced(More(s, t), base, space, replacer)
  <2>1. Token(",").token = ","
    BY DEF Token
  <2>2. Token(",") \notin Opening /\ Token(",") \notin Closing
    BY <2>1, NoBracket
  <2>3. Piece(comma, base, space, replacer) /\ Opened(comma) = 0 /\ IsSeq(comma)
    <3>1. Piece(comma, base, space, replacer)
      BY <2>1, PieceOne
    <3> QED BY <2>2, <3>1, OpenedOne, Single
  <2> HIDE DEF comma
  <2>4. IsSeq(s) /\ Piece(s, base, space, replacer) /\ Opened(s) = 0 /\ s # <<>>
    BY <1>3, Zenon DEF Balanced, Piece
  <2>5. IsSeq(t) /\ Piece(t, base, space, replacer) /\ Opened(t) = 0
    BY <1>3, Zenon DEF Balanced, Piece
  <2>6. Piece(s \o comma, base, space, replacer) /\ Opened(s \o comma) = 0
        /\ s \o comma # <<>> /\ IsSeq(s \o comma)
    <3>1. base + Opened(s) = base /\ 0 + 0 = 0
      BY <2>4
    <3>2. Opened(s \o comma) = 0
      BY <2>3, <2>4, OpenedConcat
    <3>3. Piece(s \o comma, base, space, replacer)
      BY <2>3, <2>4, <3>1, PieceConcat
    <3> QED BY <2>3, <2>4, <3>2, <3>3, Concat
  <2>7. Piece((s \o comma) \o t, base, space, replacer) /\ Opened((s \o comma) \o t) = 0
        /\ (s \o comma) \o t # <<>>
    <3>1. base + Opened(s \o comma) = base
      BY <2>6
    <3>2. Opened((s \o comma) \o t) = 0
      BY <2>5, <2>6, OpenedConcat
    <3>3. Piece((s \o comma) \o t, base, space, replacer)
      BY <2>5, <2>6, <3>1, PieceConcat
    <3> QED BY <2>5, <2>6, <3>2, <3>3, Concat
  <2> QED BY <2>7, Zenon DEF More, Balanced, comma
<1> HIDE DEF comma
<1> DEFINE T == {n \in Nat : n + 1 \in 1 .. Len(parts) => Balanced(g[n + 1], base, space, replacer)}
<1>4. 0 \in T
  <2>1. g[1] = parts[1] /\ 1 \in 1 .. Len(parts) /\ 0 + 1 = 1
    BY <1>1, <1>2
  <2>2. Balanced(g[0 + 1], base, space, replacer)
    BY <2>1, Zenon
  <2> QED BY <2>2
<1>5. ASSUME NEW n \in T PROVE n + 1 \in T
  <2>1. n \in Nat /\ (n + 1 \in 1 .. Len(parts) => Balanced(g[n + 1], base, space, replacer))
    OBVIOUS
  <2>2. ASSUME (n + 1) + 1 \in 1 .. Len(parts)
        PROVE  Balanced(g[(n + 1) + 1], base, space, replacer)
    <3>1. n + 1 \in 1 .. Len(parts) /\ (n + 1) + 1 # 1 /\ ((n + 1) + 1) - 1 = n + 1
      BY <1>2, <2>1, <2>2
    <3>2. g[(n + 1) + 1] = More(g[n + 1], parts[(n + 1) + 1])
      BY <1>1, <2>2, <3>1, Zenon
    <3> QED BY <1>3, <2>1, <2>2, <3>1, <3>2, Zenon
  <2> QED BY <2>1, <2>2
<1> HIDE DEF T
<1>6. T = Nat
  <2>1. T \in SUBSET Nat
    BY DEF T
  <2> QED BY <1>4, <1>5, <2>1, Induction
<1>7. Len(parts) - 1 \in Nat /\ (Len(parts) - 1) + 1 = Len(parts) /\ Len(parts) \in 1 .. Len(parts)
  BY <1>2
<1>8. Balanced(g[Len(parts)], base, space, replacer)
  BY <1>6, <1>7, Zenon DEF T
<1> QED BY <1>1, <1>8, Zenon
(* A piece that a newline of this length may come before.                  *)
FitsOnLine(p, length, base, space, replacer) ==
    /\ base \in Int /\ space \in Nat /\ space > 0
    /\ Piece(p, base, space, replacer) /\ p # <<>>
    /\ length = space * (base - (IF Closes(p[1]) THEN 1 ELSE 0))

(* A line opens no more brackets than its text.                            *)
LEMMA LineBalanced ==
    ASSUME NEW p, NEW length, NEW base, NEW space, NEW replacer,
           FitsOnLine(p, length, base, space, replacer)
    PROVE  /\ Piece(<<Newline(length)>> \o p, base, space, replacer)
           /\ <<Newline(length)>> \o p # <<>>
           /\ Opened(<<Newline(length)>> \o p) = Opened(p)
<1> DEFINE line == <<Newline(length)>>
<1>1. Piece(line \o p, base, space, replacer)
  BY PieceLine DEF FitsOnLine
<1>2. Newline(length).token = "newline"
  BY DEF Newline
<1>3. Newline(length) \notin Opening /\ Newline(length) \notin Closing
  BY <1>2, NoBracket
<1>4. Opened(line) = 0 /\ IsSeq(line) /\ line # <<>>
  BY <1>3, OpenedOne, Single
<1>5. IsSeq(p)
  BY Zenon DEF Piece, FitsOnLine
<1> HIDE DEF line
<1>6. Opened(line \o p) = Opened(p)
  <2>1. Opened(p) \in Int /\ Opened(line \o p) = Opened(line) + Opened(p)
    BY <1>4, <1>5, OpenedConcat
  <2> QED BY <1>4, <2>1
<1>7. line \o p # <<>>
  BY <1>4, <1>5, Concat
<1> QED BY <1>1, <1>6, <1>7 DEF line

(* What str returns for a value at the depth base, if anything.            *)
Whole(text, base, space, replacer) ==
    Balanced(text, base, space, replacer) /\ ~Closes(text[1])

(* A loop of str over an array or an object.                               *)
IsLoop(loop) == loop.open \in {"[", "{"}

(* The text of a loop is whole if its parts are, one level deeper.         *)
LEMMA WrapWhole ==
    ASSUME NEW loop, NEW base \in Nat, NEW space \in Nat, NEW replacer, NEW width,
           IsLoop(loop), IsSeq(loop.partial),
           \A n \in 1 .. Len(loop.partial) : Whole(loop.partial[n], base + 1, space, replacer),
           width = space * (base + 1), loop.mind = space * base
    PROVE  Whole(Wrap(loop, width), base, space, replacer)
<1> DEFINE OnLine(text, length) == IF width = 0 THEN text ELSE <<Newline(length)>> \o text
           partial == loop.partial
           lines == [n \in DOMAIN partial |-> OnLine(partial[n], width)]
           bracket == Token(IF loop.open = "[" THEN "]" ELSE "}")
           close == <<bracket>>
           open == <<Token(loop.open)>>
<1>1. Wrap(loop, width) = open \o (IF lines = <<>> THEN close ELSE Join(lines) \o OnLine(close, loop.mind))
  BY DEF Wrap
<1>2. Len(partial) \in Nat /\ DOMAIN partial = 1 .. Len(partial)
  <2>1. PICK X : partial \in Seq(X)
    BY DEF IsSeq
  <2> QED BY <2>1
<1>3. width # 0 => space > 0
  <2>1. space = 0 => space * (base + 1) = 0
    OBVIOUS
  <2> QED BY <2>1
<1>4. open[1].token = loop.open /\ Opened(open) = 1 /\ Piece(open, base, space, replacer)
      /\ IsSeq(open) /\ open # <<>>
  <2>1. Token(loop.open).token = loop.open
    BY DEF Token
  <2>2. Token(loop.open) \in Opening
    BY Brackets, Zenon DEF IsLoop
  <2>3. Piece(open, base, space, replacer)
    <3>1. Token(loop.open).token \notin {"newline", ":", ": "}
      BY <2>1 DEF IsLoop
    <3> QED BY <3>1, PieceOne
  <2>4. Opened(open) = 1
    BY <2>2, OpenedOne, Zenon
  <2> QED BY <2>1, <2>3, <2>4, Single, Zenon
<1>5. /\ bracket.token \in {"]", "}"} /\ Opened(close) = -1 /\ close # <<>> /\ IsSeq(close)
      /\ close[1] = bracket /\ Closes(bracket) /\ Piece(close, base + 1, space, replacer)
  <2>1. bracket.token \in {"]", "}"}
    BY DEF Token
  <2>2. bracket \in Closing
    BY Brackets, Zenon
  <2> HIDE DEF bracket
  <2>3. bracket.token \notin {"newline", ":", ": "}
    BY <2>1
  <2>4. Closes(bracket)
    BY <2>1 DEF Closes
  <2>5. Opened(close) = -1
    BY <2>2, OpenedOne, Zenon
  <2>6. Piece(close, base + 1, space, replacer)
    BY <2>3, PieceOne, Zenon
  <2> QED BY <2>1, <2>4, <2>5, <2>6, Single, Zenon
<1> HIDE DEF open, close, bracket
<1>6. ASSUME NEW p, NEW length, Piece(p, base + 1, space, replacer), p # <<>>, width # 0,
             Closes(p[1]) => length = space * base, ~Closes(p[1]) => length = space * (base + 1)
      PROVE  /\ Piece(<<Newline(length)>> \o p, base + 1, space, replacer)
             /\ <<Newline(length)>> \o p # <<>>
             /\ Opened(<<Newline(length)>> \o p) = Opened(p)
  <2> DEFINE b == base + 1
  <2>1. b \in Int /\ b - 1 = base /\ b - 0 = b
    OBVIOUS
  <2>2. space > 0
    BY <1>3, <1>6
  <2>3. length = space * (b - (IF Closes(p[1]) THEN 1 ELSE 0))
    BY <1>6, <2>1, Zenon
  <2>4. Piece(p, b, space, replacer) /\ p # <<>>
    BY <1>6, Zenon
  <2> HIDE DEF b
  <2>5. FitsOnLine(p, length, b, space, replacer)
    BY <2>1, <2>2, <2>3, <2>4, Zenon DEF FitsOnLine
  <2>6. /\ Piece(<<Newline(length)>> \o p, b, space, replacer)
        /\ <<Newline(length)>> \o p # <<>>
        /\ Opened(<<Newline(length)>> \o p) = Opened(p)
    BY <2>5, LineBalanced, Zenon
  <2> QED BY <2>6 DEF b
<1>7. ASSUME NEW n \in 1 .. Len(partial) PROVE Balanced(OnLine(partial[n], width), base + 1, space, replacer)
  <2>1. Balanced(partial[n], base + 1, space, replacer) /\ ~Closes(partial[n][1])
    BY <1>7, Zenon DEF Whole
  <2>2. CASE width = 0
    BY <2>1, <2>2
  <2>3. CASE width # 0
    <3>1. Piece(partial[n], base + 1, space, replacer) /\ partial[n] # <<>> /\ Opened(partial[n]) = 0
      BY <2>1, Zenon DEF Balanced
    <3>2. Balanced(<<Newline(width)>> \o partial[n], base + 1, space, replacer)
      BY <1>6, <2>1, <2>3, <3>1, Zenon DEF Balanced
    <3> QED BY <2>3, <3>2, Zenon
  <2> QED BY <2>2, <2>3
<1>8. /\ Piece(OnLine(close, loop.mind), base + 1, space, replacer)
      /\ Opened(OnLine(close, loop.mind)) = -1
  <2>1. CASE width = 0
    BY <1>5, <2>1
  <2>2. CASE width # 0
    <3>1. /\ Piece(<<Newline(loop.mind)>> \o close, base + 1, space, replacer)
          /\ Opened(<<Newline(loop.mind)>> \o close) = -1
      BY <1>5, <1>6, <2>2, Zenon
    <3> QED BY <2>2, <3>1, Zenon
  <2> QED BY <2>1, <2>2
<1> DEFINE last == OnLine(close, loop.mind)
<1>9. ASSUME lines # <<>> PROVE Balanced(Join(lines), base + 1, space, replacer)
  <2>1. IsSeq(lines) /\ Len(lines) = Len(partial)
    <3> DEFINE L == {OnLine(partial[n], width) : n \in DOMAIN partial}
    <3>1. lines \in [1 .. Len(partial) -> L]
      BY <1>2, Zenon
    <3> HIDE DEF lines, L
    <3>2. lines \in Seq(L) /\ Len(lines) = Len(partial)
      BY <1>2, <3>1
    <3> QED BY <3>2 DEF IsSeq
  <2>2. \A n \in 1 .. Len(lines) : Balanced(lines[n], base + 1, space, replacer)
    BY <1>2, <1>7, <2>1, Zenon
  <2>3. base + 1 \in Int
    OBVIOUS
  <2> HIDE DEF lines
  <2> QED BY <1>9, <2>1, <2>2, <2>3, JoinBalanced, Zenon
<1> DEFINE inner == IF lines = <<>> THEN close ELSE Join(lines) \o last
<1>10. Piece(inner, base + 1, space, replacer) /\ Opened(inner) = -1
  <2>1. CASE lines = <<>>
    BY <1>5, <2>1, Zenon
  <2>2. CASE lines # <<>>
    <3> DEFINE joined == Join(lines)
    <3>1. Piece(joined, base + 1, space, replacer) /\ Opened(joined) = 0
      BY <1>9, <2>2, Zenon DEF Balanced
    <3>2. inner = joined \o last
      BY <2>2, Zenon
    <3> HIDE DEF joined, last, inner
    <3>3. IsSeq(joined) /\ IsSeq(last)
      BY <1>8, <3>1, Zenon DEF Piece, last
    <3>4. Piece(last, base + 1, space, replacer) /\ Opened(last) = -1
      BY <1>8, Zenon DEF last
    <3>5. base + 1 + Opened(joined) = base + 1 /\ base + 1 \in Int
      BY <3>1
    <3>6. Piece(joined \o last, base + 1, space, replacer)
      BY <3>1, <3>4, <3>5, PieceConcat, Zenon
    <3>7. Opened(joined \o last) = -1
      <4>1. Opened(joined \o last) = Opened(joined) + Opened(last)
        BY <3>3, OpenedConcat
      <4> QED BY <3>1, <3>4, <4>1
    <3> QED BY <3>2, <3>6, <3>7, Zenon
  <2> QED BY <2>1, <2>2
<1>11. Wrap(loop, width) = open \o inner
  BY <1>1, Zenon
<1> HIDE DEF inner
<1>12. IsSeq(inner)
  BY <1>10, Zenon DEF Piece
<1>13. Piece(open \o inner, base, space, replacer)
  <2>1. base \in Int /\ base + Opened(open) = base + 1
    BY <1>4
  <2> QED BY <1>4, <1>10, <2>1, PieceConcat, Zenon
<1>14. Opened(open \o inner) = 0
  <2>1. Opened(open \o inner) = Opened(open) + Opened(inner)
    BY <1>4, <1>12, OpenedConcat
  <2> QED BY <1>4, <1>10, <2>1
<1>15. open \o inner # <<>> /\ (open \o inner)[1] = open[1]
  BY <1>4, <1>12, Concat
<1>16. ~Closes(open[1])
  BY <1>4 DEF Closes, IsLoop
<1> QED BY <1>11, <1>13, <1>14, <1>15, <1>16, Zenon DEF Whole, Balanced

(* The text of a value without parts, if it has one, is whole.             *)
LEMMA TextWhole ==
    ASSUME NEW value, NEW base, NEW space, NEW replacer, Text(value) # <<>>
    PROVE  Whole(Text(value), base, space, replacer)
<1>1. PICK x : Text(value) = <<x>> /\ x.token \in {"string", "literal"}
  <2>1. \A chars, escaped : Quoted(chars, escaped).token = "string"
    BY DEF Quoted
  <2>2. \A v : Literal(v).token = "literal"
    BY DEF Literal
  <2>3. CASE value.type = "string"
    <3>1. Text(value) = <<Quoted(value.chars, Escapable)>>
      BY <2>3, Zenon DEF Text, quote
    <3> QED BY <2>1, <3>1
  <2>4. CASE value.type \in {"number", "boolean", "null"}
    <3>1. Text(value) = <<Literal(value)>>
      BY <2>4 DEF Text
    <3> QED BY <2>2, <3>1
  <2>5. CASE value.type = "NaN"
    <3>1. Text(value) = <<Literal(Null)>>
      BY <2>5 DEF Text
    <3> QED BY <2>2, <3>1
  <2>6. CASE value.type \notin {"string", "number", "boolean", "null", "NaN"}
    BY <2>6 DEF Text
  <2> QED BY <2>3, <2>4, <2>5, <2>6
<1>2. x.token \notin {"[", "{", "]", "}"} /\ x.token \notin {"newline", ":", ": "} /\ ~Closes(x)
  BY <1>1 DEF Closes
<1>3. Piece(<<x>>, base, space, replacer)
  BY <1>2, PieceOne, Zenon
<1>4. Opened(<<x>>) = 0
  BY <1>2, NoBracket, OpenedOne, Zenon
<1>5. <<x>> # <<>> /\ <<x>>[1] = x
  BY Single, Zenon
<1> QED BY <1>1, <1>2, <1>3, <1>4, <1>5, Zenon DEF Whole, Balanced
-----------------------------------------------------------------------------
(***************************************************************************)
(* The stack                                                               *)
(***************************************************************************)

(* The fake root object of a call.                                         *)
IsRoot(loop) == loop.open = "call"

IsFrame(f) ==
    /\ DOMAIN f = {"open", "listed", "todo", "mind", "partial"}
    /\ IsRoot(f) \/ IsLoop(f)
    /\ f.mind \in Nat
    /\ IsSeq(f.partial)

(* A stack ends with a call, and where a call stands, whether in the middle*)
(* or at the top, the gap is empty again when it is reached.               *)
Stacked(s, width) ==
    /\ IsSeq(s)
    /\ \A n \in 1 .. Len(s) : IsFrame(s[n])
    /\ s # <<>> => IsRoot(s[Len(s)])
    /\ \A n \in 1 .. Len(s) - 1 : IsLoop(s[n]) /\ IsRoot(s[n + 1]) => s[n].mind = 0
    /\ s # <<>> /\ IsRoot(s[1]) => width = 0

LEMMA RootIsNoLoop ==
    ASSUME NEW f
    PROVE  ~(IsRoot(f) /\ IsLoop(f))
  BY DEF IsRoot, IsLoop

(* What is on the stack after a push.                                      *)
LEMMA Pushed ==
    ASSUME NEW s, NEW f, IsSeq(s)
    PROVE  /\ IsSeq(<<f>> \o s) /\ Len(<<f>> \o s) = Len(s) + 1 /\ Len(s) \in Nat
           /\ <<f>> \o s # <<>> /\ (<<f>> \o s)[1] = f
           /\ (s = <<>> <=> Len(s) = 0)
           /\ \A n \in 1 .. Len(s) : (<<f>> \o s)[n + 1] = s[n]
<1> DEFINE t == <<f>>
<1>1. IsSeq(t) /\ Len(t) = 1 /\ t[1] = f /\ t # <<>>
  BY Single, Zenon
<1> HIDE DEF t
<1>2. PICK X : t \in Seq(X) /\ s \in Seq(X)
  BY <1>1, OverOneSet
<1>3. /\ t \o s \in Seq(X) /\ Len(t \o s) = Len(t) + Len(s) /\ Len(s) \in Nat
      /\ \A n \in 1 .. Len(s) : (t \o s)[Len(t) + n] = s[n]
      /\ \A n \in 1 .. Len(t) : (t \o s)[n] = t[n]
  BY <1>2, ConcatFacts
<1>4. (t \o s)[1] = f /\ t \o s # <<>> /\ Len(t \o s) = Len(s) + 1
  BY <1>1, <1>3
<1>5. s = <<>> <=> Len(s) = 0
  BY <1>2
<1>6. \A n \in 1 .. Len(s) : (t \o s)[n + 1] = s[n]
  <2>1. \A n \in 1 .. Len(s) : n + 1 = 1 + n
    OBVIOUS
  <2> QED BY <1>1, <1>3, <2>1, Zenon
<1> QED BY <1>3, <1>4, <1>5, <1>6, Zenon DEF t, IsSeq

LEMMA StackedPush ==
    ASSUME NEW s, NEW f, NEW before, NEW width, Stacked(s, before), IsFrame(f),
           \/ IsRoot(f) /\ width = 0
           \/ IsLoop(f) /\ s # <<>> /\ f.mind = before
    PROVE  Stacked(<<f>> \o s, width)
<1> DEFINE u == <<f>> \o s
<1>1. /\ IsSeq(u) /\ Len(u) = Len(s) + 1 /\ Len(s) \in Nat /\ u # <<>> /\ u[1] = f
      /\ (s = <<>> <=> Len(s) = 0) /\ \A n \in 1 .. Len(s) : u[n + 1] = s[n]
  <2>1. IsSeq(s)
    BY Zenon DEF Stacked
  <2> QED BY <2>1, Pushed
<1> HIDE DEF u
<1>2. /\ \A n \in 1 .. Len(s) : IsFrame(s[n])
      /\ s # <<>> => IsRoot(s[Len(s)])
      /\ \A n \in 1 .. Len(s) - 1 : IsLoop(s[n]) /\ IsRoot(s[n + 1]) => s[n].mind = 0
      /\ s # <<>> /\ IsRoot(s[1]) => before = 0
  BY Zenon DEF Stacked
<1>3. ~(IsRoot(f) /\ IsLoop(f))
  BY RootIsNoLoop
<1>4. ASSUME NEW n \in 1 .. Len(u) PROVE IsFrame(u[n])
  <2>1. CASE n = 1
    BY <1>1, <2>1, Zenon
  <2>2. CASE n # 1
    <3>1. n - 1 \in 1 .. Len(s) /\ (n - 1) + 1 = n
      BY <1>1, <2>2
    <3> QED BY <1>1, <1>2, <3>1, Zenon
  <2> QED BY <2>1, <2>2
<1>5. IsRoot(u[Len(u)])
  <2>1. CASE s = <<>>
    <3>1. Len(u) = 1
      BY <1>1, <2>1
    <3> QED BY <1>1, <2>1, <3>1, Zenon
  <2>2. CASE s # <<>>
    <3>1. Len(s) \in 1 .. Len(s)
      BY <1>1, <2>2
    <3> QED BY <1>1, <1>2, <2>2, <3>1, Zenon
  <2> QED BY <2>1, <2>2
<1>6. ASSUME NEW n \in 1 .. Len(u) - 1, IsLoop(u[n]), IsRoot(u[n + 1]) PROVE u[n].mind = 0
  <2>1. CASE n = 1
    <3>1. 1 \in 1 .. Len(s) /\ s # <<>> /\ n + 1 = 1 + 1
      BY <1>1, <1>6, <2>1
    <3>2. u[1 + 1] = s[1]
      BY <1>1, <3>1, Zenon
    <3> QED BY <1>1, <1>2, <1>3, <1>6, <2>1, <3>1, <3>2, Zenon
  <2>2. CASE n # 1
    <3>1. n - 1 \in 1 .. Len(s) - 1 /\ n - 1 \in 1 .. Len(s) /\ n \in 1 .. Len(s) /\ (n - 1) + 1 = n
      BY <1>1, <1>6, <2>2
    <3>2. u[n] = s[n - 1] /\ u[n + 1] = s[(n - 1) + 1]
      <4>1. u[(n - 1) + 1] = s[n - 1] /\ u[n + 1] = s[n]
        BY <1>1, <3>1, Zenon
      <4> QED BY <3>1, <4>1, Zenon
    <3> QED BY <1>2, <1>6, <3>1, <3>2, Zenon
  <2> QED BY <2>1, <2>2
<1>7. IsRoot(u[1]) => width = 0
  BY <1>1, <1>3, Zenon
<1>8. Stacked(u, width)
  BY <1>1, <1>4, <1>5, <1>6, <1>7, Zenon DEF Stacked
<1> QED BY <1>8 DEF u

(* A loop ends; there is one below it.                                     *)
LEMMA StackedPop ==
    ASSUME NEW s, NEW width, Stacked(s, width), s # <<>>
    PROVE  /\ IsLoop(s[1]) => Tail(s) # <<>> /\ Stacked(Tail(s), s[1].mind)
           /\ IsRoot(s[1]) => Stacked(Tail(s), width)
<1>1. /\ IsSeq(Tail(s)) /\ Len(Tail(s)) = Len(s) - 1 /\ Len(s) \in Nat \ {0}
      /\ \A n \in 1 .. Len(s) - 1 : Tail(s)[n] = s[n + 1]
      /\ Len(s) = 1 <=> Tail(s) = <<>>
  BY Behind DEF Stacked
<1>2. /\ \A n \in 1 .. Len(s) : IsFrame(s[n])
      /\ IsRoot(s[Len(s)])
      /\ \A n \in 1 .. Len(s) - 1 : IsLoop(s[n]) /\ IsRoot(s[n + 1]) => s[n].mind = 0
      /\ IsRoot(s[1]) => width = 0
  BY Zenon DEF Stacked
<1> DEFINE t == Tail(s)
<1> HIDE DEF t
<1>3. \A n \in 1 .. Len(t) : IsFrame(t[n])
  <2>1. ASSUME NEW n \in 1 .. Len(t) PROVE n \in 1 .. Len(s) - 1 /\ n + 1 \in 1 .. Len(s)
    BY <1>1 DEF t
  <2> QED BY <1>1, <1>2, <2>1, Zenon DEF t
<1>4. t # <<>> => IsRoot(t[Len(t)])
  <2>1. t # <<>> => Len(t) \in 1 .. Len(s) - 1 /\ Len(t) + 1 = Len(s)
    BY <1>1 DEF t
  <2> QED BY <1>1, <1>2, <2>1, Zenon DEF t
<1>5. \A n \in 1 .. Len(t) - 1 : IsLoop(t[n]) /\ IsRoot(t[n + 1]) => t[n].mind = 0
  <2>1. ASSUME NEW n \in 1 .. Len(t) - 1
        PROVE  n \in 1 .. Len(s) - 1 /\ n + 1 \in 1 .. Len(s) - 1
    BY <1>1 DEF t
  <2> QED BY <1>1, <1>2, <2>1, Zenon DEF t
<1>6. t # <<>> /\ IsRoot(t[1]) /\ IsLoop(s[1]) => s[1].mind = 0
  <2>1. t # <<>> => 1 \in 1 .. Len(s) - 1
    BY <1>1 DEF t
  <2> QED BY <1>1, <1>2, <2>1, Zenon DEF t
<1>7. IsLoop(s[1]) => t # <<>>
  <2>1. t = <<>> => Len(s) = 1
    BY <1>1, Zenon DEF t
  <2> QED BY <1>2, <2>1, RootIsNoLoop, Zenon
<1>8. IsLoop(s[1]) => Stacked(t, s[1].mind)
  BY <1>1, <1>3, <1>4, <1>5, <1>6, Zenon DEF Stacked, t
<1>9. IsRoot(s[1]) => Stacked(t, width)
  BY <1>1, <1>2, <1>3, <1>4, <1>5, Zenon DEF Stacked, t
<1> QED BY <1>7, <1>8, <1>9 DEF t

(* A part is the list of a text, or nothing.                               *)
NamedPart(loop, text, width) ==
    quote(Head(loop.todo).key) \o <<Token(IF width = 0 THEN ":" ELSE ": ")>> \o text

LEMMA PartOfRoot ==
    ASSUME NEW loop, NEW text, NEW width, IsRoot(loop)
    PROVE  Part(loop, text, width) = <<text>>
  BY DEF Part, IsRoot

LEMMA NoPartOfObject ==
    ASSUME NEW loop, NEW text, NEW width, loop.open = "{", text = <<>>
    PROVE  Part(loop, text, width) = <<>>
  BY DEF Part

LEMMA PartOfObject ==
    ASSUME NEW loop, NEW text, NEW width, loop.open = "{", text # <<>>
    PROVE  Part(loop, text, width) = <<NamedPart(loop, text, width)>>
  BY DEF Part, NamedPart

LEMMA PartSeq ==
    ASSUME NEW loop, NEW text, NEW width, IsRoot(loop) \/ IsLoop(loop)
    PROVE  IsSeq(Part(loop, text, width))
<1>1. IsRoot(loop) \/ loop.open = "[" \/ loop.open = "{"
  BY DEF IsLoop
<1>2. CASE IsRoot(loop)
  <2>1. Part(loop, text, width) = <<text>>
    BY <1>2 DEF Part, IsRoot
  <2> QED BY <2>1, Single, Zenon
<1>3. CASE loop.open = "["
  <2>1. PICK x : Part(loop, text, width) = <<x>>
    BY <1>3 DEF Part
  <2> QED BY <2>1, Single, Zenon
<1>4. CASE loop.open = "{" /\ text = <<>>
  <2>1. Part(loop, text, width) = <<>>
    BY <1>4 DEF Part
  <2> QED BY <2>1, Empty, Zenon
<1>5. CASE loop.open = "{" /\ text # <<>>
  <2>1. Part(loop, text, width) = <<NamedPart(loop, text, width)>>
    BY <1>5 DEF Part, NamedPart
  <2> QED BY <2>1, Single, Zenon
<1> QED BY <1>1, <1>2, <1>3, <1>4, <1>5, Zenon

(* EXCEPT of a frame.                                                      *)
LEMMA FrameExcept ==
    ASSUME NEW f, NEW g, DOMAIN f = {"open", "listed", "todo", "mind", "partial"}, NEW t, NEW p,
           g = [f EXCEPT !.todo = t, !.partial = p]
    PROVE  /\ DOMAIN g = {"open", "listed", "todo", "mind", "partial"}
           /\ g.open = f.open /\ g.mind = f.mind /\ g.todo = t /\ g.partial = p
  OBVIOUS

(* What becomes of the innermost loop.                                     *)
HasTop(s) == IsSeq(s) /\ s # <<>> /\ IsFrame(s[1])

TextAdded(u, s, text, width) ==
    /\ IsSeq(u) /\ u # <<>> /\ Len(u) = Len(s) /\ Len(s) \in Nat \ {0}
    /\ \A n \in 1 .. Len(s) : n # 1 => u[n] = s[n]
    /\ IsFrame(u[1])
    /\ u[1].open = s[1].open /\ u[1].mind = s[1].mind /\ u[1].todo = Tail(s[1].todo)
    /\ u[1].partial = s[1].partial \o Part(s[1], text, width)

LEMMA ReturnedIs ==
    ASSUME NEW text, NEW s, NEW width, HasTop(s)
    PROVE  TextAdded(Returned(text, s, width), s, text, width)
<1> DEFINE u == Returned(text, s, width)
           p == s[1].partial \o Part(s[1], text, width)
           f == [s[1] EXCEPT !.todo = Tail(@), !.partial = @ \o Part(s[1], text, width)]
<1>1. IsSeq(s) /\ s # <<>> /\ IsFrame(s[1])
  BY Zenon DEF HasTop
<1>2. u = <<f>> \o Tail(s)
  <2>1. Head(s) = s[1]
    BY <1>1, Behind
  <2> QED BY <2>1, Zenon DEF Returned
<1>3. /\ DOMAIN f = {"open", "listed", "todo", "mind", "partial"}
      /\ f.open = s[1].open /\ f.mind = s[1].mind /\ f.todo = Tail(s[1].todo) /\ f.partial = p
  <2>1. f = [s[1] EXCEPT !.todo = Tail(s[1].todo), !.partial = p]
    BY Zenon
  <2> HIDE DEF f, p
  <2> QED BY <2>1, <1>1, FrameExcept, Zenon DEF IsFrame
<1> HIDE DEF f
<1>4. IsFrame(f)
  <2>1. IsSeq(p)
    <3>1. IsSeq(s[1].partial) /\ (IsRoot(s[1]) \/ IsLoop(s[1]))
      BY <1>1, Zenon DEF IsFrame
    <3>2. IsSeq(Part(s[1], text, width))
      BY <3>1, PartSeq
    <3> QED BY <3>1, <3>2, Concat
  <2>2. IsRoot(f) \/ IsLoop(f)
    BY <1>1, <1>3, Zenon DEF IsFrame, IsRoot, IsLoop
  <2>3. f.mind \in Nat
    BY <1>1, <1>3, Zenon DEF IsFrame
  <2> QED BY <1>3, <2>1, <2>2, <2>3, Zenon DEF IsFrame
<1>5. /\ IsSeq(u) /\ u # <<>> /\ Len(u) = Len(s) /\ Len(s) \in Nat \ {0} /\ u[1] = f
      /\ \A n \in 1 .. Len(s) : n # 1 => u[n] = s[n]
  <2>1. /\ IsSeq(Tail(s)) /\ Len(Tail(s)) = Len(s) - 1 /\ Len(s) \in Nat \ {0}
        /\ \A n \in 1 .. Len(s) - 1 : Tail(s)[n] = s[n + 1]
    BY <1>1, Behind
  <2> HIDE DEF u
  <2>2. /\ IsSeq(u) /\ Len(u) = Len(Tail(s)) + 1 /\ u # <<>> /\ u[1] = f
        /\ \A n \in 1 .. Len(Tail(s)) : u[n + 1] = Tail(s)[n]
    BY <1>2, <2>1, Pushed
  <2>3. ASSUME NEW n \in 1 .. Len(s), n # 1 PROVE u[n] = s[n]
    <3>1. n - 1 \in 1 .. Len(Tail(s)) /\ n - 1 \in 1 .. Len(s) - 1 /\ (n - 1) + 1 = n
      BY <2>1, <2>3
    <3>2. u[(n - 1) + 1] = Tail(s)[n - 1] /\ Tail(s)[n - 1] = s[(n - 1) + 1]
      BY <2>1, <2>2, <3>1, Zenon
    <3> QED BY <3>1, <3>2, Zenon
  <2> QED BY <2>1, <2>2, <2>3
<1> QED BY <1>3, <1>4, <1>5, Zenon DEF TextAdded

LEMMA StackedReturn ==
    ASSUME NEW text, NEW s, NEW width, NEW before, Stacked(s, before), s # <<>>
    PROVE  Stacked(Returned(text, s, width), before)
<1> DEFINE u == Returned(text, s, width)
<1>1. /\ IsSeq(s) /\ \A n \in 1 .. Len(s) : IsFrame(s[n])
      /\ IsRoot(s[Len(s)])
      /\ \A n \in 1 .. Len(s) - 1 : IsLoop(s[n]) /\ IsRoot(s[n + 1]) => s[n].mind = 0
      /\ IsRoot(s[1]) => before = 0
  BY Zenon DEF Stacked
<1>2. 1 \in 1 .. Len(s)
  <2>1. Len(s) \in Nat \ {0}
    BY <1>1, Behind
  <2> QED BY <2>1
<1>3. /\ IsSeq(u) /\ u # <<>> /\ Len(u) = Len(s) /\ Len(s) \in Nat \ {0}
      /\ \A n \in 1 .. Len(s) : n # 1 => u[n] = s[n]
      /\ IsFrame(u[1]) /\ u[1].open = s[1].open /\ u[1].mind = s[1].mind
  <2>1. HasTop(s)
    BY <1>1, <1>2, Zenon DEF HasTop
  <2>2. TextAdded(u, s, text, width)
    BY <2>1, ReturnedIs, Zenon
  <2> QED BY <2>2, Zenon DEF TextAdded
<1> HIDE DEF u
<1>4. \A n \in 1 .. Len(s) : /\ IsFrame(u[n]) /\ u[n].mind = s[n].mind
                             /\ IsRoot(u[n]) <=> IsRoot(s[n])
                             /\ IsLoop(u[n]) <=> IsLoop(s[n])
  BY <1>1, <1>3, Zenon DEF IsRoot, IsLoop
<1>5. Len(s) \in 1 .. Len(s)
  BY <1>3
<1>6. \A n \in 1 .. Len(s) - 1 : n \in 1 .. Len(s) /\ n + 1 \in 1 .. Len(s)
  BY <1>3
<1>7. Stacked(u, before)
  BY <1>1, <1>2, <1>3, <1>4, <1>5, <1>6, Zenon DEF Stacked
<1> QED BY <1>7 DEF u
-----------------------------------------------------------------------------
(***************************************************************************)
(* Types                                                                   *)
(***************************************************************************)

IsCall(c) == DOMAIN c = {"value", "replacer", "space", "state", "nested", "text"}

(* A call that has begun, and one that has gone on from another.           *)
Begun(c, value, replacer, space, state) ==
    /\ IsCall(c) /\ c.value = value /\ c.replacer = replacer /\ c.space = space
    /\ c.state = state /\ c.nested = FALSE

GoneOn(c, old, state, text) ==
    /\ IsCall(c) /\ c.replacer = old.replacer /\ c.space = old.space
    /\ c.nested = old.nested /\ c.state = state /\ c.text = text

LEMMA CallBegun ==
    ASSUME NEW value, NEW replacer, NEW space, NEW state
    PROVE  Begun([NoCall EXCEPT !.value = value, !.replacer = replacer, !.space = space,
                                !.state = state], value, replacer, space, state)
<1> DEFINE c == [NoCall EXCEPT !.value = value, !.replacer = replacer, !.space = space,
                               !.state = state]
<1>1. IsCall(c)
  BY DEF NoCall, IsCall
<1>2. c.value = value /\ c.replacer = replacer
  BY DEF NoCall
<1>3. c.space = space /\ c.state = state
  BY DEF NoCall
<1>4. c.nested = FALSE
  BY DEF NoCall
<1> QED BY <1>1, <1>2, <1>3, <1>4, Zenon DEF Begun

LEMMA CallState ==
    ASSUME NEW old, IsCall(old), NEW state
    PROVE  GoneOn([old EXCEPT !.state = state], old, state, old.text)
<1> DEFINE c == [old EXCEPT !.state = state]
<1>1. IsCall(c) /\ c.replacer = old.replacer /\ c.space = old.space /\ c.nested = old.nested
      /\ c.state = state /\ c.text = old.text
  BY DEF IsCall
<1> QED BY <1>1, Zenon DEF GoneOn

LEMMA CallDone ==
    ASSUME NEW old, IsCall(old), NEW text
    PROVE  GoneOn([old EXCEPT !.state = "done", !.text = text], old, "done", text)
<1> DEFINE c == [old EXCEPT !.state = "done", !.text = text]
<1>1. IsCall(c) /\ c.replacer = old.replacer /\ c.space = old.space /\ c.nested = old.nested
      /\ c.state = "done" /\ c.text = text
  BY DEF IsCall
<1> QED BY <1>1, Zenon DEF GoneOn

IsNested(c, old) == IsCall(c) /\ c.state = old.state /\ c.nested = TRUE

LEMMA CallIsNested ==
    ASSUME NEW old, IsCall(old)
    PROVE  IsNested([old EXCEPT !.nested = TRUE], old)
<1> DEFINE c == [old EXCEPT !.nested = TRUE]
<1>1. IsCall(c) /\ c.state = old.state /\ c.nested = TRUE
  BY DEF IsCall
<1> QED BY <1>1, Zenon DEF IsNested

(* The frames that are pushed.                                             *)
NewFrame(f, open, todo, mind) ==
    /\ f.open = open /\ f.todo = todo /\ f.mind = mind /\ f.partial = <<>>
    /\ DOMAIN f = {"open", "listed", "todo", "mind", "partial"}

LEMMA FrameIs ==
    ASSUME NEW open, NEW listed, NEW todo, NEW mind
    PROVE  NewFrame(Frame(open, listed, todo, mind), open, todo, mind)
  BY DEF Frame, NewFrame

RootPushed(f, todo) == IsFrame(f) /\ IsRoot(f) /\ f.todo = todo /\ f.mind = 0 /\ f.partial = <<>>

LEMMA RootFrame ==
    ASSUME NEW todo
    PROVE  RootPushed(Frame("call", FALSE, todo, 0), todo)
<1>1. NewFrame(Frame("call", FALSE, todo, 0), "call", todo, 0)
  BY FrameIs, Zenon
<1>2. 0 \in Nat
  OBVIOUS
<1> QED BY <1>1, <1>2, Empty, Zenon DEF IsFrame, IsRoot, RootPushed, NewFrame

LoopPushed(f, value) ==
    /\ IsFrame(f) /\ IsLoop(f) /\ f.mind = gap /\ f.partial = <<>>
    /\ f.open = "{" => f.todo = Tried(value)

LEMMA LoopFrame ==
    ASSUME NEW value, gap \in Nat
    PROVE  LoopPushed(Loop(value), value)
<1> DEFINE f == Loop(value)
<1>1. CASE value.type = "array"
  <2>1. PICK todo : f = Frame("[", FALSE, todo, gap)
    BY <1>1, Zenon DEF Loop
  <2>2. NewFrame(f, "[", todo, gap)
    BY <2>1, FrameIs, Zenon
  <2>3. IsLoop(f) /\ f.open # "{"
    <3>1. f.open = "["
      BY <2>2, Zenon DEF NewFrame
    <3> HIDE DEF f
    <3> QED BY <3>1 DEF IsLoop
  <2> QED BY <2>2, <2>3, Empty, Zenon DEF IsFrame, NewFrame, LoopPushed
<1>2. CASE value.type # "array"
  <2>1. PICK listed : f = Frame("{", listed, Tried(value), gap)
    BY <1>2, Zenon DEF Loop
  <2>2. NewFrame(f, "{", Tried(value), gap)
    BY <2>1, FrameIs, Zenon
  <2>3. IsLoop(f)
    <3>1. f.open = "{"
      BY <2>2, Zenon DEF NewFrame
    <3> HIDE DEF f
    <3> QED BY <3>1 DEF IsLoop
  <2> QED BY <2>2, <2>3, Empty, Zenon DEF IsFrame, NewFrame, LoopPushed
<1> QED BY <1>1, <1>2, Zenon

TypeInv == TypeOK /\ IsCall(call) /\ Stacked(stack, gap)

LEMMA EmptyStacked ==
    ASSUME NEW width
    PROVE  Stacked(<<>>, width)
<1>1. 1 .. Len(<<>>) = {} /\ 1 .. Len(<<>>) - 1 = {}
  OBVIOUS
<1> QED BY <1>1, Empty, Zenon DEF Stacked

LEMMA TypeInit == TextInit => TypeInv
<1> SUFFICES ASSUME TextInit PROVE TypeInv
  OBVIOUS
<1>1. gap = 0 /\ indent = 0 /\ rep = NoReplacer /\ stack = <<>> /\ call = NoCall
  BY DEF TextInit
<1>2. IsCall(NoCall) /\ NoCall.state = "none"
  BY DEF IsCall, NoCall
<1>3. 0 \in Nat /\ "none" # "running" /\ "none" # "done"
  OBVIOUS
<1>4. TypeOK
  BY <1>1, <1>2, <1>3, Zenon DEF TypeOK
<1> QED BY <1>1, <1>2, <1>4, EmptyStacked, Zenon DEF TypeInv

(* There is a loop, or a call, while a call runs.                          *)
LEMMA Running ==
    ASSUME TypeInv
    PROVE  /\ call.state = "running" <=> stack # <<>>
           /\ call.state = "done" => gap = 0
           /\ gap \in Nat /\ indent \in Nat /\ rep \in Replacers \cup {NoReplacer}
           /\ IsCall(call) /\ Stacked(stack, gap)
           /\ stack # <<>> => frame = stack[1] /\ HasTop(stack)
<1>1. IsSeq(stack) /\ \A n \in 1 .. Len(stack) : IsFrame(stack[n])
  BY Zenon DEF TypeInv, Stacked
<1>2. stack # <<>> => Head(stack) = stack[1] /\ 1 \in 1 .. Len(stack)
  BY <1>1, Behind
<1>3. stack # <<>> => frame = stack[1] /\ HasTop(stack)
  BY <1>1, <1>2, Zenon DEF HasTop, frame
<1> QED BY <1>3, Zenon DEF TypeInv, TypeOK

LEMMA StringifyType ==
    ASSUME TypeInv, call.state = "none", NEW value \in Values, NEW replacer \in Replacers,
           NEW space \in Spaces, Stringify(value, replacer, space)
    PROVE  TypeInv'
<1> DEFINE f == Frame("call", FALSE, <<Member("", value)>>, 0)
<1>1. /\ gap' = 0 /\ indent' = space /\ rep' = replacer /\ stack' = <<f>> \o stack
      /\ call' = [NoCall EXCEPT !.value = value, !.replacer = replacer, !.space = space,
                                !.state = "running"]
  BY Zenon DEF Stringify, Begin
<1>2. IsCall(call') /\ call'.state = "running"
  <2>1. Begun(call', value, replacer, space, "running")
    BY <1>1, CallBegun
  <2> QED BY <2>1, Zenon DEF Begun
<1>3. IsFrame(f) /\ IsRoot(f)
  BY RootFrame, Zenon DEF RootPushed
<1> HIDE DEF f
<1>4. IsSeq(stack) /\ Stacked(stack, gap)
  BY Running, Zenon DEF Stacked
<1>5. stack' # <<>>
  BY <1>1, <1>4, Pushed
<1>6. Stacked(stack', gap')
  BY <1>1, <1>3, <1>4, StackedPush, Zenon
<1>7. space \in Nat /\ 0 \in Nat
  BY SpacesAssumption
<1>8. TypeOK'
  <2>1. "running" # "done"
    OBVIOUS
  <2> QED BY <1>1, <1>2, <1>5, <1>7, <2>1, Zenon DEF TypeOK
<1> QED BY <1>2, <1>6, <1>8, Zenon DEF TypeInv

LEMMA RefusedType ==
    ASSUME TypeInv, call.state = "none", NEW value \in Values, NEW replacer \in Replacers,
           NEW space \in Spaces, StringifyRefused(value, replacer, space)
    PROVE  TypeInv'
<1>1. /\ gap' = 0 /\ indent' = space /\ rep' = replacer /\ stack' = stack
      /\ call' = [NoCall EXCEPT !.value = value, !.replacer = replacer, !.space = space,
                                !.state = "raised"]
  BY Zenon DEF StringifyRefused
<1>2. IsCall(call') /\ call'.state = "raised"
  <2>1. Begun(call', value, replacer, space, "raised")
    BY <1>1, CallBegun
  <2> QED BY <2>1, Zenon DEF Begun
<1>3. stack = <<>>
  <2>1. call.state # "running"
    OBVIOUS
  <2> QED BY <2>1, Running, Zenon
<1>4. Stacked(stack', gap')
  BY <1>1, <1>3, EmptyStacked, Zenon
<1>5. space \in Nat /\ 0 \in Nat
  BY SpacesAssumption
<1>6. TypeOK'
  <2>1. "raised" # "done" /\ "raised" # "running"
    OBVIOUS
  <2> QED BY <1>1, <1>2, <1>3, <1>5, <2>1, Zenon DEF TypeOK
<1> QED BY <1>2, <1>4, <1>6, Zenon DEF TypeInv

LEMMA RaiseType ==
    ASSUME TypeInv, Raise
    PROVE  TypeInv'
<1>1. /\ gap' = gap /\ indent' = indent /\ rep' = rep /\ stack' = <<>>
      /\ call' = [call EXCEPT !.state = "raised"]
  BY Zenon DEF Raise, libVars
<1>2. IsCall(call') /\ call'.state = "raised"
  BY <1>1, Running, CallState, Zenon DEF GoneOn
<1>3. TypeOK'
  <2>1. "raised" # "done" /\ "raised" # "running"
    OBVIOUS
  <2> QED BY <1>1, <1>2, <2>1, Running, Zenon DEF TypeOK
<1> QED BY <1>1, <1>2, <1>3, EmptyStacked, Zenon DEF TypeInv

LEMMA CallNestedType ==
    ASSUME TypeInv, CallNested
    PROVE  TypeInv'
<1> DEFINE f == Frame("call", FALSE, <<Member("", holds.value)>>, 0)
<1>1. /\ gap' = 0 /\ indent' = 0 /\ rep' = NoReplacer /\ stack' = <<f>> \o stack /\ stack # <<>>
      /\ call' = [call EXCEPT !.nested = TRUE]
  BY Zenon DEF CallNested, Begin, Trying
<1>2. IsCall(call') /\ call'.state = call.state
  BY <1>1, Running, CallIsNested, Zenon DEF IsNested
<1>3. IsFrame(f) /\ IsRoot(f)
  BY RootFrame, Zenon DEF RootPushed
<1> HIDE DEF f
<1>4. IsSeq(stack) /\ Stacked(stack, gap)
  BY Running, Zenon DEF Stacked
<1>5. stack' # <<>>
  BY <1>1, <1>4, Pushed
<1>6. Stacked(stack', gap')
  BY <1>1, <1>3, <1>4, StackedPush, Zenon
<1>7. TypeOK'
  <2>1. "running" # "done" /\ 0 \in Nat
    OBVIOUS
  <2> QED BY <1>1, <1>2, <1>5, <2>1, Running, Zenon DEF TypeOK
<1> QED BY <1>2, <1>6, <1>7, Zenon DEF TypeInv

LEMMA StrTextType ==
    ASSUME TypeInv, StrText
    PROVE  TypeInv'
<1>1. /\ UNCHANGED <<gap, indent, rep, call>> /\ stack # <<>>
      /\ stack' = Returned(Text(Replace(ToJSON(holds))), stack, gap)
  BY Zenon DEF StrText, Trying
<1>2. Stacked(stack, gap) /\ HasTop(stack)
  BY <1>1, Running, Zenon
<1> DEFINE text == Text(Replace(ToJSON(holds)))
<1> HIDE DEF text
<1>3. stack' = Returned(text, stack, gap)
  BY <1>1, Zenon DEF text
<1>4. Stacked(stack', gap)
  BY <1>1, <1>2, <1>3, StackedReturn, Zenon
<1>5. stack' # <<>>
  BY <1>2, <1>3, ReturnedIs, Zenon DEF TextAdded
<1>6. TypeOK'
  BY <1>1, <1>5, Running, Zenon DEF TypeOK
<1> QED BY <1>1, <1>4, <1>6, Running, Zenon DEF TypeInv

LEMMA StrPartsType ==
    ASSUME TypeInv, StrParts
    PROVE  TypeInv'
<1> DEFINE f == Loop(holds)
<1>1. /\ UNCHANGED <<indent, rep, call>> /\ gap' = gap + indent
      /\ stack' = <<f>> \o stack /\ stack # <<>> /\ holds.type \in {"array", "object"}
  BY Zenon DEF StrParts, Trying
<1>2. IsFrame(f) /\ IsLoop(f) /\ f.mind = gap
  BY Running, LoopFrame, Zenon DEF LoopPushed
<1> HIDE DEF f
<1>3. IsSeq(stack) /\ Stacked(stack, gap)
  BY Running, Zenon DEF Stacked
<1>4. Stacked(stack', gap')
  BY <1>1, <1>2, <1>3, StackedPush, Zenon
<1>5. stack' # <<>>
  BY <1>1, <1>3, Pushed
<1>6. gap + indent \in Nat
  BY Running
<1>7. TypeOK'
  <2>1. "running" # "done"
    OBVIOUS
  <2> QED BY <1>1, <1>5, <1>6, <2>1, Running, Zenon DEF TypeOK
<1> QED BY <1>1, <1>4, <1>7, Running, Zenon DEF TypeInv

LEMMA StrReturnsType ==
    ASSUME TypeInv, StrReturns
    PROVE  TypeInv'
<1>1. /\ UNCHANGED <<indent, rep, call>> /\ gap' = frame.mind
      /\ stack' = Returned(Wrap(frame, gap), Tail(stack), frame.mind)
      /\ stack # <<>> /\ frame.open \in {"[", "{"}
  BY Zenon DEF StrReturns, Ended
<1>2. frame = stack[1] /\ HasTop(stack) /\ Stacked(stack, gap)
  BY <1>1, Running, Zenon
<1>3. IsLoop(stack[1]) /\ stack[1].mind \in Nat
  BY <1>1, <1>2, Zenon DEF IsLoop, HasTop, IsFrame
<1>4. Tail(stack) # <<>> /\ Stacked(Tail(stack), gap')
  BY <1>1, <1>2, <1>3, StackedPop, Zenon
<1>5. Stacked(stack', gap')
  BY <1>1, <1>4, StackedReturn, Zenon
<1>6. stack' # <<>>
  <2>1. HasTop(Tail(stack))
    <3>1. IsSeq(Tail(stack)) /\ \A n \in 1 .. Len(Tail(stack)) : IsFrame(Tail(stack)[n])
      BY <1>4, Zenon DEF Stacked
    <3>2. 1 \in 1 .. Len(Tail(stack))
      BY <1>4, <3>1, Behind
    <3> QED BY <1>4, <3>1, <3>2, Zenon DEF HasTop
  <2>2. TextAdded(stack', Tail(stack), Wrap(frame, gap), frame.mind)
    BY <1>1, <2>1, ReturnedIs, Zenon
  <2> QED BY <2>2, Zenon DEF TextAdded
<1>7. TypeOK'
  <2>1. "running" # "done"
    OBVIOUS
  <2> QED BY <1>1, <1>2, <1>3, <1>6, <2>1, Running, Zenon DEF TypeOK
<1> QED BY <1>1, <1>5, <1>7, Running, Zenon DEF TypeInv

LEMMA NestedReturnsType ==
    ASSUME TypeInv, NestedReturns
    PROVE  TypeInv'
<1>1. /\ UNCHANGED <<gap, indent, rep, call>> /\ stack # <<>> /\ Tail(stack) # <<>>
      /\ stack' = Returned(quote(Head(stack[2].todo).value.chars), Tail(stack), gap)
      /\ frame.open = "call"
  BY DEF NestedReturns, Ended
<1>2. frame = stack[1] /\ HasTop(stack) /\ Stacked(stack, gap)
  BY <1>1, Running, Zenon
<1>3. IsRoot(stack[1])
  BY <1>1, <1>2, Zenon DEF IsRoot
<1>4. Stacked(Tail(stack), gap)
  BY <1>1, <1>2, <1>3, StackedPop, Zenon
<1>5. Stacked(stack', gap)
  BY <1>1, <1>4, StackedReturn, Zenon
<1>6. stack' # <<>>
  <2>1. HasTop(Tail(stack))
    <3>1. IsSeq(Tail(stack)) /\ \A n \in 1 .. Len(Tail(stack)) : IsFrame(Tail(stack)[n])
      BY <1>4, Zenon DEF Stacked
    <3>2. 1 \in 1 .. Len(Tail(stack))
      BY <1>1, <3>1, Behind
    <3> QED BY <1>1, <3>1, <3>2, Zenon DEF HasTop
  <2>2. TextAdded(stack', Tail(stack), quote(Head(stack[2].todo).value.chars), gap)
    BY <1>1, <2>1, ReturnedIs, Zenon
  <2> QED BY <2>2, Zenon DEF TextAdded
<1>7. TypeOK'
  BY <1>1, <1>6, Running, Zenon DEF TypeOK
<1> QED BY <1>1, <1>5, <1>7, Running, Zenon DEF TypeInv

LEMMA StringifyReturnsType ==
    ASSUME TypeInv, StringifyReturns
    PROVE  TypeInv'
<1>1. /\ gap' = gap /\ indent' = indent /\ rep' = rep /\ stack' = <<>> /\ stack # <<>>
      /\ call' = [call EXCEPT !.state = "done", !.text = frame.partial[1]]
      /\ frame.open = "call"
  BY Zenon DEF StringifyReturns, Ended, libVars
<1>2. IsCall(call') /\ call'.state = "done"
  <2> DEFINE text == frame.partial[1]
             c == [call EXCEPT !.state = "done", !.text = text]
  <2>1. IsCall(call)
    BY Running, Zenon
  <2> HIDE DEF text
  <2>2. GoneOn(c, call, "done", text)
    BY <2>1, CallDone, Zenon
  <2>3. call' = c
    BY <1>1 DEF text
  <2> HIDE DEF c
  <2> QED BY <2>2, <2>3, Zenon DEF GoneOn
<1>3. gap = 0
  <2>1. frame = stack[1] /\ Stacked(stack, gap)
    BY <1>1, Running, Zenon
  <2> QED BY <1>1, <2>1, Zenon DEF IsRoot, Stacked
<1>4. TypeOK'
  <2>1. "done" # "running"
    OBVIOUS
  <2> QED BY <1>1, <1>2, <1>3, <2>1, Running, Zenon DEF TypeOK
<1> QED BY <1>1, <1>2, <1>4, EmptyStacked, Zenon DEF TypeInv

LEMMA ForgetType ==
    ASSUME TypeInv, Forget
    PROVE  TypeInv'
<1>1. /\ gap' = gap /\ indent' = indent /\ rep' = rep /\ stack' = stack /\ call' = NoCall
      /\ call.state \in {"done", "raised"}
  BY DEF Forget
<1>2. IsCall(NoCall) /\ NoCall.state = "none"
  BY DEF IsCall, NoCall
<1>3. stack = <<>>
  <2>1. call.state # "running"
    BY <1>1
  <2> QED BY <2>1, Running, Zenon
<1>4. TypeOK'
  <2>1. "none" # "done" /\ "none" # "running"
    OBVIOUS
  <2> QED BY <1>1, <1>2, <1>3, <2>1, Running, Zenon DEF TypeOK
<1> QED BY <1>1, <1>2, <1>4, Running, Zenon DEF TypeInv

LEMMA TypeStep ==
    ASSUME TypeInv, [TextNext]_textVars
    PROVE  TypeInv'
<1>1. CASE UNCHANGED textVars
  BY <1>1 DEF textVars, TypeInv, TypeOK, Stacked, IsCall
<1>2. CASE TextNext
  BY <1>2, StringifyType, RefusedType, RaiseType, CallNestedType, StrTextType, StrPartsType,
     StrReturnsType, NestedReturnsType, StringifyReturnsType, ForgetType, Zenon DEF TextNext
<1> QED BY <1>1, <1>2

(* TypeOK holds, for any values, replacers and spaces.                     *)
THEOREM TypeCorrect == TextSpec => []TypeOK
<1>1. TypeInv /\ [TextNext]_textVars => TypeInv'
  BY TypeStep
<1>2. TypeInv => TypeOK
  BY DEF TypeInv
<1> QED BY <1>1, <1>2, TypeInit, PTL DEF TextSpec
-----------------------------------------------------------------------------
(***************************************************************************)
(* Texts, while no toJSON method calls                                     *)
(***************************************************************************)

(* The text of a value at a depth: none, or a whole one.                   *)
Fits(text, depth, space, replacer) == text = <<>> \/ Whole(text, depth, space, replacer)

(* A part of a loop; only the fake root object has one without text.       *)
IsPart(f, part, depth, space, replacer) ==
    (IsRoot(f) /\ part = <<>>) \/ Whole(part, depth, space, replacer)

AllParts(f, parts, depth, space, replacer) ==
    IsSeq(parts) /\ \A n \in 1 .. Len(parts) : IsPart(f, parts[n], depth, space, replacer)

(* A list of keys decides which members a loop over an object asks for.    *)
AsksFor(todo, replacer) ==
    IsSeq(todo) /\ \A n \in 1 .. Len(todo) : InList(todo[n].key, replacer)

ListKept(f, replacer) == replacer.is = "keys" /\ f.open = "{" => AsksFor(f.todo, replacer)

PlainFrame(f, depth, space, replacer) ==
    /\ IsFrame(f) /\ ListKept(f, replacer)
    /\ (IsRoot(f) <=> depth = 0)
    /\ IsLoop(f) => f.mind = space * (depth - 1)
    /\ IsRoot(f) /\ f.todo = <<>> => f.partial # <<>>
    /\ AllParts(f, f.partial, depth, space, replacer)

PlainStack(s, space, replacer) ==
    /\ IsSeq(s)
    /\ \A n \in 1 .. Len(s) : PlainFrame(s[n], Len(s) - n, space, replacer)
    /\ \A n \in 1 .. Len(s) : n # 1 => s[n].todo # <<>>

Waits(s) == s # <<>> => s[1].todo # <<>>

LEMMA PlainPush ==
    ASSUME NEW s, NEW f, NEW space, NEW replacer, PlainStack(s, space, replacer), Waits(s),
           PlainFrame(f, Len(s), space, replacer)
    PROVE  PlainStack(<<f>> \o s, space, replacer)
<1> DEFINE u == <<f>> \o s
<1>1. IsSeq(s) /\ \A n \in 1 .. Len(s) : /\ PlainFrame(s[n], Len(s) - n, space, replacer)
                                         /\ n # 1 => s[n].todo # <<>>
  BY Zenon DEF PlainStack
<1>2. /\ IsSeq(u) /\ Len(u) = Len(s) + 1 /\ Len(s) \in Nat /\ u[1] = f
      /\ (s = <<>> <=> Len(s) = 0) /\ \A n \in 1 .. Len(s) : u[n + 1] = s[n]
  BY <1>1, Pushed
<1> HIDE DEF u
<1>3. ASSUME NEW n \in 1 .. Len(u)
      PROVE  /\ PlainFrame(u[n], Len(u) - n, space, replacer)
             /\ n # 1 => u[n].todo # <<>>
  <2>1. CASE n = 1
    <3>1. Len(u) - n = Len(s)
      BY <1>2, <2>1
    <3> QED BY <1>2, <2>1, <3>1, Zenon
  <2>2. CASE n # 1
    <3> DEFINE m == n - 1
    <3>1. m \in 1 .. Len(s) /\ m + 1 = n /\ Len(u) - n = Len(s) - m /\ Len(s) # 0
      BY <1>2, <2>2
    <3> HIDE DEF m
    <3>2. u[n] = s[m]
      BY <1>2, <3>1, Zenon
    <3>3. s[m].todo # <<>>
      BY <1>1, <1>2, <3>1, Zenon DEF Waits
    <3>4. PlainFrame(s[m], Len(s) - m, space, replacer)
      BY <1>1, <3>1, Zenon
    <3> QED BY <3>1, <3>2, <3>3, <3>4, Zenon
  <2> QED BY <2>1, <2>2
<1>4. PlainStack(u, space, replacer)
  BY <1>2, <1>3, Zenon DEF PlainStack
<1> QED BY <1>4 DEF u

LEMMA PlainPop ==
    ASSUME NEW s, NEW space, NEW replacer, PlainStack(s, space, replacer), s # <<>>
    PROVE  PlainStack(Tail(s), space, replacer) /\ Waits(Tail(s))
<1> DEFINE t == Tail(s)
<1>1. IsSeq(s) /\ \A n \in 1 .. Len(s) : /\ PlainFrame(s[n], Len(s) - n, space, replacer)
                                         /\ n # 1 => s[n].todo # <<>>
  BY Zenon DEF PlainStack
<1>2. /\ IsSeq(t) /\ Len(t) = Len(s) - 1 /\ Len(s) \in Nat \ {0}
      /\ \A n \in 1 .. Len(s) - 1 : t[n] = s[n + 1]
  BY <1>1, Behind
<1> HIDE DEF t
<1>3. ASSUME NEW n \in 1 .. Len(t)
      PROVE  PlainFrame(t[n], Len(t) - n, space, replacer) /\ t[n].todo # <<>>
  <2> DEFINE m == n + 1
  <2>1. m \in 1 .. Len(s) /\ m # 1 /\ n \in 1 .. Len(s) - 1 /\ Len(t) - n = Len(s) - m
    BY <1>2
  <2>2. t[n] = s[m]
    BY <1>2, <2>1, Zenon
  <2> HIDE DEF m
  <2>3. PlainFrame(s[m], Len(s) - m, space, replacer) /\ s[m].todo # <<>>
    BY <1>1, <2>1, Zenon
  <2> QED BY <2>1, <2>2, <2>3, Zenon
<1>4. PlainStack(t, space, replacer)
  BY <1>2, <1>3, Zenon DEF PlainStack
<1>5. Waits(t)
  <2>1. t # <<>> => 1 \in 1 .. Len(t)
    <3>1. t # <<>> => Len(t) \in Nat \ {0}
      BY <1>2, Behind
    <3> QED BY <3>1
  <2> QED BY <1>3, <2>1, Zenon DEF Waits
<1> QED BY <1>4, <1>5 DEF t

LEMMA NullWhole ==
    ASSUME NEW depth, NEW space, NEW replacer
    PROVE  Whole(<<Literal(Null)>>, depth, space, replacer)
<1>1. Null.type = "null"
  BY DEF Null
<1>2. Text(Null) = <<Literal(Null)>>
  BY <1>1 DEF Text
<1>3. <<Literal(Null)>> # <<>>
  BY Single, Zenon
<1> QED BY <1>2, <1>3, TextWhole, Zenon

LEMMA BalancedConcat ==
    ASSUME NEW s, NEW t, NEW depth \in Nat, NEW space \in Nat, NEW replacer,
           Balanced(s, depth, space, replacer), Balanced(t, depth, space, replacer)
    PROVE  Balanced(s \o t, depth, space, replacer) /\ (s \o t)[1] = s[1]
<1>1. /\ Piece(s, depth, space, replacer) /\ Opened(s) = 0 /\ s # <<>> /\ IsSeq(s)
      /\ Piece(t, depth, space, replacer) /\ Opened(t) = 0 /\ IsSeq(t)
  BY Zenon DEF Balanced, Piece
<1>2. depth \in Int /\ depth + Opened(s) = depth
  BY <1>1
<1>3. Piece(s \o t, depth, space, replacer)
  BY <1>1, <1>2, PieceConcat, Zenon
<1>4. Opened(s \o t) = 0
  <2>1. Opened(s \o t) = Opened(s) + Opened(t)
    BY <1>1, OpenedConcat
  <2> QED BY <1>1, <2>1
<1>5. s \o t # <<>> /\ (s \o t)[1] = s[1]
  BY <1>1, Concat
<1> QED BY <1>3, <1>4, <1>5, Zenon DEF Balanced

(* A member, with its key.                                                 *)
LEMMA MemberWhole ==
    ASSUME NEW key, NEW colon, IsColon(colon), NEW text, NEW depth \in Nat, NEW space \in Nat,
           NEW replacer, replacer.is = "keys" => InList(key, replacer),
           Whole(text, depth, space, replacer)
    PROVE  Whole(quote(key) \o <<Token(colon)>> \o text, depth, space, replacer)
<1> DEFINE begin == quote(key) \o <<Token(colon)>>
<1>1. Piece(begin, depth, space, replacer) /\ Opened(begin) = 0 /\ begin[1].token = "string"
  BY PieceKey, Zenon
<1>2. begin # <<>>
  <2>1. quote(key) = <<Quoted(key, Escapable)>>
    BY Zenon DEF quote
  <2>2. IsSeq(<<Token(colon)>>)
    BY Single, Zenon
  <2>3. <<Quoted(key, Escapable)>> \o <<Token(colon)>> # <<>>
    BY <2>2, Pushed, Zenon
  <2> QED BY <2>1, <2>3, Zenon
<1>3. ~Closes(begin[1])
  <2> HIDE DEF begin
  <2>1. "string" # "]" /\ "string" # "}"
    OBVIOUS
  <2> QED BY <1>1, <2>1, Zenon DEF Closes
<1> HIDE DEF begin
<1>4. Balanced(begin, depth, space, replacer) /\ Balanced(text, depth, space, replacer)
  BY <1>1, <1>2, Zenon DEF Balanced, Whole
<1>5. Whole(begin \o text, depth, space, replacer)
  BY <1>3, <1>4, BalancedConcat, Zenon DEF Whole
<1> QED BY <1>5, Zenon DEF begin

LEMMA OnePart ==
    ASSUME NEW f, NEW x, NEW depth, NEW space, NEW replacer, IsPart(f, x, depth, space, replacer)
    PROVE  AllParts(f, <<x>>, depth, space, replacer)
<1>1. /\ IsSeq(<<x>>) /\ Len(<<x>>) = 1 /\ <<x>>[1] = x
      /\ \A n \in 1 .. 1 : n = 1
  BY Single
<1> QED BY <1>1, Zenon DEF AllParts

LEMMA NoPart ==
    ASSUME NEW f, NEW depth, NEW space, NEW replacer
    PROVE  AllParts(f, <<>>, depth, space, replacer)
<1>1. 1 .. Len(<<>>) = {}
  OBVIOUS
<1> QED BY <1>1, Empty, Zenon DEF AllParts

LEMMA MoreParts ==
    ASSUME NEW f, NEW p, NEW q, NEW depth, NEW space, NEW replacer,
           AllParts(f, p, depth, space, replacer), AllParts(f, q, depth, space, replacer)
    PROVE  AllParts(f, p \o q, depth, space, replacer)
<1> DEFINE u == p \o q
<1>1. /\ IsSeq(p) /\ \A n \in 1 .. Len(p) : IsPart(f, p[n], depth, space, replacer)
      /\ IsSeq(q) /\ \A n \in 1 .. Len(q) : IsPart(f, q[n], depth, space, replacer)
  BY Zenon DEF AllParts
<1>2. /\ IsSeq(u) /\ Len(u) = Len(p) + Len(q) /\ Len(p) \in Nat /\ Len(q) \in Nat
      /\ \A n \in 1 .. Len(p) : u[n] = p[n]
      /\ \A n \in 1 .. Len(q) : u[Len(p) + n] = q[n]
  BY <1>1, Concat
<1> HIDE DEF u
<1>3. ASSUME NEW n \in 1 .. Len(u) PROVE IsPart(f, u[n], depth, space, replacer)
  <2>1. CASE n \in 1 .. Len(p)
    BY <1>1, <1>2, <2>1, Zenon
  <2>2. CASE n \notin 1 .. Len(p)
    <3> DEFINE m == n - Len(p)
    <3>1. m \in 1 .. Len(q) /\ Len(p) + m = n
      BY <1>2, <2>2
    <3> HIDE DEF m
    <3>2. u[Len(p) + m] = q[m]
      BY <1>2, <3>1, Zenon
    <3> QED BY <1>1, <3>1, <3>2, Zenon
  <2> QED BY <2>1, <2>2
<1>4. AllParts(f, u, depth, space, replacer)
  BY <1>2, <1>3, Zenon DEF AllParts
<1> QED BY <1>4 DEF u

(* A loop makes parts of the texts that are returned to it.                *)
LEMMA PartWhole ==
    ASSUME NEW f, NEW text, NEW width, NEW depth \in Nat, NEW space \in Nat, NEW replacer,
           PlainFrame(f, depth, space, replacer), f.todo # <<>>,
           Fits(text, depth, space, replacer)
    PROVE  AllParts(f, Part(f, text, width), depth, space, replacer)
<1>1. IsRoot(f) \/ f.open = "[" \/ f.open = "{"
  <2>1. IsRoot(f) \/ IsLoop(f)
    BY Zenon DEF PlainFrame, IsFrame
  <2> QED BY <2>1 DEF IsLoop
<1>2. CASE IsRoot(f)
  <2>1. Part(f, text, width) = <<text>>
    BY <1>2, PartOfRoot, Zenon
  <2>2. IsPart(f, text, depth, space, replacer)
    BY <1>2, Zenon DEF IsPart, Fits
  <2> QED BY <2>1, <2>2, OnePart, Zenon
<1>3. CASE f.open = "["
  <2>1. PICK x : Part(f, text, width) = <<x>> /\ (x = <<Literal(Null)>> \/ (text # <<>> /\ x = text))
    <3>1. CASE text = <<>>
      BY <1>3, <3>1 DEF Part
    <3>2. CASE text # <<>>
      BY <1>3, <3>2 DEF Part
    <3> QED BY <3>1, <3>2
  <2>2. Whole(x, depth, space, replacer)
    BY <2>1, NullWhole, Zenon DEF Fits
  <2>3. IsPart(f, x, depth, space, replacer)
    BY <2>2, Zenon DEF IsPart
  <2> QED BY <2>1, <2>3, OnePart, Zenon
<1>4. CASE f.open = "{" /\ text = <<>>
  <2>1. Part(f, text, width) = <<>>
    BY <1>4, NoPartOfObject, Zenon
  <2> QED BY <2>1, NoPart, Zenon
<1>5. CASE f.open = "{" /\ text # <<>>
  <2> DEFINE key == Head(f.todo).key
             colon == IF width = 0 THEN ":" ELSE ": "
             x == quote(key) \o <<Token(colon)>> \o text
  <2>1. Part(f, text, width) = <<x>>
    <3>1. NamedPart(f, text, width) = x
      BY DEF NamedPart
    <3> HIDE DEF x
    <3> QED BY <1>5, <3>1, PartOfObject, Zenon
  <2>2. ASSUME replacer.is = "keys" PROVE InList(key, replacer)
    <3>1. AsksFor(f.todo, replacer)
      BY <1>5, <2>2, Zenon DEF PlainFrame, ListKept
    <3>2. IsSeq(f.todo) /\ \A n \in 1 .. Len(f.todo) : InList(f.todo[n].key, replacer)
      BY <3>1, Zenon DEF AsksFor
    <3>3. Head(f.todo) = f.todo[1] /\ 1 \in 1 .. Len(f.todo)
      <4>1. Head(f.todo) = f.todo[1] /\ Len(f.todo) \in Nat \ {0}
        BY <3>2, Behind, Zenon
      <4> QED BY <4>1
    <3> QED BY <3>2, <3>3, Zenon
  <2>3. IsColon(colon)
    BY DEF IsColon
  <2>4. Whole(text, depth, space, replacer)
    BY <1>5, Zenon DEF Fits
  <2> HIDE DEF key, colon
  <2>5. Whole(x, depth, space, replacer)
    BY <2>2, <2>3, <2>4, MemberWhole, Zenon
  <2>6. IsPart(f, x, depth, space, replacer)
    BY <2>5, Zenon DEF IsPart
  <2> HIDE DEF x
  <2> QED BY <2>1, <2>6, OnePart, Zenon
<1> QED BY <1>1, <1>2, <1>3, <1>4, <1>5, Zenon

LEMMA PlainAdded ==
    ASSUME NEW f, NEW g, NEW parts, NEW depth, NEW space, NEW replacer,
           PlainFrame(f, depth, space, replacer), f.todo # <<>>,
           AllParts(f, parts, depth, space, replacer), IsRoot(f) => parts # <<>>,
           IsFrame(g), g.open = f.open, g.mind = f.mind, g.todo = Tail(f.todo),
           g.partial = f.partial \o parts
    PROVE  PlainFrame(g, depth, space, replacer)
<1>1. /\ ListKept(f, replacer) /\ (IsRoot(f) <=> depth = 0)
      /\ IsLoop(f) => f.mind = space * (depth - 1)
      /\ AllParts(f, f.partial, depth, space, replacer)
  BY Zenon DEF PlainFrame
<1>2. (IsRoot(g) <=> IsRoot(f)) /\ (IsLoop(g) <=> IsLoop(f))
  BY Zenon DEF IsRoot, IsLoop
<1>3. ListKept(g, replacer)
  <2>1. ASSUME AsksFor(f.todo, replacer) PROVE AsksFor(g.todo, replacer)
    <3>1. IsSeq(f.todo) /\ \A n \in 1 .. Len(f.todo) : InList(f.todo[n].key, replacer)
      BY <2>1, Zenon DEF AsksFor
    <3>2. /\ IsSeq(g.todo) /\ Len(g.todo) = Len(f.todo) - 1 /\ Len(f.todo) \in Nat \ {0}
          /\ \A n \in 1 .. Len(f.todo) - 1 : g.todo[n] = f.todo[n + 1]
      BY <3>1, Behind, Zenon
    <3>3. \A n \in 1 .. Len(f.todo) - 1 : n + 1 \in 1 .. Len(f.todo)
      BY <3>2
    <3> QED BY <3>1, <3>2, <3>3, Zenon DEF AsksFor
  <2> QED BY <1>1, <2>1, Zenon DEF ListKept
<1>4. AllParts(g, g.partial, depth, space, replacer)
  <2>1. AllParts(f, g.partial, depth, space, replacer)
    BY <1>1, MoreParts, Zenon
  <2> QED BY <1>2, <2>1, Zenon DEF AllParts, IsPart
<1>5. IsRoot(g) => g.partial # <<>>
  <2>1. ASSUME parts # <<>> PROVE f.partial \o parts # <<>>
    <3>1. IsSeq(f.partial) /\ IsSeq(parts)
      BY <1>1, Zenon DEF AllParts
    <3> DEFINE p == f.partial
    <3> HIDE DEF p
    <3>2. Len(parts) \in Nat \ {0}
      BY <2>1, <3>1, Behind, Zenon
    <3>3. /\ Len(p \o parts) = Len(p) + Len(parts) /\ Len(p) \in Nat /\ IsSeq(p \o parts)
      BY <3>1, Concat, Zenon DEF p
    <3>4. Len(p \o parts) # 0
      BY <3>2, <3>3
    <3>5. p \o parts # <<>>
      BY <3>4, Empty, Zenon
    <3> QED BY <3>5, Zenon DEF p
  <2> QED BY <1>2, <2>1, Zenon
<1> QED BY <1>1, <1>2, <1>3, <1>4, <1>5, Zenon DEF PlainFrame

(* A text is returned to a loop.                                           *)
LEMMA PlainReturn ==
    ASSUME NEW s, NEW text, NEW width, NEW space \in Nat, NEW replacer,
           PlainStack(s, space, replacer), s # <<>>, Waits(s),
           Fits(text, Len(s) - 1, space, replacer)
    PROVE  /\ PlainStack(Returned(text, s, width), space, replacer)
           /\ Len(Returned(text, s, width)) = Len(s)
<1> DEFINE u == Returned(text, s, width)
<1>1. /\ IsSeq(s) /\ \A n \in 1 .. Len(s) : PlainFrame(s[n], Len(s) - n, space, replacer)
      /\ \A n \in 1 .. Len(s) : n # 1 => s[n].todo # <<>>
      /\ s[1].todo # <<>>
  BY Zenon DEF PlainStack, Waits
<1>2. Len(s) \in Nat \ {0}
  BY <1>1, Behind, Zenon
<1>3. 1 \in 1 .. Len(s) /\ Len(s) - 1 \in Nat
  BY <1>2
<1>4. PlainFrame(s[1], Len(s) - 1, space, replacer)
  BY <1>1, <1>3, Zenon
<1>5. HasTop(s)
  BY <1>1, <1>4, Zenon DEF HasTop, PlainFrame
<1>6. TextAdded(u, s, text, width)
  BY <1>5, ReturnedIs, Zenon
<1> HIDE DEF u
<1>7. AllParts(s[1], Part(s[1], text, width), Len(s) - 1, space, replacer)
  BY <1>1, <1>3, <1>4, PartWhole, Zenon
<1>8. IsRoot(s[1]) => Part(s[1], text, width) # <<>>
  <2>1. IsRoot(s[1]) => Part(s[1], text, width) = <<text>>
    BY PartOfRoot, Zenon
  <2>2. <<text>> # <<>>
    BY Single, Zenon
  <2> QED BY <2>1, <2>2, Zenon
<1>9. PlainFrame(u[1], Len(s) - 1, space, replacer)
  BY <1>1, <1>4, <1>6, <1>7, <1>8, PlainAdded, Zenon DEF TextAdded
<1>10. /\ IsSeq(u) /\ Len(u) = Len(s) /\ \A n \in 1 .. Len(s) : n # 1 => u[n] = s[n]
  BY <1>6, Zenon DEF TextAdded
<1>11. PlainStack(u, space, replacer)
  BY <1>1, <1>9, <1>10, Zenon DEF PlainStack
<1> QED BY <1>10, <1>11, Zenon DEF u

(* The text of a loop that ends.                                           *)
LEMMA WrapFits ==
    ASSUME NEW f, NEW depth \in Nat, NEW space \in Nat, NEW replacer, NEW width,
           PlainFrame(f, depth, space, replacer), IsLoop(f), width = space * depth
    PROVE  Fits(Wrap(f, width), depth - 1, space, replacer)
<1> DEFINE base == depth - 1
<1>1. /\ (IsRoot(f) <=> depth = 0) /\ f.mind = space * base
      /\ AllParts(f, f.partial, depth, space, replacer) /\ ~IsRoot(f)
  BY RootIsNoLoop, Zenon DEF PlainFrame
<1>2. base \in Nat /\ base + 1 = depth
  BY <1>1
<1> HIDE DEF base
<1>3. /\ IsSeq(f.partial)
      /\ \A n \in 1 .. Len(f.partial) : Whole(f.partial[n], base + 1, space, replacer)
  BY <1>1, <1>2, Zenon DEF AllParts, IsPart
<1>4. width = space * (base + 1)
  BY <1>2, Zenon
<1>5. Whole(Wrap(f, width), base, space, replacer)
  BY <1>1, <1>2, <1>3, <1>4, WrapWhole, Zenon
<1> QED BY <1>5, Zenon DEF Fits, base

(* The first frame of the page's call.                                     *)
LEMMA RootPlain ==
    ASSUME NEW f, NEW x, RootPushed(f, <<x>>), NEW space, NEW replacer
    PROVE  PlainStack(<<f>> \o <<>>, space, replacer)
<1>1. IsFrame(f) /\ IsRoot(f) /\ f.todo = <<x>> /\ f.partial = <<>>
  BY Zenon DEF RootPushed
<1>2. ListKept(f, replacer)
  <2>1. f.open # "{"
    <3>1. f.open = "call"
      BY <1>1, Zenon DEF IsRoot
    <3> QED BY <3>1
  <2> QED BY <2>1, Zenon DEF ListKept
<1>3. PlainFrame(f, 0, space, replacer)
  <2>1. AllParts(f, f.partial, 0, space, replacer)
    BY <1>1, NoPart, Zenon
  <2>2. f.todo # <<>>
    BY <1>1, Single, Zenon
  <2>3. ~IsLoop(f)
    BY <1>1, RootIsNoLoop, Zenon
  <2> QED BY <1>1, <1>2, <2>1, <2>2, <2>3, Zenon DEF PlainFrame
<1>4. PlainStack(<<>>, space, replacer) /\ Waits(<<>>)
  <2>1. 1 .. Len(<<>>) = {}
    OBVIOUS
  <2> QED BY <2>1, Empty, Zenon DEF PlainStack, Waits
<1> QED BY <1>3, <1>4, Empty, PlainPush, Zenon

KeysAreSeq(replacer) == replacer.is = "keys" => IsSeq(replacer.keys)

LEMMA ListOfKeys ==
    ASSUME rep \in Replacers \cup {NoReplacer}
    PROVE  KeysAreSeq(rep)
<1>1. CASE rep \in Replacers
  BY <1>1, ReplacersAssumption, Zenon DEF KeysAreSeq, IsSeq
<1>2. CASE rep = NoReplacer
  <2>1. NoReplacer.is # "keys"
    BY DEF NoReplacer
  <2> QED BY <1>2, <2>1, Zenon DEF KeysAreSeq
<1> QED BY <1>1, <1>2

(* Only members are tried that the list names.                             *)
LEMMA TriedInList ==
    ASSUME NEW value, KeysAreSeq(rep), rep.is = "keys"
    PROVE  AsksFor(Tried(value), rep)
<1> DEFINE keys == rep.keys
           M(n) == Member(keys[n], At(value, keys[n]))
           todo == [n \in DOMAIN keys |-> M(n)]
<1>1. Tried(value) = todo
  BY Zenon DEF Tried
<1>2. IsSeq(keys)
  BY Zenon DEF KeysAreSeq
<1>3. \A key, x : Member(key, x).key = key
  BY DEF Member
<1>4. \A n : M(n).key = keys[n]
  BY <1>3, Zenon
<1> HIDE DEF keys, M
<1>5. DOMAIN keys = 1 .. Len(keys) /\ Len(keys) \in Nat
  BY <1>2, Concat, Zenon
<1>6. IsSeq(todo) /\ Len(todo) = Len(keys)
  <2> DEFINE L == {M(n) : n \in DOMAIN keys}
  <2>1. todo \in [1 .. Len(keys) -> L]
    BY <1>5, Zenon
  <2> HIDE DEF todo, L
  <2>2. todo \in Seq(L) /\ Len(todo) = Len(keys)
    BY <1>5, <2>1
  <2> QED BY <2>2 DEF IsSeq
<1>7. \A n \in 1 .. Len(keys) : InList(todo[n].key, rep)
  <2>1. ASSUME NEW n \in 1 .. Len(keys) PROVE InList(todo[n].key, rep)
    <3>1. n \in DOMAIN keys /\ todo[n] = M(n)
      BY <1>5, Zenon
    <3> HIDE DEF todo
    <3>2. todo[n].key = keys[n]
      BY <1>4, <3>1, Zenon
    <3> QED BY <3>1, <3>2, Zenon DEF InList, keys
  <2> QED BY <2>1
<1> HIDE DEF todo
<1>8. AsksFor(todo, rep)
  BY <1>6, <1>7, Zenon DEF AsksFor
<1> QED BY <1>1, <1>8, Zenon

(* A loop that begins.                                                     *)
LEMMA LoopPlain ==
    ASSUME NEW f, NEW value, LoopPushed(f, value), NEW depth \in Nat, depth # 0, NEW space,
           KeysAreSeq(rep), gap = space * (depth - 1)
    PROVE  PlainFrame(f, depth, space, rep)
<1>1. /\ IsFrame(f) /\ IsLoop(f) /\ f.mind = gap /\ f.partial = <<>>
      /\ f.open = "{" => f.todo = Tried(value)
  BY Zenon DEF LoopPushed
<1>2. ListKept(f, rep)
  BY <1>1, TriedInList, Zenon DEF ListKept
<1> QED BY <1>1, <1>2, RootIsNoLoop, NoPart, Zenon DEF PlainFrame
-----------------------------------------------------------------------------
(***************************************************************************)
(* Layout and SelectsKeys                                                  *)
(***************************************************************************)

IsPlain(c) == c.state = "running" /\ ~c.nested

PlainAt(c) ==
    /\ indent = c.space /\ rep = c.replacer /\ c.space \in Nat
    /\ gap = c.space * (Len(stack) - 1)
    /\ PlainStack(stack, c.space, c.replacer)

TextOK(c) == c.state = "done" /\ ~c.nested => Fits(c.text, 0, c.space, c.replacer)

(* While no toJSON method has called, the gap is the space for each loop   *)
(* on the stack, and what the loops have is whole at their depths; the     *)
(* text of the call is whole as well then.                                 *)
PlainInv == TypeInv /\ (IsPlain(call) => PlainAt(call)) /\ TextOK(call)

LEMMA NotRunning ==
    ASSUME NEW c, c.state \in {"none", "raised", "done"}
    PROVE  ~IsPlain(c) /\ (c.state # "done" => TextOK(c))
  BY DEF IsPlain, TextOK

LEMMA PlainRunning ==
    ASSUME PlainInv, IsPlain(call), stack # <<>>
    PROVE  /\ indent = call.space /\ rep = call.replacer /\ call.space \in Nat
           /\ gap = call.space * (Len(stack) - 1)
           /\ PlainStack(stack, call.space, call.replacer)
           /\ IsSeq(stack) /\ Len(stack) \in Nat \ {0} /\ 1 \in 1 .. Len(stack)
           /\ frame = stack[1]
           /\ PlainFrame(stack[1], Len(stack) - 1, call.space, call.replacer)
<1>1. /\ indent = call.space /\ rep = call.replacer /\ call.space \in Nat
      /\ gap = call.space * (Len(stack) - 1)
      /\ PlainStack(stack, call.space, call.replacer)
  BY Zenon DEF PlainInv, PlainAt
<1>2. IsSeq(stack)
      /\ \A n \in 1 .. Len(stack) : PlainFrame(stack[n], Len(stack) - n, call.space, call.replacer)
  BY <1>1, Zenon DEF PlainStack
<1>3. Len(stack) \in Nat \ {0}
  BY <1>2, Behind, Zenon
<1>4. 1 \in 1 .. Len(stack)
  BY <1>3
<1>5. frame = stack[1]
  BY Running, Zenon DEF PlainInv
<1> QED BY <1>1, <1>2, <1>3, <1>4, <1>5, Zenon

LEMMA StringifyPlain ==
    ASSUME PlainInv, call.state = "none", NEW value \in Values, NEW replacer \in Replacers,
           NEW space \in Spaces, Stringify(value, replacer, space)
    PROVE  PlainInv'
<1> DEFINE f == Frame("call", FALSE, <<Member("", value)>>, 0)
<1>1. /\ gap' = 0 /\ indent' = space /\ rep' = replacer /\ stack' = <<f>> \o stack
      /\ call' = [NoCall EXCEPT !.value = value, !.replacer = replacer, !.space = space,
                                !.state = "running"]
  BY Zenon DEF Stringify, Begin
<1>2. TypeInv'
  BY StringifyType, Zenon DEF PlainInv
<1>3. call'.state = "running" /\ call'.replacer = replacer /\ call'.space = space
  <2>1. Begun(call', value, replacer, space, "running")
    BY <1>1, CallBegun
  <2> QED BY <2>1, Zenon DEF Begun
<1>4. RootPushed(f, <<Member("", value)>>)
  BY RootFrame, Zenon
<1> HIDE DEF f
<1>5. stack = <<>>
  <2>1. call.state # "running"
    OBVIOUS
  <2> QED BY <2>1, Running, Zenon DEF PlainInv
<1>6. PlainStack(stack', space, replacer)
  BY <1>1, <1>4, <1>5, RootPlain, Zenon
<1>7. space \in Nat
  BY SpacesAssumption
<1>8. gap' = space * (Len(stack') - 1)
  <2>1. Len(stack') = Len(stack) + 1 /\ Len(stack) = 0
    BY <1>1, <1>5, Empty, Pushed, Zenon
  <2>2. space * (Len(stack') - 1) = 0
    BY <2>1, <1>7
  <2> QED BY <1>1, <2>2, Zenon
<1>9. PlainAt(call)'
  BY <1>1, <1>3, <1>6, <1>7, <1>8, Zenon DEF PlainAt
<1>10. TextOK(call')
  <2>1. "running" # "done"
    OBVIOUS
  <2> QED BY <1>3, <2>1, Zenon DEF TextOK
<1> QED BY <1>2, <1>9, <1>10, Zenon DEF PlainInv

LEMMA RefusedPlain ==
    ASSUME PlainInv, call.state = "none", NEW value \in Values, NEW replacer \in Replacers,
           NEW space \in Spaces, StringifyRefused(value, replacer, space)
    PROVE  PlainInv'
<1>1. call' = [NoCall EXCEPT !.value = value, !.replacer = replacer, !.space = space,
                             !.state = "raised"]
  BY Zenon DEF StringifyRefused
<1>2. call'.state = "raised"
  <2>1. Begun(call', value, replacer, space, "raised")
    BY <1>1, CallBegun
  <2> QED BY <2>1, Zenon DEF Begun
<1>3. TypeInv'
  BY RefusedType, Zenon DEF PlainInv
<1>4. ~IsPlain(call') /\ TextOK(call')
  BY <1>2, NotRunning
<1> QED BY <1>3, <1>4, Zenon DEF PlainInv

LEMMA RaisePlain ==
    ASSUME PlainInv, Raise
    PROVE  PlainInv'
<1>1. call' = [call EXCEPT !.state = "raised"] /\ TypeInv
  BY Zenon DEF Raise, PlainInv
<1>2. call'.state = "raised"
  BY <1>1, Running, CallState, Zenon DEF GoneOn
<1>3. TypeInv'
  BY RaiseType, Zenon DEF PlainInv
<1>4. ~IsPlain(call') /\ TextOK(call')
  BY <1>2, NotRunning
<1> QED BY <1>3, <1>4, Zenon DEF PlainInv

LEMMA ForgetPlain ==
    ASSUME PlainInv, Forget
    PROVE  PlainInv'
<1>1. call' = NoCall
  BY Zenon DEF Forget
<1>2. call'.state = "none"
  BY <1>1 DEF NoCall
<1>3. TypeInv'
  BY ForgetType, Zenon DEF PlainInv
<1>4. ~IsPlain(call') /\ TextOK(call')
  BY <1>2, NotRunning
<1> QED BY <1>3, <1>4, Zenon DEF PlainInv

LEMMA CallNestedPlain ==
    ASSUME PlainInv, CallNested
    PROVE  PlainInv'
<1>1. call' = [call EXCEPT !.nested = TRUE] /\ TypeInv
  BY Zenon DEF CallNested, PlainInv
<1>2. call'.nested = TRUE
  BY <1>1, Running, CallIsNested, Zenon DEF IsNested
<1>3. TypeInv'
  BY CallNestedType, Zenon DEF PlainInv
<1>4. ~IsPlain(call') /\ TextOK(call')
  BY <1>2, Zenon DEF IsPlain, TextOK
<1> QED BY <1>3, <1>4, Zenon DEF PlainInv

LEMMA StrTextPlain ==
    ASSUME PlainInv, StrText
    PROVE  PlainInv'
<1> DEFINE text == Text(Replace(ToJSON(holds)))
<1>1. /\ UNCHANGED <<gap, indent, rep, call>> /\ stack # <<>> /\ frame.todo # <<>>
      /\ stack' = Returned(text, stack, gap)
  BY Zenon DEF StrText, Trying
<1>2. TypeInv'
  BY StrTextType, Zenon DEF PlainInv
<1>3. TextOK(call')
  BY <1>1, Zenon DEF PlainInv
<1>4. ASSUME IsPlain(call) PROVE PlainAt(call)'
  <2>1. /\ indent = call.space /\ rep = call.replacer /\ call.space \in Nat
        /\ gap = call.space * (Len(stack) - 1)
        /\ PlainStack(stack, call.space, call.replacer) /\ Waits(stack)
    BY <1>1, <1>4, PlainRunning, Zenon DEF Waits
  <2>2. Fits(text, Len(stack) - 1, call.space, call.replacer)
    BY TextWhole, Zenon DEF Fits
  <2> HIDE DEF text
  <2>3. PlainStack(stack', call.space, call.replacer) /\ Len(stack') = Len(stack)
    BY <1>1, <2>1, <2>2, PlainReturn, Zenon
  <2> QED BY <1>1, <2>1, <2>3, Zenon DEF PlainAt
<1> QED BY <1>1, <1>2, <1>3, <1>4, Zenon DEF PlainInv

LEMMA OneMore ==
    ASSUME NEW n \in Nat \ {0}, NEW space \in Nat
    PROVE  space * (n - 1) + space = space * ((n + 1) - 1)
<1>1. PICK m \in Nat : n = m + 1
  OBVIOUS
<1>2. space * m + space = space * (m + 1)
  OBVIOUS
<1>3. n - 1 = m /\ (n + 1) - 1 = m + 1
  BY <1>1
<1> QED BY <1>2, <1>3

LEMMA StrPartsPlain ==
    ASSUME PlainInv, StrParts
    PROVE  PlainInv'
<1> DEFINE f == Loop(holds)
<1>1. /\ UNCHANGED <<indent, rep, call>> /\ gap' = gap + indent /\ frame.todo # <<>>
      /\ stack' = <<f>> \o stack /\ stack # <<>>
  BY Zenon DEF StrParts, Trying
<1>2. TypeInv' /\ TypeInv
  BY StrPartsType, Zenon DEF PlainInv
<1>3. TextOK(call')
  BY <1>1, Zenon DEF PlainInv
<1>4. ASSUME IsPlain(call) PROVE PlainAt(call)'
  <2>1. /\ indent = call.space /\ rep = call.replacer /\ call.space \in Nat
        /\ gap = call.space * (Len(stack) - 1)
        /\ PlainStack(stack, call.space, call.replacer) /\ Waits(stack)
        /\ IsSeq(stack) /\ Len(stack) \in Nat \ {0}
    BY <1>1, <1>4, PlainRunning, Zenon DEF Waits
  <2>2. LoopPushed(f, holds) /\ KeysAreSeq(rep)
    BY <1>2, Running, LoopFrame, ListOfKeys, Zenon
  <2> HIDE DEF f
  <2> DEFINE n == Len(stack)
  <2>3. n \in Nat /\ n # 0
    BY <2>1
  <2>4. PlainFrame(f, Len(stack), call.space, call.replacer)
    BY <2>1, <2>2, <2>3, LoopPlain, Zenon
  <2>5. PlainStack(stack', call.space, call.replacer)
    BY <1>1, <2>1, <2>4, PlainPush, Zenon
  <2>6. Len(stack') = Len(stack) + 1
    BY <1>1, <2>1, Pushed, Zenon
  <2>7. gap' = call.space * (Len(stack') - 1)
    <3>1. gap' = call.space * (Len(stack) - 1) + call.space
      BY <1>1, <2>1, Zenon
    <3> QED BY <2>1, <2>6, <3>1, OneMore, Zenon
  <2> QED BY <1>1, <2>1, <2>5, <2>7, Zenon DEF PlainAt
<1> QED BY <1>1, <1>2, <1>3, <1>4, Zenon DEF PlainInv

LEMMA StrReturnsPlain ==
    ASSUME PlainInv, StrReturns
    PROVE  PlainInv'
<1>1. /\ UNCHANGED <<indent, rep, call>> /\ gap' = frame.mind /\ stack # <<>>
      /\ stack' = Returned(Wrap(frame, gap), Tail(stack), frame.mind)
      /\ frame.open \in {"[", "{"}
  BY Zenon DEF StrReturns, Ended
<1>2. TypeInv' /\ TypeInv
  BY StrReturnsType, Zenon DEF PlainInv
<1>3. TextOK(call')
  BY <1>1, Zenon DEF PlainInv
<1>4. IsLoop(frame)
  BY <1>1, Zenon DEF IsLoop
<1>5. Tail(stack) # <<>>
  BY <1>1, <1>2, <1>4, Running, StackedPop, Zenon
<1>6. ASSUME IsPlain(call) PROVE PlainAt(call)'
  <2> DEFINE depth == Len(stack) - 1
  <2>1. /\ indent = call.space /\ rep = call.replacer /\ call.space \in Nat
        /\ gap = call.space * depth /\ frame = stack[1]
        /\ PlainStack(stack, call.space, call.replacer)
        /\ PlainFrame(frame, depth, call.space, call.replacer)
        /\ IsSeq(stack) /\ Len(stack) \in Nat \ {0}
    BY <1>1, <1>6, PlainRunning, Zenon
  <2>2. depth \in Nat /\ Len(Tail(stack)) = depth
    <3>1. Len(Tail(stack)) = Len(stack) - 1
      BY <1>1, <2>1, Behind, Zenon
    <3> QED BY <2>1, <3>1
  <2>3. frame.mind = call.space * (depth - 1)
    BY <1>4, <2>1, Zenon DEF PlainFrame
  <2> HIDE DEF depth
  <2> DEFINE text == Wrap(frame, gap)
  <2>4. Fits(text, depth - 1, call.space, call.replacer)
    BY <1>4, <2>1, <2>2, WrapFits, Zenon
  <2>5. PlainStack(Tail(stack), call.space, call.replacer) /\ Waits(Tail(stack))
    BY <1>1, <2>1, PlainPop, Zenon
  <2>6. Fits(text, Len(Tail(stack)) - 1, call.space, call.replacer)
    BY <2>2, <2>4, Zenon
  <2>7. PlainStack(stack', call.space, call.replacer) /\ Len(stack') = Len(Tail(stack))
    <3> DEFINE u == Returned(text, Tail(stack), frame.mind)
    <3>1. stack' = u
      BY <1>1
    <3> HIDE DEF text
    <3>2. PlainStack(u, call.space, call.replacer) /\ Len(u) = Len(Tail(stack))
      BY <1>5, <2>1, <2>5, <2>6, PlainReturn, Zenon
    <3> HIDE DEF u
    <3> QED BY <3>1, <3>2, Zenon
  <2>8. gap' = call.space * (Len(stack') - 1)
    BY <1>1, <2>2, <2>3, <2>7, Zenon
  <2> QED BY <1>1, <2>1, <2>7, <2>8, Zenon DEF PlainAt
<1> QED BY <1>1, <1>2, <1>3, <1>6, Zenon DEF PlainInv

(* A call that is not nested has no other below it.                        *)
LEMMA OnlyRoot ==
    ASSUME PlainInv, IsPlain(call), stack # <<>>, frame.open = "call"
    PROVE  Len(stack) = 1 /\ IsRoot(frame)
<1>1. /\ PlainFrame(frame, Len(stack) - 1, call.space, call.replacer)
      /\ Len(stack) \in Nat \ {0}
  BY PlainRunning, Zenon
<1>2. IsRoot(frame)
  BY Zenon DEF IsRoot
<1>3. Len(stack) - 1 = 0
  BY <1>1, <1>2, Zenon DEF PlainFrame
<1> QED BY <1>1, <1>2, <1>3

LEMMA NestedReturnsPlain ==
    ASSUME PlainInv, NestedReturns
    PROVE  PlainInv'
<1>1. /\ UNCHANGED <<gap, indent, rep, call>> /\ stack # <<>> /\ Tail(stack) # <<>>
      /\ frame.open = "call"
  BY DEF NestedReturns, Ended
<1>2. TypeInv' /\ TypeInv
  BY NestedReturnsType, Zenon DEF PlainInv
<1>3. TextOK(call')
  BY <1>1, Zenon DEF PlainInv
<1>4. ~IsPlain(call)
  <2> SUFFICES ASSUME IsPlain(call) PROVE FALSE
    OBVIOUS
  <2>1. Len(stack) = 1
    BY <1>1, OnlyRoot, Zenon
  <2>2. IsSeq(stack)
    BY <1>1, PlainRunning, Zenon
  <2> QED BY <1>1, <2>1, <2>2, Behind, Zenon
<1> QED BY <1>1, <1>2, <1>3, <1>4, Zenon DEF PlainInv

LEMMA StringifyReturnsPlain ==
    ASSUME PlainInv, StringifyReturns
    PROVE  PlainInv'
<1>1. /\ stack # <<>> /\ frame.open = "call" /\ frame.todo = <<>>
      /\ call' = [call EXCEPT !.state = "done", !.text = frame.partial[1]]
  BY DEF StringifyReturns, Ended
<1>2. TypeInv' /\ TypeInv
  BY StringifyReturnsType, Zenon DEF PlainInv
<1>3. GoneOn(call', call, "done", frame.partial[1])
  BY <1>1, <1>2, Running, CallDone, Zenon
<1>4. /\ call'.state = "done" /\ call'.replacer = call.replacer /\ call'.space = call.space
      /\ call'.nested = call.nested /\ call'.text = frame.partial[1]
  BY <1>3, Zenon DEF GoneOn
<1>5. call.state = "running"
  BY <1>1, <1>2, Running, Zenon
<1>6. ~IsPlain(call')
  <2>1. "done" # "running"
    OBVIOUS
  <2> QED BY <1>4, <2>1, Zenon DEF IsPlain
<1>7. TextOK(call')
  <2> SUFFICES ASSUME ~call'.nested
               PROVE  Fits(call'.text, 0, call'.space, call'.replacer)
    BY Zenon DEF TextOK
  <2>1. IsPlain(call)
    BY <1>4, <1>5, Zenon DEF IsPlain
  <2>2. Len(stack) = 1 /\ IsRoot(frame)
    BY <1>1, <2>1, OnlyRoot, Zenon
  <2>3. PlainFrame(frame, Len(stack) - 1, call.space, call.replacer)
    BY <1>1, <2>1, PlainRunning, Zenon
  <2>4. Len(stack) - 1 = 0
    BY <2>2
  <2>5. /\ AllParts(frame, frame.partial, 0, call.space, call.replacer)
        /\ frame.partial # <<>> /\ IsSeq(frame.partial)
    BY <1>1, <2>2, <2>3, <2>4, Zenon DEF PlainFrame, AllParts
  <2>6. 1 \in 1 .. Len(frame.partial)
    <3>1. Len(frame.partial) \in Nat \ {0}
      BY <2>5, Behind, Zenon
    <3> QED BY <3>1
  <2>7. IsPart(frame, frame.partial[1], 0, call.space, call.replacer)
    BY <2>5, <2>6, Zenon DEF AllParts
  <2>8. Fits(frame.partial[1], 0, call.space, call.replacer)
    BY <2>7, Zenon DEF IsPart, Fits
  <2> QED BY <1>4, <2>8, Zenon
<1> QED BY <1>2, <1>6, <1>7, Zenon DEF PlainInv

LEMMA PlainInit == TextInit => PlainInv
<1>1. ASSUME TextInit PROVE call.state = "none"
  BY <1>1 DEF TextInit, NoCall
<1>2. ASSUME TextInit PROVE ~IsPlain(call) /\ TextOK(call)
  BY <1>1, <1>2, NotRunning
<1> QED BY <1>2, TypeInit, Zenon DEF PlainInv

LEMMA PlainStep ==
    ASSUME PlainInv, [TextNext]_textVars
    PROVE  PlainInv'
<1>1. CASE UNCHANGED textVars
  <2>1. /\ gap' = gap /\ indent' = indent /\ rep' = rep /\ stack' = stack /\ call' = call
    BY <1>1 DEF textVars
  <2>2. TypeInv'
    BY TypeStep, Zenon DEF PlainInv
  <2> QED BY <2>1, <2>2, Zenon DEF PlainInv, PlainAt
<1>2. CASE TextNext
  BY <1>2, StringifyPlain, RefusedPlain, RaisePlain, CallNestedPlain, StrTextPlain, StrPartsPlain,
     StrReturnsPlain, NestedReturnsPlain, StringifyReturnsPlain, ForgetPlain, Zenon DEF TextNext
<1> QED BY <1>1, <1>2

LEMMA PlainCorrect == TextSpec => []PlainInv
<1>1. PlainInv /\ [TextNext]_textVars => PlainInv'
  BY PlainStep
<1> QED BY <1>1, PlainInit, PTL DEF TextSpec

(* No text is laid out and selects anything.                               *)
LEMMA NoText ==
    ASSUME NEW base, NEW space, NEW keys
    PROVE  LaidOut(<<>>, base, space) /\ Selected(<<>>, keys)
<1>1. DOMAIN <<>> = {}
  OBVIOUS
<1> QED BY <1>1, Zenon DEF LaidOut, Selected

(* The text of a call is laid out, for any values, replacers and spaces.   *)
THEOREM LaidOutTexts == TextSpec => []Layout
<1>1. PlainInv => Layout
  BY NoText, Zenon DEF PlainInv, TextOK, Fits, Whole, Balanced, Piece, Layout
<1> QED BY <1>1, PlainCorrect, PTL

(* A list of keys selects the members of all objects, at any depth.        *)
THEOREM SelectedTexts == TextSpec => []SelectsKeys
<1>1. PlainInv => SelectsKeys
  BY NoText, Zenon DEF PlainInv, TextOK, Fits, Whole, Balanced, Piece, SelectsKeys
<1> QED BY <1>1, PlainCorrect, PTL
=============================================================================
