-------------------------- MODULE EventSourceProofs -------------------------
(***************************************************************************)
(* Proofs about module EventSource: its types, what is alive when, that    *)
(* the page sees an EventStream, and that it is told every event once, for *)
(* every number of connections and every text the server may send.         *)
(***************************************************************************)
EXTENDS EventSource, SequenceFacts

(***************************************************************************)
(* Reading lines, for texts of every length.                               *)
(***************************************************************************)

(***************************************************************************)
(* Types                                                                   *)
(***************************************************************************)

(* A blank line leaves a reader.                                           *)
LEMMA DispatchTyped ==
    ASSUME NEW r \in Readers
    PROVE  DispatchBuffer(r) \in Readers
<1>1. /\ r.data \in Seq(Data) /\ r.name \in Names /\ r.id \in Ids
      /\ r.lastEventId \in Ids /\ r.retry \in Delays /\ r.events \in Seq(Events)
  BY DEF Readers
<1>2. "" \in Names
  BY ValuesAssumption
<1>3. CASE r.data = <<>>
  <2>1. [r EXCEPT !.name = ""] \in Readers
    BY <1>2 DEF Readers
  <2> QED
    BY <1>3, <2>1 DEF DispatchBuffer
<1>4. CASE r.data # <<>>
  <2> DEFINE event == Event(TypeOf(r.name), r.id, r.data)
  <2>1. event \in Events
    BY <1>1 DEF Event, Events
  <2> HIDE DEF event
  <2>2. Append(r.events, event) \in Seq(Events)
    BY <1>1, <2>1
  <2>3. <<>> \in Seq(Data)
    OBVIOUS
  <2>4. [r EXCEPT !.lastEventId = r.id, !.events = Append(r.events, event),
                  !.data = <<>>, !.name = ""] \in Readers
    BY <1>1, <1>2, <2>2, <2>3 DEF Readers
  <2> QED
    BY <1>4, <2>4 DEF DispatchBuffer, event
<1> QED
  BY <1>3, <1>4

(* So does any line.                                                       *)
LEMMA LineTyped ==
    ASSUME NEW r \in Readers, NEW line \in Lines
    PROVE  ReadLine(r, line) \in Readers
<1>1. CASE line.field = "blank"
  BY <1>1, DispatchTyped DEF ReadLine
<1>2. CASE line.field = "event"
  <2>1. line.value \in Names
    BY <1>2 DEF Lines, Blank, Comment
  <2>2. [r EXCEPT !.name = line.value] \in Readers
    BY <2>1 DEF Readers
  <2> QED
    BY <1>2, <2>2 DEF ReadLine
<1>3. CASE line.field = "id"
  <2>1. line.value \in Ids
    BY <1>3 DEF Lines, Blank, Comment
  <2>2. [r EXCEPT !.id = line.value] \in Readers
    BY <2>1 DEF Readers
  <2> QED
    BY <1>3, <2>2 DEF ReadLine
<1>4. CASE line.field = "retry"
  <2>1. line.value \in Delays => [r EXCEPT !.retry = line.value] \in Readers
    BY DEF Readers
  <2> QED
    BY <1>4, <2>1 DEF ReadLine
<1>5. CASE line.field = "data"
  <2>1. line.value \in Data
    BY <1>5 DEF Lines, Blank, Comment
  <2>2. [r EXCEPT !.data = Append(r.data, line.value)] \in Readers
    BY <2>1 DEF Readers
  <2> QED
    BY <1>5, <2>2 DEF ReadLine
<1>6. CASE line.field = "comment"
  BY <1>6 DEF ReadLine
<1> QED
  BY <1>1, <1>2, <1>3, <1>4, <1>5, <1>6 DEF Lines, Blank, Comment
-----------------------------------------------------------------------------
(***************************************************************************)
(* The recursive function of ReadLines                                     *)
(***************************************************************************)

(* g[n] is the reader after n of the lines, as far as line k.              *)
IsAfter(g, k, r, lines) ==
    g = [n \in 0 .. k |-> IF n = 0 THEN r ELSE ReadLine(g[n - 1], lines[n])]

(* There is such a function for each k: one more line extends it.         *)
LEMMA AfterExists ==
    ASSUME NEW r, NEW lines
    PROVE  \A k \in Nat : \E g : IsAfter(g, k, r, lines)
<1> DEFINE T == {k \in Nat : \E g : IsAfter(g, k, r, lines)}
<1>1. 0 \in T
  <2>1. IsAfter([n \in 0 .. 0 |-> r], 0, r, lines)
    BY DEF IsAfter
  <2> QED
    BY <2>1
<1>2. ASSUME NEW k \in T PROVE k + 1 \in T
  <2>1. PICK g : IsAfter(g, k, r, lines)
    OBVIOUS
  <2> DEFINE h == [n \in 0 .. k + 1 |-> IF n = 0 THEN r ELSE ReadLine(g[n - 1], lines[n])]
  <2>2. \A n \in 0 .. k : h[n] = g[n]
    BY <2>1 DEF IsAfter
  <2>3. h = [n \in 0 .. k + 1 |-> IF n = 0 THEN r ELSE ReadLine(h[n - 1], lines[n])]
    <3>1. ASSUME NEW n \in 0 .. k + 1, n # 0 PROVE h[n - 1] = g[n - 1]
      BY <2>2, <3>1
    <3> QED
      BY <3>1
  <2>4. IsAfter(h, k + 1, r, lines)
    BY <2>3 DEF IsAfter
  <2> QED
    BY <2>4
<1> HIDE DEF T
<1>3. T = Nat
  <2>1. T \in SUBSET Nat
    BY DEF T
  <2> QED
    BY <1>1, <1>2, <2>1, Induction
<1> QED
  BY <1>3 DEF T

(* ReadLines is the value of one of them at the last line.                 *)
LEMMA ReadLinesIs ==
    ASSUME NEW r, NEW lines, Len(lines) \in Nat
    PROVE  \E g : IsAfter(g, Len(lines), r, lines) /\ ReadLines(r, lines) = g[Len(lines)]
<1> DEFINE after[n \in 0 .. Len(lines)] == IF n = 0 THEN r ELSE ReadLine(after[n - 1], lines[n])
<1>1. \E g : IsAfter(g, Len(lines), r, lines)
  BY AfterExists
<1>2. after = [n \in 0 .. Len(lines) |-> IF n = 0 THEN r ELSE ReadLine(after[n - 1], lines[n])]
  BY <1>1 DEF IsAfter
<1>3. ReadLines(r, lines) = after[Len(lines)]
  BY DEF ReadLines
<1> HIDE DEF after
<1> QED
  BY <1>2, <1>3 DEF IsAfter

(* Such a function, line by line.                                          *)
LEMMA AfterStep ==
    ASSUME NEW r, NEW lines, NEW k \in Nat, NEW g, IsAfter(g, k, r, lines)
    PROVE  /\ g[0] = r
           /\ \A n \in 1 .. k : g[n] = ReadLine(g[n - 1], lines[n])
BY DEF IsAfter

(* Without lines a reader stays as it is.                                  *)
LEMMA ReadNoLines ==
    ASSUME NEW r
    PROVE  ReadLines(r, <<>>) = r
<1>1. PICK g : IsAfter(g, 0, r, <<>>) /\ ReadLines(r, <<>>) = g[0]
  <2>1. Len(<<>>) = 0 /\ 0 \in Nat
    OBVIOUS
  <2> QED
    BY <2>1, ReadLinesIs
<1> QED
  BY <1>1 DEF IsAfter

(* ReadLinesTyped: whatever lines come, the buffer, the ids and the events *)
(* keep their types; every event has data, id and type of its kind.        *)
THEOREM ReadLinesTyped ==
    ASSUME NEW r \in Readers, NEW lines \in Seq(Lines)
    PROVE  ReadLines(r, lines) \in Readers
<1>1. Len(lines) \in Nat
  OBVIOUS
<1>2. PICK g : IsAfter(g, Len(lines), r, lines) /\ ReadLines(r, lines) = g[Len(lines)]
  BY <1>1, ReadLinesIs
<1>3. g[0] = r /\ \A n \in 1 .. Len(lines) : g[n] = ReadLine(g[n - 1], lines[n])
  BY <1>1, <1>2 DEF IsAfter
<1> DEFINE T == {n \in Nat : n <= Len(lines) => g[n] \in Readers}
<1>4. 0 \in T
  BY <1>3
<1>5. ASSUME NEW n \in T PROVE n + 1 \in T
  <2> SUFFICES ASSUME n + 1 <= Len(lines) PROVE g[n + 1] \in Readers
    OBVIOUS
  <2>1. g[n] \in Readers /\ n + 1 \in 1 .. Len(lines) /\ lines[n + 1] \in Lines
    BY <1>1
  <2>2. g[n + 1] = ReadLine(g[n], lines[n + 1])
    BY <1>3, <2>1
  <2> QED
    BY <2>1, <2>2, LineTyped
<1> HIDE DEF T
<1>6. T = Nat
  <2>1. T \in SUBSET Nat
    BY DEF T
  <2> QED
    BY <1>4, <1>5, <2>1, Induction
<1> QED
  BY <1>1, <1>2, <1>6 DEF T

(* ReadLinesInPieces: to read a text in two pieces, with the buffer kept   *)
(* between the callbacks, gives the same events, ids and buffer as to read *)
(* it at once; so it does in any number of pieces.                         *)
THEOREM ReadLinesInPieces ==
    ASSUME NEW r, NEW first \in Seq(Lines), NEW second \in Seq(Lines)
    PROVE  ReadLines(ReadLines(r, first), second) = ReadLines(r, first \o second)
<1> DEFINE k == Len(first)  m == Len(second)  all == first \o second
<1>1. k \in Nat /\ m \in Nat /\ all \in Seq(Lines) /\ Len(all) = k + m
  OBVIOUS
<1>2. (\A n \in 1 .. k : all[n] = first[n]) /\ (\A n \in 1 .. m : all[k + n] = second[n])
  OBVIOUS
<1> HIDE DEF all
<1>3. PICK f : IsAfter(f, k, r, first) /\ ReadLines(r, first) = f[k]
  BY <1>1, ReadLinesIs
<1>4. PICK s : IsAfter(s, m, f[k], second) /\ ReadLines(f[k], second) = s[m]
  BY <1>1, ReadLinesIs
<1>5. PICK g : IsAfter(g, k + m, r, all) /\ ReadLines(r, all) = g[k + m]
  BY <1>1, ReadLinesIs
<1>6. f[0] = r /\ \A n \in 1 .. k : f[n] = ReadLine(f[n - 1], first[n])
  BY <1>1, <1>3, AfterStep
<1>7. s[0] = f[k] /\ \A n \in 1 .. m : s[n] = ReadLine(s[n - 1], second[n])
  BY <1>1, <1>4, AfterStep
<1>8. g[0] = r /\ \A n \in 1 .. k + m : g[n] = ReadLine(g[n - 1], all[n])
  <2>1. k + m \in Nat
    BY <1>1
  <2> QED
    BY <1>5, <2>1, AfterStep
<1> DEFINE T == {n \in Nat : n <= k => g[n] = f[n]}
           U == {n \in Nat : n <= m => g[k + n] = s[n]}
<1>9. T = Nat
  <2>1. 0 \in T
    BY <1>6, <1>8
  <2>2. ASSUME NEW n \in T PROVE n + 1 \in T
    <3> SUFFICES ASSUME n + 1 <= k PROVE g[n + 1] = f[n + 1]
      OBVIOUS
    <3>1. g[n] = f[n] /\ n + 1 \in 1 .. k /\ n + 1 \in 1 .. k + m /\ (n + 1) - 1 = n
      BY <1>1
    <3>2. g[n + 1] = ReadLine(g[n], all[n + 1]) /\ f[n + 1] = ReadLine(f[n], first[n + 1])
      BY <1>6, <1>8, <3>1
    <3> QED
      BY <1>2, <3>1, <3>2
  <2>3. T \in SUBSET Nat
    OBVIOUS
  <2> HIDE DEF T
  <2> QED
    BY <2>1, <2>2, <2>3, Induction
<1>10. g[k] = f[k]
  BY <1>1, <1>9
<1>11. U = Nat
  <2>1. 0 \in U
    BY <1>1, <1>7, <1>10
  <2>2. ASSUME NEW n \in U PROVE n + 1 \in U
    <3> SUFFICES ASSUME n + 1 <= m PROVE g[k + (n + 1)] = s[n + 1]
      OBVIOUS
    <3>1. g[k + n] = s[n] /\ n + 1 \in 1 .. m /\ (n + 1) - 1 = n
      BY <1>1
    <3>2. k + (n + 1) \in 1 .. k + m /\ (k + (n + 1)) - 1 = k + n
      BY <1>1, <3>1
    <3>3. g[k + (n + 1)] = ReadLine(g[k + n], all[k + (n + 1)])
      BY <1>8, <3>2
    <3>4. s[n + 1] = ReadLine(s[n], second[n + 1])
      BY <1>7, <3>1
    <3>5. all[k + (n + 1)] = second[n + 1]
      BY <1>2, <3>1
    <3> QED
      BY <3>1, <3>3, <3>4, <3>5
  <2>3. U \in SUBSET Nat
    OBVIOUS
  <2> HIDE DEF U
  <2> QED
    BY <2>1, <2>2, <2>3, Induction
<1>12. g[k + m] = s[m]
  BY <1>1, <1>11
<1> QED
  BY <1>1, <1>3, <1>4, <1>5, <1>12 DEF all
-----------------------------------------------------------------------------
(***************************************************************************)
(* What the events of a text are, one line more at a time                  *)
(***************************************************************************)

LEMMA ReadOneMore ==
    ASSUME NEW r, NEW lines \in Seq(Lines), NEW line \in Lines
    PROVE  ReadLines(r, Append(lines, line)) = ReadLine(ReadLines(r, lines), line)
<1> DEFINE q == ReadLines(r, lines)  one == <<line>>
<1>1. one \in Seq(Lines) /\ Len(one) = 1 /\ one[1] = line /\ Append(lines, line) = lines \o one
  OBVIOUS
<1> HIDE DEF one
<1>2. ReadLines(q, one) = ReadLines(r, lines \o one)
  BY <1>1, ReadLinesInPieces
<1>3. PICK g : IsAfter(g, 1, q, one) /\ ReadLines(q, one) = g[1]
  <2>1. Len(one) \in Nat
    BY <1>1
  <2> HIDE DEF q
  <2> QED
    BY <1>1, <2>1, ReadLinesIs
<1>4. g[0] = q /\ g[1] = ReadLine(g[0], one[1])
  <2> HIDE DEF q
  <2>1. g[0] = q /\ \A n \in 1 .. 1 : g[n] = ReadLine(g[n - 1], one[n])
    BY <1>3, AfterStep
  <2>2. g[1] = ReadLine(g[1 - 1], one[1]) /\ 1 - 1 = 0
    BY <2>1
  <2> QED
    BY <2>1, <2>2
<1> QED
  BY <1>1, <1>2, <1>3, <1>4

(* The greatest of some numbers.                                           *)
LEMMA LastIs ==
    ASSUME NEW S \in SUBSET Nat, NEW n \in S, \A m \in S : m <= n
    PROVE  LastOf(S) = n
<1>1. \E x \in S : \A m \in S : m <= x
  OBVIOUS
<1>2. LastOf(S) \in S /\ \A m \in S : m <= LastOf(S)
  BY <1>1, Zenon DEF LastOf
<1>3. LastOf(S) <= n /\ n <= LastOf(S) /\ LastOf(S) \in Nat /\ n \in Nat
  BY <1>2
<1> QED
  BY <1>3

(* Some numbers up to b have a greatest.                                   *)
LEMMA LastExists ==
    ASSUME NEW b \in Nat, NEW S \in SUBSET (0 .. b), S # {}
    PROVE  LastOf(S) \in S /\ \A m \in S : m <= LastOf(S)
<1> DEFINE D == {b - m : m \in S}
<1>1. D \in SUBSET Nat /\ D # {}
  <2>1. ASSUME NEW m \in S PROVE b - m \in Nat
    OBVIOUS
  <2> QED
    BY <2>1, Zenon
<1>2. PICK x \in D : \A y \in D : x <= y
  BY <1>1, LeastNatural
<1>3. PICK n \in S : x = b - n
  BY <1>2
<1>4. \A m \in S : m <= n
  <2> SUFFICES ASSUME NEW m \in S PROVE m <= n
    OBVIOUS
  <2>1. b - n <= b - m /\ m \in Nat /\ n \in Nat
    BY <1>2, <1>3
  <2> QED
    BY <2>1
<1>5. S \in SUBSET Nat
  OBVIOUS
<1>6. LastOf(S) = n
  BY <1>4, <1>5, LastIs
<1> QED
  BY <1>4, <1>6

(* The line before which an event began is before it.                      *)
LEMMA BeforeBounds ==
    ASSUME NEW lines, NEW b \in Nat, b > 0
    PROVE  Before(lines, b) \in 0 .. b - 1
<1> DEFINE S == {0} \union Of(lines, "blank", 0, b - 1)
<1>1. b - 1 \in Nat /\ S \in SUBSET (0 .. b - 1) /\ S # {}
  BY DEF Of
<1> HIDE DEF S
<1>2. LastOf(S) \in S
  BY <1>1, LastExists
<1> QED
  BY <1>1, <1>2 DEF Before, S

(* What is said of lines a + 1 to b depends on these lines only.           *)
LEMMA SameLines ==
    ASSUME NEW lines, NEW more, NEW k \in Nat, \A n \in 1 .. k : more[n] = lines[n]
    PROVE  /\ \A f : \A a \in Nat, b \in 0 .. k : Of(more, f, a, b) = Of(lines, f, a, b)
           /\ \A b \in 1 .. k + 1 : Before(more, b) = Before(lines, b)
           /\ \A f, d : \A a \in Nat, b \in 0 .. k :
                 LastValue(more, f, a, b, d) = LastValue(lines, f, a, b, d)
<1>1. ASSUME NEW f, NEW a \in Nat, NEW b \in 0 .. k PROVE Of(more, f, a, b) = Of(lines, f, a, b)
  BY DEF Of
<1>2. ASSUME NEW b \in 1 .. k + 1 PROVE Before(more, b) = Before(lines, b)
  <2>1. b - 1 \in 0 .. k /\ 0 \in Nat
    OBVIOUS
  <2>2. Of(more, "blank", 0, b - 1) = Of(lines, "blank", 0, b - 1)
    BY <1>1, <2>1
  <2> QED
    BY <2>2 DEF Before
<1>3. ASSUME NEW f, NEW d, NEW a \in Nat, NEW b \in 0 .. k
      PROVE  LastValue(more, f, a, b, d) = LastValue(lines, f, a, b, d)
  <2> DEFINE S == Of(lines, f, a, b)
  <2>1. Of(more, f, a, b) = S
    BY <1>1
  <2>2. S \in SUBSET (0 .. b) /\ S \subseteq 1 .. k
    BY DEF Of
  <2> HIDE DEF S
  <2>3. CASE S = {}
    BY <2>1, <2>3 DEF LastValue, S
  <2>4. CASE S # {}
    <3>1. LastOf(S) \in 1 .. k
      <4>1. b \in Nat
        OBVIOUS
      <4>2. LastOf(S) \in S
        BY <2>2, <2>4, <4>1, LastExists
      <4> QED
        BY <2>2, <4>2
    <3> QED
      BY <2>1, <2>4, <3>1 DEF LastValue, S
  <2> QED
    BY <2>3, <2>4
<1> QED
  BY <1>1, <1>2, <1>3

(* Numbers in a set, with one more at the end.                             *)
LEMMA ListedTo ==
    ASSUME NEW S, NEW k \in Nat
    PROVE  /\ Listed(S, 0) = <<>>
           /\ Listed(S, k) \in Seq((1 .. k) \cap S)
           /\ Listed(S, k + 1) = AppendIf(Listed(S, k), k + 1, S)
           /\ \A T : (1 .. k) \cap S = (1 .. k) \cap T => Listed(S, k) = Listed(T, k)
           /\ (1 .. k) \cap S = {} => Listed(S, k) = <<>>
<1> DEFINE s == [n \in 1 .. k |-> n]
           t == [n \in 1 .. k + 1 |-> n]
<1>1. s \in Seq(1 .. k) /\ Len(s) = k
  OBVIOUS
<1>2. t = Append(s, k + 1) /\ s \in Seq(1 .. k + 1) /\ k + 1 \in 1 .. k + 1
  OBVIOUS
<1>3. [n \in 1 .. 0 |-> n] = <<>>
  OBVIOUS
<1> HIDE DEF s, t
<1>4. Among(t, S) = AppendIf(Among(s, S), k + 1, S)
  BY <1>2, AmongAppend
<1>5. \A T : (1 .. k) \cap S = (1 .. k) \cap T => Among(s, S) = Among(s, T)
  BY <1>1, AmongSame
<1>6. (1 .. k) \cap S = {} => Among(s, S) = <<>>
  BY <1>1, AmongNone
<1>7. Among(s, S) \in Seq((1 .. k) \cap S)
  BY <1>1, AmongType
<1>8. Listed(S, 0) = <<>>
  BY <1>3, AmongEmpty DEF Listed
<1> QED
  BY <1>4, <1>5, <1>6, <1>7, <1>8 DEF Listed, s, t

(* Which lines have a field, with one line more.                           *)
LEMMA OfAppend ==
    ASSUME NEW lines \in Seq(Lines), NEW line \in Lines, NEW f, NEW a \in 0 .. Len(lines)
    PROVE  LET k == Len(lines)
               more == Append(lines, line)
           IN  /\ Of(more, f, a, k + 1) = IF line.field = f THEN Of(lines, f, a, k) \union {k + 1}
                                                            ELSE Of(lines, f, a, k)
               /\ Of(lines, f, a, k) \subseteq 1 .. k
<1> DEFINE k == Len(lines)  more == Append(lines, line)
<1>1. k \in Nat /\ more[k + 1] = line /\ \A n \in 1 .. k : more[n] = lines[n]
  OBVIOUS
<1> HIDE DEF k, more
<1>2. a \in 0 .. k
  BY DEF k
<1>3. a + 1 .. k + 1 = (a + 1 .. k) \union {k + 1} /\ a + 1 .. k \subseteq 1 .. k
  BY <1>1, <1>2
<1>4. Of(lines, f, a, k) \subseteq 1 .. k
  BY <1>3 DEF Of
<1>5. Of(more, f, a, k + 1) = Of(lines, f, a, k) \union {n \in {k + 1} : more[n].field = f}
  BY <1>1, <1>3 DEF Of
<1>6. Of(more, f, a, k + 1) = IF line.field = f THEN Of(lines, f, a, k) \union {k + 1}
                                                ELSE Of(lines, f, a, k)
  BY <1>1, <1>5
<1> QED
  BY <1>4, <1>6 DEF k, more

(* The last value of a field, with one line more.                          *)
LEMMA LastValueAppend ==
    ASSUME NEW lines \in Seq(Lines), NEW line \in Lines, NEW f, NEW a \in 0 .. Len(lines), NEW d
    PROVE  LastValue(Append(lines, line), f, a, Len(lines) + 1, d)
               = IF line.field = f THEN line.value ELSE LastValue(lines, f, a, Len(lines), d)
<1> DEFINE k == Len(lines)  more == Append(lines, line)
           S == Of(lines, f, a, k)
<1>1. k \in Nat /\ more[k + 1] = line /\ \A n \in 1 .. k : more[n] = lines[n]
  OBVIOUS
<1>2. /\ Of(more, f, a, k + 1) = IF line.field = f THEN S \union {k + 1} ELSE S
      /\ S \subseteq 1 .. k
  BY OfAppend
<1> HIDE DEF k, more, S
<1>3. CASE line.field = f
  <2>1. S \union {k + 1} \in SUBSET Nat /\ k + 1 \in S \union {k + 1}
        /\ \A m \in S \union {k + 1} : m <= k + 1
    BY <1>1, <1>2
  <2>2. LastOf(S \union {k + 1}) = k + 1
    BY <2>1, LastIs
  <2>3. LastValue(more, f, a, k + 1, d) = line.value
    BY <1>1, <1>2, <1>3, <2>2 DEF LastValue
  <2> QED
    BY <1>3, <2>3 DEF k, more
<1>4. CASE line.field # f
  <2>1. CASE S = {}
    <3>1. LastValue(more, f, a, k + 1, d) = d /\ LastValue(lines, f, a, k, d) = d
      BY <1>2, <1>4, <2>1 DEF LastValue, S
    <3> QED
      BY <1>4, <3>1 DEF k, more
  <2>2. CASE S # {}
    <3>1. LastOf(S) \in S
      <4>1. S \in SUBSET (0 .. k)
        BY <1>1, <1>2
      <4> QED
        BY <1>1, <2>2, <4>1, LastExists
    <3>2. more[LastOf(S)] = lines[LastOf(S)]
      BY <1>1, <1>2, <3>1
    <3>3. LastValue(more, f, a, k + 1, d) = LastValue(lines, f, a, k, d)
      BY <1>2, <1>4, <2>2, <3>2 DEF LastValue, S
    <3> QED
      BY <1>4, <3>3 DEF k, more
  <2> QED
    BY <2>1, <2>2
<1> QED
  BY <1>3, <1>4

(* Where the event after the last line began, with one line more.          *)
LEMMA BeforeAppend ==
    ASSUME NEW lines \in Seq(Lines), NEW line \in Lines
    PROVE  Before(Append(lines, line), Len(lines) + 2)
               = IF line.field = "blank" THEN Len(lines) + 1 ELSE Before(lines, Len(lines) + 1)
<1> DEFINE k == Len(lines)  more == Append(lines, line)
           S == Of(lines, "blank", 0, k)
<1>1. k \in Nat /\ 0 \in 0 .. k /\ (k + 2) - 1 = k + 1 /\ (k + 1) - 1 = k
  OBVIOUS
<1>2. /\ Of(more, "blank", 0, k + 1) = IF line.field = "blank" THEN S \union {k + 1} ELSE S
      /\ S \subseteq 1 .. k
  BY <1>1, OfAppend
<1>3. Before(more, k + 2) = LastOf({0} \union Of(more, "blank", 0, k + 1))
      /\ Before(lines, k + 1) = LastOf({0} \union S)
  BY <1>1 DEF Before
<1> HIDE DEF k, more, S
<1>4. CASE line.field = "blank"
  <2> DEFINE N == {0} \union (S \union {k + 1})
  <2>1. N \in SUBSET Nat /\ k + 1 \in N /\ \A m \in N : m <= k + 1
    BY <1>1, <1>2
  <2>2. LastOf(N) = k + 1
    BY <2>1, LastIs
  <2> QED
    BY <1>2, <1>3, <1>4, <2>2 DEF k, more
<1>5. CASE line.field # "blank"
  BY <1>2, <1>3, <1>5 DEF k, more
<1> QED
  BY <1>4, <1>5

(* The data of the event after the last line, with one line more.          *)
LEMMA DataAppend ==
    ASSUME NEW lines \in Seq(Lines), NEW line \in Lines, NEW a \in 0 .. Len(lines)
    PROVE  /\ DataBetween(Append(lines, line), a, Len(lines) + 1)
                  = IF line.field = "data" THEN Append(DataBetween(lines, a, Len(lines)), line.value)
                                           ELSE DataBetween(lines, a, Len(lines))
           /\ DataBetween(Append(lines, line), Len(lines) + 1, Len(lines) + 1) = <<>>
<1> DEFINE k == Len(lines)  more == Append(lines, line)
           S == Of(lines, "data", a, k)
           T == Of(more, "data", a, k + 1)
           s == Listed(S, k)
           t == Listed(T, k + 1)
<1>1. k \in Nat /\ more[k + 1] = line /\ \A n \in 1 .. k : more[n] = lines[n]
  OBVIOUS
<1>2. T = (IF line.field = "data" THEN S \union {k + 1} ELSE S) /\ S \subseteq 1 .. k
  BY OfAppend
<1>3. /\ DataBetween(lines, a, k) = [n \in DOMAIN s |-> lines[s[n]].value]
      /\ DataBetween(more, a, k + 1) = [n \in DOMAIN t |-> more[t[n]].value]
  BY DEF DataBetween
<1>4. DataBetween(more, k + 1, k + 1) = <<>>
  <2>1. Of(more, "data", k + 1, k + 1) = {}
    BY <1>1 DEF Of
  <2>2. Listed({}, k + 1) = <<>>
    <3>1. k + 1 \in Nat
      BY <1>1
    <3> QED
      BY <3>1, ListedTo
  <2>3. DOMAIN <<>> = 1 .. 0 /\ 1 .. 0 = {}
    OBVIOUS
  <2> HIDE DEF more, k
  <2> DEFINE found == Listed({}, k + 1)
  <2>4. DataBetween(more, k + 1, k + 1) = [n \in DOMAIN found |-> more[found[n]].value]
    BY <2>1 DEF DataBetween
  <2>5. DOMAIN found = {}
    BY <2>2, <2>3
  <2> HIDE DEF found
  <2>6. [n \in DOMAIN found |-> more[found[n]].value] = <<>>
    BY <2>5
  <2> QED
    BY <2>4, <2>6
<1>5. s \in Seq(1 .. k)
  <2>1. s \in Seq((1 .. k) \cap S)
    BY <1>1, ListedTo
  <2> HIDE DEF s
  <2> QED
    BY <2>1
<1>6. t = IF line.field = "data" THEN Append(s, k + 1) ELSE s
  <2> HIDE DEF S, T, k
  <2>1. (1 .. k) \cap T = (1 .. k) \cap S /\ (k + 1 \in T <=> line.field = "data")
    BY <1>1, <1>2
  <2>2. Listed(T, k) = Listed(S, k)
    BY <1>1, <2>1, ListedTo
  <2>3. Listed(T, k + 1) = AppendIf(Listed(T, k), k + 1, T)
    BY <1>1, ListedTo
  <2> QED
    BY <2>1, <2>2, <2>3, Zenon DEF AppendIf
<1> HIDE DEF k, more, S, T, s, t
<1>7. \A n \in 1 .. Len(s) : s[n] \in 1 .. k /\ more[s[n]] = lines[s[n]]
  BY <1>1, <1>5
<1>8. CASE line.field = "data"
  <2> DEFINE u == [n \in DOMAIN s |-> lines[s[n]].value]
  <2>1. DOMAIN t = 1 .. Len(s) + 1 /\ Len(s) \in Nat /\ DOMAIN s = 1 .. Len(s)
        /\ t[Len(s) + 1] = k + 1 /\ \A n \in 1 .. Len(s) : t[n] = s[n]
    BY <1>1, <1>5, <1>6, <1>8
  <2>2. [n \in DOMAIN t |-> more[t[n]].value] = Append(u, line.value)
    <3>1. DOMAIN u = 1 .. Len(s) /\ Len(u) = Len(s) /\ \A n \in 1 .. Len(s) : u[n] = more[t[n]].value
      BY <1>7, <2>1
    <3>2. more[t[Len(s) + 1]].value = line.value
      BY <1>1, <2>1
    <3> HIDE DEF u
    <3>3. Append(u, line.value)
              = [n \in 1 .. Len(s) + 1 |-> IF n = Len(s) + 1 THEN line.value ELSE u[n]]
      BY <2>1, <3>1
    <3> QED
      BY <2>1, <3>1, <3>2, <3>3
  <2> QED
    BY <1>3, <1>4, <1>8, <2>2 DEF k, more
<1>9. CASE line.field # "data"
  <2>1. [n \in DOMAIN t |-> more[t[n]].value] = [n \in DOMAIN s |-> lines[s[n]].value]
    <3>1. t = s /\ DOMAIN s = 1 .. Len(s)
      BY <1>5, <1>6, <1>9
    <3> QED
      BY <1>7, <3>1
  <2> QED
    BY <1>3, <1>4, <1>9, <2>1 DEF k, more
<1> QED
  BY <1>8, <1>9

(* The ends of events, with one line more, and the events that end there   *)
(* before it.                                                              *)
LEMMA EndsAppend ==
    ASSUME NEW lines \in Seq(Lines), NEW line \in Lines
    PROVE  LET k == Len(lines)
               more == Append(lines, line)
               a == Before(lines, k + 1)
           IN  /\ Ends(lines) \in Seq(1 .. k)
               /\ Ends(more) = IF line.field = "blank" /\ Of(lines, "data", a, k) # {}
                               THEN Append(Ends(lines), k + 1) ELSE Ends(lines)
               /\ \A b \in 1 .. k : \A id : EventAt(more, b, id) = EventAt(lines, b, id)
               /\ a \in 0 .. k
<1> DEFINE k == Len(lines)  more == Append(lines, line)
           a == Before(lines, k + 1)
           S == {b \in 1 .. k : IsEnd(lines, b)}
           T == {b \in 1 .. k + 1 : IsEnd(more, b)}
<1>1. k \in Nat /\ more[k + 1] = line /\ Len(more) = k + 1 /\ \A n \in 1 .. k : more[n] = lines[n]
  OBVIOUS
<1>2. a \in 0 .. k
  <2>1. k + 1 \in Nat /\ k + 1 > 0 /\ (k + 1) - 1 = k
    OBVIOUS
  <2> QED
    BY <2>1, BeforeBounds
<1>3. /\ Of(more, "data", a, k + 1) = IF line.field = "data" THEN Of(lines, "data", a, k) \union {k + 1}
                                                             ELSE Of(lines, "data", a, k)
  BY <1>2, OfAppend
<1> HIDE DEF k, more, a
<1>4. /\ \A f : \A i \in Nat, b \in 0 .. k : Of(more, f, i, b) = Of(lines, f, i, b)
      /\ \A b \in 1 .. k + 1 : Before(more, b) = Before(lines, b)
      /\ \A f, d : \A i \in Nat, b \in 0 .. k :
            LastValue(more, f, i, b, d) = LastValue(lines, f, i, b, d)
  <2>1. k \in Nat /\ \A n \in 1 .. k : more[n] = lines[n]
    BY <1>1
  <2>2. ASSUME NEW f, NEW i \in Nat, NEW b \in 0 .. k
        PROVE  Of(more, f, i, b) = Of(lines, f, i, b)
    BY <2>1, SameLines
  <2>3. \A b \in 1 .. k + 1 : Before(more, b) = Before(lines, b)
    BY <2>1, SameLines, Zenon
  <2>4. ASSUME NEW f, NEW d, NEW i \in Nat, NEW b \in 0 .. k
        PROVE  LastValue(more, f, i, b, d) = LastValue(lines, f, i, b, d)
    BY <2>1, SameLines
  <2> QED
    BY <2>2, <2>3, <2>4
<1>5. \A b \in 1 .. k : Before(lines, b) \in Nat /\ Before(lines, b) \in 0 .. k
  <2> SUFFICES ASSUME NEW b \in 1 .. k PROVE Before(lines, b) \in 0 .. k
    BY <1>1
  <2>1. b \in Nat /\ b > 0
    BY <1>1
  <2>2. Before(lines, b) \in 0 .. b - 1
    BY <2>1, BeforeBounds
  <2> QED
    BY <1>1, <2>2
<1>6. ASSUME NEW b \in 1 .. k PROVE IsEnd(more, b) <=> IsEnd(lines, b)
  <2>1. b \in 0 .. k /\ b \in 1 .. k + 1
    BY <1>1
  <2>2. Before(more, b) = Before(lines, b)
    BY <1>4, <2>1
  <2>3. Of(more, "data", Before(lines, b), b) = Of(lines, "data", Before(lines, b), b)
    BY <1>4, <1>5, <2>1
  <2> QED
    BY <1>1, <2>2, <2>3 DEF IsEnd
<1>7. k + 1 \in T <=> line.field = "blank" /\ Of(lines, "data", a, k) # {}
  <2>1. k + 1 \in 1 .. k + 1
    BY <1>1
  <2>2. Before(more, k + 1) = a
    BY <1>4, <2>1 DEF a
  <2>3. IsEnd(more, k + 1) <=> line.field = "blank" /\ Of(lines, "data", a, k) # {}
    BY <1>1, <1>3, <2>2 DEF IsEnd
  <2> QED
    BY <2>1, <2>3
<1>8. (1 .. k) \cap T = (1 .. k) \cap S
  <2>1. \A b \in 1 .. k : b \in 1 .. k + 1
    BY <1>1
  <2> QED
    BY <1>6, <2>1
<1>9. Ends(lines) = Listed(S, k) /\ Ends(more) = Listed(T, k + 1)
  BY <1>1 DEF Ends, k
<1> HIDE DEF S, T
<1>10. Listed(T, k + 1) = AppendIf(Listed(S, k), k + 1, T)
  <2>1. Listed(T, k) = Listed(S, k)
    BY <1>1, <1>8, ListedTo
  <2>2. Listed(T, k + 1) = AppendIf(Listed(T, k), k + 1, T)
    BY <1>1, ListedTo
  <2> QED
    BY <2>1, <2>2
<1>11. Ends(more) = IF line.field = "blank" /\ Of(lines, "data", a, k) # {}
                    THEN Append(Ends(lines), k + 1) ELSE Ends(lines)
  BY <1>7, <1>9, <1>10, Zenon DEF AppendIf
<1>12. Ends(lines) \in Seq(1 .. k)
  <2> DEFINE s == Listed(S, k)
  <2>1. s \in Seq((1 .. k) \cap S)
    BY <1>1, ListedTo
  <2> HIDE DEF s
  <2>2. s \in Seq(1 .. k)
    <3>1. \A n \in 1 .. Len(s) : s[n] \in (1 .. k) \cap S
      BY <2>1
    <3>2. \A n \in 1 .. Len(s) : s[n] \in 1 .. k
      BY <3>1
    <3> QED
      BY <1>1, <2>1, <3>2
  <2> QED
    BY <1>9, <2>2 DEF s
<1>13. ASSUME NEW b \in 1 .. k, NEW id PROVE EventAt(more, b, id) = EventAt(lines, b, id)
  <2>1. b \in 0 .. k /\ b \in 1 .. k + 1 /\ 0 \in Nat /\ b \in Nat
    BY <1>1
  <2> DEFINE i == Before(lines, b)
  <2>2. Before(more, b) = i /\ i \in Nat
    BY <1>4, <1>5, <2>1
  <2> HIDE DEF i
  <2>3. /\ LastValue(more, "event", i, b, "") = LastValue(lines, "event", i, b, "")
        /\ LastValue(more, "id", 0, b, id) = LastValue(lines, "id", 0, b, id)
    BY <1>4, <2>1, <2>2
  <2>4. DataBetween(more, i, b) = DataBetween(lines, i, b)
    <3> DEFINE U == Of(lines, "data", i, b)
               s == Listed(U, b)
    <3>1. Of(more, "data", i, b) = U
      BY <1>4, <2>1, <2>2
    <3>2. s \in Seq((1 .. b) \cap U)
      BY <2>1, ListedTo
    <3>3. 1 .. b \subseteq 1 .. k
      BY <1>1
    <3> HIDE DEF s
    <3>4. \A n \in DOMAIN s : s[n] \in 1 .. k
      BY <3>2, <3>3
    <3>5. [n \in DOMAIN s |-> more[s[n]].value] = [n \in DOMAIN s |-> lines[s[n]].value]
      BY <1>1, <3>4
    <3> QED
      BY <3>1, <3>5 DEF DataBetween, s
  <2> QED
    BY <2>2, <2>3, <2>4 DEF EventAt, i
<1>14. \A b \in 1 .. k : \A id : EventAt(more, b, id) = EventAt(lines, b, id)
  BY <1>13
<1> QED
  BY <1>2, <1>11, <1>12, <1>14 DEF k, more, a

(* The events of a text, with one line more.                               *)
LEMMA EventsAppend ==
    ASSUME NEW lines \in Seq(Lines), NEW line \in Lines, NEW id
    PROVE  LET k == Len(lines)
               more == Append(lines, line)
               a == Before(lines, k + 1)
           IN  EventsOf(more, id) =
                   IF line.field = "blank" /\ Of(lines, "data", a, k) # {}
                   THEN Append(EventsOf(lines, id), EventAt(more, k + 1, id)) ELSE EventsOf(lines, id)
<1> DEFINE k == Len(lines)  more == Append(lines, line)
           a == Before(lines, k + 1)
           places == Ends(lines)
           old == [n \in DOMAIN places |-> EventAt(lines, places[n], id)]
<1>1. /\ places \in Seq(1 .. k)
      /\ Ends(more) = IF line.field = "blank" /\ Of(lines, "data", a, k) # {}
                      THEN Append(places, k + 1) ELSE places
      /\ \A b \in 1 .. k : EventAt(more, b, id) = EventAt(lines, b, id)
  BY EndsAppend
<1>2. k \in Nat
  OBVIOUS
<1>3. EventsOf(lines, id) = old /\ EventsOf(more, id) = [n \in DOMAIN Ends(more) |-> EventAt(more, Ends(more)[n], id)]
  BY DEF EventsOf
<1> HIDE DEF k, more, a, places
<1>4. DOMAIN places = 1 .. Len(places) /\ Len(places) \in Nat /\ \A n \in 1 .. Len(places) : places[n] \in 1 .. k
  BY <1>1, <1>2
<1>5. DOMAIN old = 1 .. Len(places) /\ Len(old) = Len(places)
      /\ \A n \in 1 .. Len(places) : old[n] = EventAt(more, places[n], id)
  BY <1>1, <1>4
<1>6. [n \in DOMAIN places |-> EventAt(more, places[n], id)] = old
  BY <1>4, <1>5
<1>7. CASE line.field = "blank" /\ Of(lines, "data", a, k) # {}
  <2> DEFINE t == Append(places, k + 1)
  <2>0. Ends(more) = t
    BY <1>1, <1>7
  <2>1. DOMAIN t = 1 .. Len(places) + 1 /\ t[Len(places) + 1] = k + 1
        /\ \A n \in 1 .. Len(places) : t[n] = places[n]
    BY <1>1, <1>2, <1>4
  <2> HIDE DEF t, old
  <2>2. Append(old, EventAt(more, k + 1, id))
            = [n \in 1 .. Len(places) + 1 |-> IF n = Len(places) + 1 THEN EventAt(more, k + 1, id) ELSE old[n]]
    BY <1>4, <1>5
  <2>3. [n \in DOMAIN t |-> EventAt(more, t[n], id)] = Append(old, EventAt(more, k + 1, id))
    BY <1>4, <1>5, <2>1, <2>2
  <2>4. EventsOf(more, id) = Append(EventsOf(lines, id), EventAt(more, k + 1, id))
    BY <1>3, <2>0, <2>3
  <2> QED
    BY <1>7, <2>4 DEF k, more, a
<1>8. CASE ~(line.field = "blank" /\ Of(lines, "data", a, k) # {})
  <2>1. Ends(more) = places
    BY <1>1, <1>8
  <2>2. EventsOf(more, id) = EventsOf(lines, id)
    BY <1>3, <1>6, <2>1
  <2> QED
    BY <1>8, <2>2 DEF k, more, a
<1> QED
  BY <1>7, <1>8

(* What a reader knows after the lines of a text that began with an id.    *)
IsRead(r, lines, id) ==
    LET k == Len(lines)
        a == Before(lines, k + 1)
    IN  /\ r.data = DataBetween(lines, a, k)
        /\ r.data = <<>> <=> Of(lines, "data", a, k) = {}
        /\ r.name = LastValue(lines, "event", a, k, "")
        /\ r.id = LastValue(lines, "id", 0, k, id)
        /\ r.events = EventsOf(lines, id)

LEMMA IsReadFurther ==
    ASSUME NEW lines \in Seq(Lines), NEW line \in Lines, NEW id,
           NEW r \in Readers, IsRead(r, lines, id)
    PROVE  IsRead(ReadLine(r, line), Append(lines, line), id)
<1> DEFINE k == Len(lines)  more == Append(lines, line)
           a == Before(lines, k + 1)
           q == ReadLine(r, line)
<1>1. k \in Nat /\ Len(more) = k + 1 /\ (k + 1) + 1 = k + 2 /\ 0 \in 0 .. k
  OBVIOUS
<1>2. a \in 0 .. k
  BY EndsAppend
<1>3. Before(more, k + 2) = IF line.field = "blank" THEN k + 1 ELSE a
  BY BeforeAppend
<1>4. /\ DataBetween(more, a, k + 1)
             = IF line.field = "data" THEN Append(DataBetween(lines, a, k), line.value)
                                      ELSE DataBetween(lines, a, k)
      /\ DataBetween(more, k + 1, k + 1) = <<>>
  BY <1>2, DataAppend
<1>5. /\ Of(more, "data", a, k + 1) = IF line.field = "data" THEN Of(lines, "data", a, k) \union {k + 1}
                                                             ELSE Of(lines, "data", a, k)
  BY <1>2, OfAppend
<1>6. \A f : Of(more, f, k + 1, k + 1) = {}
  BY <1>1 DEF Of
<1>7. ASSUME NEW d
      PROVE  LastValue(more, "event", a, k + 1, d)
                 = IF line.field = "event" THEN line.value ELSE LastValue(lines, "event", a, k, d)
  BY <1>2, LastValueAppend
<1>8. LastValue(more, "id", 0, k + 1, id)
          = IF line.field = "id" THEN line.value ELSE LastValue(lines, "id", 0, k, id)
  BY <1>1, LastValueAppend
<1>9. EventsOf(more, id) =
          IF line.field = "blank" /\ Of(lines, "data", a, k) # {}
          THEN Append(EventsOf(lines, id), EventAt(more, k + 1, id)) ELSE EventsOf(lines, id)
  BY EventsAppend
<1>10. /\ r.data = DataBetween(lines, a, k)
       /\ r.data = <<>> <=> Of(lines, "data", a, k) = {}
       /\ r.name = LastValue(lines, "event", a, k, "")
       /\ r.id = LastValue(lines, "id", 0, k, id)
       /\ r.events = EventsOf(lines, id)
  BY DEF IsRead
<1>11. /\ r.data \in Seq(Data) /\ r.name \in Names /\ r.id \in Ids
       /\ r.lastEventId \in Ids /\ r.retry \in Delays /\ r.events \in Seq(Events)
       /\ r = [data |-> r.data, name |-> r.name, id |-> r.id,
               lastEventId |-> r.lastEventId, retry |-> r.retry, events |-> r.events]
  BY DEF Readers
<1>12. Before(more, k + 1) = a
  <2>1. \A n \in 1 .. k : more[n] = lines[n]
    OBVIOUS
  <2>2. k + 1 \in 1 .. k + 1
    BY <1>1
  <2> HIDE DEF more, k
  <2> QED
    BY <1>1, <2>1, <2>2, SameLines DEF a
<1> HIDE DEF k, more, a
<1> SUFFICES /\ q.data = DataBetween(more, Before(more, k + 2), k + 1)
             /\ q.data = <<>> <=> Of(more, "data", Before(more, k + 2), k + 1) = {}
             /\ q.name = LastValue(more, "event", Before(more, k + 2), k + 1, "")
             /\ q.id = LastValue(more, "id", 0, k + 1, id)
             /\ q.events = EventsOf(more, id)
  BY <1>1, Zenon DEF IsRead, more
<1>13. CASE line.field = "blank"
  <2>1. /\ q = DispatchBuffer(r) /\ Before(more, k + 2) = k + 1
        /\ LastValue(more, "event", k + 1, k + 1, "") = ""
    BY <1>3, <1>6, <1>13 DEF ReadLine, LastValue
  <2>2. /\ DataBetween(more, a, k + 1) = r.data
        /\ LastValue(more, "event", a, k + 1, "") = r.name
        /\ LastValue(more, "id", 0, k + 1, id) = r.id
    BY <1>4, <1>7, <1>8, <1>10, <1>13
  <2>3. EventAt(more, k + 1, id) = Event(TypeOf(r.name), r.id, r.data)
    BY <1>12, <2>2 DEF EventAt
  <2>4. CASE r.data = <<>>
    <3>1. /\ q.data = <<>> /\ q.name = "" /\ q.id = r.id /\ q.events = r.events
      BY <1>11, <2>1, <2>4 DEF DispatchBuffer
    <3>2. EventsOf(more, id) = r.events
      BY <1>9, <1>10, <2>4
    <3> HIDE DEF q
    <3> QED
      BY <1>4, <1>6, <2>1, <2>2, <3>1, <3>2
  <2>5. CASE r.data # <<>>
    <3>1. /\ q.data = <<>> /\ q.name = "" /\ q.id = r.id
          /\ q.events = Append(r.events, Event(TypeOf(r.name), r.id, r.data))
      BY <1>11, <2>1, <2>5 DEF DispatchBuffer
    <3>2. EventsOf(more, id) = Append(r.events, Event(TypeOf(r.name), r.id, r.data))
      BY <1>9, <1>10, <1>13, <2>3, <2>5
    <3> HIDE DEF q
    <3> QED
      BY <1>4, <1>6, <2>1, <2>2, <3>1, <3>2
  <2> QED
    BY <2>4, <2>5
<1>14. CASE line.field # "blank"
  <2>1. Before(more, k + 2) = a /\ EventsOf(more, id) = r.events
    BY <1>3, <1>9, <1>10, <1>14
  <2>2. q.events = r.events
    BY <1>11, <1>14 DEF ReadLine
  <2>3. q.data = IF line.field = "data" THEN Append(r.data, line.value) ELSE r.data
    BY <1>11, <1>14 DEF ReadLine
  <2>4. q.name = IF line.field = "event" THEN line.value ELSE r.name
    BY <1>11, <1>14 DEF ReadLine
  <2>5. q.id = IF line.field = "id" THEN line.value ELSE r.id
    BY <1>11, <1>14 DEF ReadLine
  <2> HIDE DEF q
  <2>6. q.data = DataBetween(more, a, k + 1)
    BY <1>4, <1>10, <2>3
  <2>7. q.data = <<>> <=> Of(more, "data", a, k + 1) = {}
    <3>1. line.field = "data" => q.data # <<>>
      <4>1. line.field = "data" => Len(Append(r.data, line.value)) = Len(r.data) + 1
        <5>1. line.field = "data" => line.value \in Data
          BY DEF Lines, Blank, Comment
        <5> QED
          BY <1>11, <5>1
      <4>2. Len(r.data) + 1 # 0 /\ Len(<<>>) = 0
        BY <1>11
      <4> QED
        BY <2>3, <4>1, <4>2
    <3> QED
      BY <1>5, <1>10, <2>3, <3>1
  <2>8. q.name = LastValue(more, "event", a, k + 1, "")
    BY <1>7, <1>10, <2>4
  <2>9. q.id = LastValue(more, "id", 0, k + 1, id)
    BY <1>8, <1>10, <2>5
  <2> QED
    BY <2>1, <2>2, <2>6, <2>7, <2>8, <2>9
<1> QED
  BY <1>13, <1>14

(* A reader at the beginning of a text.                                    *)
IsNew(r) == r.data = <<>> /\ r.name = "" /\ r.events = <<>>

(* Nothing was read of a text without lines.                               *)
LEMMA NothingRead ==
    ASSUME NEW r, IsNew(r)
    PROVE  <<>> \in Seq(Lines) /\ IsRead(r, <<>>, r.id)
<1>1. Len(<<>>) = 0 /\ 0 + 1 .. 0 = {} /\ 0 + 1 = 1
  OBVIOUS
<1>2. ASSUME NEW f PROVE Of(<<>>, f, 0, 0) = {}
  BY <1>1 DEF Of
<1>3. Before(<<>>, 1) = 0
  <2>1. 1 \in Nat /\ 1 > 0 /\ \A n \in 0 .. 1 - 1 : n = 0
    OBVIOUS
  <2>2. Before(<<>>, 1) \in 0 .. 1 - 1
    BY <2>1, BeforeBounds
  <2> QED
    BY <2>1, <2>2
<1>4. \A S : Listed(S, 0) = <<>>
  BY ListedTo
<1>5. DOMAIN <<>> = {}
  OBVIOUS
<1>6. DataBetween(<<>>, 0, 0) = <<>>
  <2> DEFINE found == Listed({}, 0)
  <2>1. DOMAIN found = {}
    BY <1>4, <1>5, Zenon
  <2>2. DataBetween(<<>>, 0, 0) = [n \in DOMAIN found |-> <<>>[found[n]].value]
    BY <1>2 DEF DataBetween
  <2> HIDE DEF found
  <2>3. [n \in DOMAIN found |-> <<>>[found[n]].value] = <<>>
    BY <2>1
  <2> QED
    BY <2>2, <2>3
<1>7. EventsOf(<<>>, r.id) = <<>>
  <2> DEFINE places == Ends(<<>>)
  <2>1. places = <<>>
    BY <1>1, <1>4, Zenon DEF Ends
  <2>2. EventsOf(<<>>, r.id) = [n \in DOMAIN places |-> EventAt(<<>>, places[n], r.id)]
    BY DEF EventsOf
  <2> HIDE DEF places
  <2>3. DOMAIN places = {}
    BY <1>5, <2>1, Zenon
  <2>4. [n \in DOMAIN places |-> EventAt(<<>>, places[n], r.id)] = <<>>
    BY <2>3
  <2> QED
    BY <2>2, <2>4
<1>8. LastValue(<<>>, "event", 0, 0, "") = "" /\ LastValue(<<>>, "id", 0, 0, r.id) = r.id
  BY <1>2 DEF LastValue
<1>9. <<>> \in Seq(Lines)
  OBVIOUS
<1> QED
  BY <1>1, <1>2, <1>3, <1>6, <1>7, <1>8, <1>9 DEF IsRead, IsNew

(* ReadLinesIsRight: a reader that begins with an id finds the events of   *)
(* every text, which EventsOf says without a reader; and what it keeps for *)
(* the next lines is of the event that is not at its end yet.              *)
THEOREM ReadLinesIsRight ==
    ASSUME NEW r \in Readers, IsNew(r), NEW lines \in Seq(Lines)
    PROVE  /\ ReadLines(r, lines).events = EventsOf(lines, r.id)
           /\ IsRead(ReadLines(r, lines), lines, r.id)
<1> DEFINE T == {t \in Seq(Lines) : IsRead(ReadLines(r, t), t, r.id)}
<1>1. <<>> \in T
  <2>1. <<>> \in Seq(Lines) /\ IsRead(r, <<>>, r.id)
    BY NothingRead, Zenon
  <2>2. IsRead(ReadLines(r, <<>>), <<>>, r.id)
    BY <2>1, ReadNoLines
  <2> QED
    BY <2>1, <2>2, Zenon
<1>2. ASSUME NEW t \in T, NEW line \in Lines PROVE Append(t, line) \in T
  <2>1. t \in Seq(Lines) /\ IsRead(ReadLines(r, t), t, r.id) /\ Append(t, line) \in Seq(Lines)
    <3>1. t \in Seq(Lines) /\ IsRead(ReadLines(r, t), t, r.id)
      BY Zenon
    <3> QED
      BY <3>1
  <2>2. ReadLines(r, t) \in Readers
    BY <2>1, ReadLinesTyped
  <2>3. ReadLines(r, Append(t, line)) = ReadLine(ReadLines(r, t), line)
    BY <2>1, ReadOneMore
  <2> QED
    BY <2>1, <2>2, <2>3, IsReadFurther
<1>3. T \in SUBSET Seq(Lines)
  OBVIOUS
<1> HIDE DEF T
<1>4. T = Seq(Lines)
  BY <1>1, <1>2, <1>3, SequenceInduction
<1> QED
  BY <1>4 DEF T, IsRead

-----------------------------------------------------------------------------
(***************************************************************************)
(* The source                                                              *)
(***************************************************************************)

Tasks == [event : Events \union {Open, Error}, to : States \union {Same}]

-----------------------------------------------------------------------------
(***************************************************************************)
(* One callback                                                            *)
(***************************************************************************)

(* The lines to read are lines, of an open connection.                     *)
LEMMA NewLinesTyped ==
    ASSUME TypeOK, NEW c \in Connections, NEW state \in 2 .. 4
    PROVE  /\ NewLines(c, state) \in Seq(Lines)
           /\ ~IsOpened(c) => NewLines(c, state) = <<>>
           /\ ResponseText(c, state) \in Seq(Lines)
<1>1. c \in 1 .. Len(closures) /\ c \in 1 .. Len(texts)
  BY DEF TypeOK, Connections
<1>2. texts[c] \in Seq(Lines) /\ closures[c] \in Closures
  BY <1>1 DEF TypeOK
<1>3. closures[c].offset \in Nat
  BY <1>2 DEF Closures
<1>4. SubSeq(texts[c], closures[c].offset + 1, Len(texts[c])) \in Seq(Lines)
  BY <1>2, <1>3
<1>5. ResponseText(c, state) \in Seq(Lines)
  BY <1>2 DEF ResponseText
<1> QED
  BY <1>4, <1>5 DEF NewLines

(* The reader of a connection, before and after.                           *)
LEMMA ReadTyped ==
    ASSUME TypeOK, NEW c \in Connections, NEW state \in 2 .. 4
    PROVE  /\ ReadLines(Reader(closures[c]), NewLines(c, state)) \in Readers
           /\ ~IsOpened(c) => ReadLines(Reader(closures[c]), NewLines(c, state)).events = <<>>
<1>1. closures[c] \in Closures
  BY DEF TypeOK, Connections
<1>2. lastEventId \in Ids /\ retry \in Delays /\ <<>> \in Seq(Events)
  BY DEF TypeOK
<1>3. Reader(closures[c]) \in Readers
  BY <1>1, <1>2 DEF Reader, Readers, Closures
<1>4. NewLines(c, state) \in Seq(Lines) /\ (~IsOpened(c) => NewLines(c, state) = <<>>)
  BY NewLinesTyped
<1>5. Reader(closures[c]).events = <<>>
  BY DEF Reader
<1> HIDE DEF Reader
<1> QED
  BY <1>3, <1>4, <1>5, ReadLinesTyped, ReadNoLines

(* What a callback queues: perhaps Open, the events, perhaps Error.        *)
Opening(c) == IF IsOpened(c) /\ ~closures[c].opened THEN 1 ELSE 0

IsQueue(q, c, state, events) ==
    LET o == Opening(c)
        k == Len(events)
    IN  /\ q \in Seq(Tasks) /\ o \in {0, 1} /\ k \in Nat
        /\ Len(q) = o + k + (IF state = 4 THEN 1 ELSE 0)
        /\ o = 1 => q[1] = Task(Open, "OPEN")
        /\ \A n \in 1 .. k : q[o + n] = Task(events[n], Same)
        /\ state = 4 => q[o + k + 1] = Task(Error, IF IsOpened(c) THEN "CONNECTING" ELSE "CLOSED")

LEMMA QueuedIs ==
    ASSUME NEW c, NEW state, NEW events \in Seq(Events), closures[c].opened \in BOOLEAN
    PROVE  IsQueue(Queued(c, state, events), c, state, events)
<1> DEFINE o == Opening(c)
           k == Len(events)
           open == IF IsOpened(c) /\ ~closures[c].opened THEN <<Task(Open, "OPEN")>> ELSE <<>>
           middle == [n \in DOMAIN events |-> Task(events[n], Same)]
           error == IF state # 4 THEN <<>>
                    ELSE IF IsOpened(c) THEN <<Task(Error, "CONNECTING")>>
                    ELSE <<Task(Error, "CLOSED")>>
<1>1. /\ Task(Open, "OPEN") \in Tasks
      /\ Task(Error, "CONNECTING") \in Tasks /\ Task(Error, "CLOSED") \in Tasks
      /\ \A event \in Events : Task(event, Same) \in Tasks
  BY DEF Task, Tasks, States
<1>2. open \in Seq(Tasks) /\ Len(open) = o /\ o \in {0, 1}
      /\ (o = 1 => open[1] = Task(Open, "OPEN"))
  BY <1>1 DEF Opening
<1>3. middle \in Seq(Tasks) /\ Len(middle) = k /\ k \in Nat
      /\ \A n \in 1 .. k : middle[n] = Task(events[n], Same)
  BY <1>1
<1>4. error \in Seq(Tasks) /\ Len(error) = (IF state = 4 THEN 1 ELSE 0)
      /\ (state = 4 => error[1] = Task(Error, IF IsOpened(c) THEN "CONNECTING" ELSE "CLOSED"))
  BY <1>1
<1>5. Queued(c, state, events) = open \o middle \o error
  BY DEF Queued
<1> HIDE DEF open, middle, error, o, k
<1> DEFINE first == open \o middle
<1>6. /\ first \in Seq(Tasks) /\ Len(first) = o + k
      /\ \A n \in 1 .. o : first[n] = open[n]
      /\ \A n \in 1 .. k : first[o + n] = middle[n]
  <2>1. open \in Seq(Tasks) /\ middle \in Seq(Tasks)
    BY <1>2, <1>3
  <2>2. /\ first \in Seq(Tasks)
        /\ Len(first) = Len(open) + Len(middle)
        /\ \A n \in 1 .. Len(open) : first[n] = open[n]
        /\ \A n \in 1 .. Len(middle) : first[Len(open) + n] = middle[n]
    BY <2>1
  <2> QED
    BY <1>2, <1>3, <2>2
<1> HIDE DEF first
<1>7. /\ first \o error \in Seq(Tasks)
      /\ Len(first \o error) = Len(first) + Len(error)
      /\ \A n \in 1 .. Len(first) : (first \o error)[n] = first[n]
      /\ \A n \in 1 .. Len(error) : (first \o error)[Len(first) + n] = error[n]
  <2>1. first \in Seq(Tasks) /\ error \in Seq(Tasks)
    BY <1>4, <1>6
  <2> QED
    BY <2>1
<1>8. (\A n \in 1 .. k : o + n \in 1 .. o + k) /\ (o = 1 => 1 \in 1 .. o + k /\ 1 \in 1 .. o)
  BY <1>2, <1>3
<1> DEFINE q == first \o error
<1>9. /\ q \in Seq(Tasks) /\ Len(q) = o + k + (IF state = 4 THEN 1 ELSE 0)
      /\ o = 1 => q[1] = Task(Open, "OPEN")
      /\ \A n \in 1 .. k : q[o + n] = Task(events[n], Same)
  BY <1>2, <1>3, <1>4, <1>6, <1>7, <1>8
<1>10. state = 4 => q[o + k + 1] = error[1]
  BY <1>2, <1>3, <1>4, <1>6, <1>7
<1> QED
  BY <1>2, <1>3, <1>4, <1>5, <1>9, <1>10 DEF first, o, k, IsQueue

-----------------------------------------------------------------------------
(***************************************************************************)
(* Tasks that follow one another                                           *)
(***************************************************************************)

(* The readyState after the first n tasks of s; Same only follows OPEN.    *)
After(s, from, n) ==
    IF n = 0 THEN from ELSE IF s[n].to = Same THEN "OPEN" ELSE s[n].to

End(s, from) == After(s, from, Len(s))

(* A task that may run in readyState from.                                 *)
Legal(task, from) ==
    \/ task.to = "OPEN" /\ from = "CONNECTING" /\ task.event = Open
    \/ task.to = Same /\ from = "OPEN" /\ task.event \in Events
    \/ task.to = "CONNECTING" /\ from = "OPEN" /\ task.event = Error
    \/ task.to = "CLOSED" /\ from = "CONNECTING" /\ task.event = Error

Follows(s, from) == \A n \in 1 .. Len(s) : Legal(s[n], After(s, from, n - 1))

LEMMA ConcatFollows ==
    ASSUME NEW s \in Seq(Tasks), NEW t \in Seq(Tasks), NEW from,
           Follows(s, from), Follows(t, End(s, from))
    PROVE  Follows(s \o t, from) /\ End(s \o t, from) = End(t, End(s, from))
<1> DEFINE k == Len(s)  m == Len(t)  all == s \o t
<1>1. /\ k \in Nat /\ m \in Nat /\ Len(all) = k + m
      /\ \A n \in 1 .. k : all[n] = s[n]
      /\ \A n \in 1 .. m : all[k + n] = t[n]
  <2>1. k \in Nat /\ m \in Nat
    OBVIOUS
  <2>2. Len(all) = k + m
    OBVIOUS
  <2>3. \A n \in 1 .. k : all[n] = s[n]
    OBVIOUS
  <2>4. \A n \in 1 .. m : all[k + n] = t[n]
    OBVIOUS
  <2> QED
    BY <2>1, <2>2, <2>3, <2>4
<1> HIDE DEF all
<1>2. \A n \in 0 .. k : After(all, from, n) = After(s, from, n)
  BY <1>1 DEF After
<1>3. \A n \in 0 .. m : After(all, from, k + n) = After(t, End(s, from), n)
  <2>1. ASSUME NEW n \in 0 .. m, n = 0 PROVE After(all, from, k + n) = After(t, End(s, from), n)
    <3>1. After(all, from, k + 0) = After(s, from, k) /\ k + 0 = k
      BY <1>1, <1>2
    <3> QED
      BY <2>1, <3>1 DEF After, End
  <2>2. ASSUME NEW n \in 0 .. m, n # 0 PROVE After(all, from, k + n) = After(t, End(s, from), n)
    <3>1. n \in 1 .. m /\ k + n # 0 /\ all[k + n] = t[n]
      BY <1>1, <2>2
    <3> QED
      BY <2>2, <3>1 DEF After
  <2> QED
    BY <2>1, <2>2
<1>4. ASSUME NEW n \in 1 .. k + m PROVE Legal(all[n], After(all, from, n - 1))
  <2>1. CASE n <= k
    <3>1. n \in 1 .. k /\ n - 1 \in 0 .. k
      BY <1>1, <2>1
    <3>2. Legal(s[n], After(s, from, n - 1))
      BY <3>1 DEF Follows
    <3> QED
      BY <1>1, <1>2, <3>1, <3>2
  <2>2. CASE n > k
    <3> DEFINE j == n - k
    <3>1. j \in 1 .. m /\ j - 1 \in 0 .. m /\ n = k + j /\ n - 1 = k + (j - 1)
      BY <1>1, <2>2
    <3>2. Legal(t[j], After(t, End(s, from), j - 1))
      BY <3>1 DEF Follows
    <3>3. all[n] = t[j] /\ After(all, from, n - 1) = After(t, End(s, from), j - 1)
      BY <1>1, <1>3, <3>1
    <3> QED
      BY <3>2, <3>3
  <2> QED
    BY <1>1, <2>1, <2>2
<1>5. Follows(all, from)
  BY <1>1, <1>4 DEF Follows
<1>6. End(all, from) = End(t, End(s, from))
  <2>1. m \in 0 .. m
    BY <1>1
  <2>2. After(all, from, k + m) = After(t, End(s, from), m)
    BY <1>3, <2>1
  <2> QED
    BY <1>1, <2>2 DEF End
<1> QED
  BY <1>5, <1>6 DEF all

LEMMA TailFollows ==
    ASSUME NEW s \in Seq(Tasks), s # <<>>, NEW from, Follows(s, from)
    PROVE  /\ Legal(s[1], from)
           /\ Follows(Tail(s), After(s, from, 1))
           /\ End(Tail(s), After(s, from, 1)) = End(s, from)
<1> DEFINE k == Len(s)  rest == Tail(s)
<1>1. /\ k \in Nat /\ k # 0 /\ Len(rest) = k - 1
      /\ \A n \in 1 .. k - 1 : rest[n] = s[n + 1]
  OBVIOUS
<1> HIDE DEF rest
<1>2. Legal(s[1], from)
  <2>1. 1 \in 1 .. k /\ 1 - 1 = 0
    BY <1>1
  <2> QED
    BY <2>1 DEF Follows, After
<1>3. \A n \in 0 .. k - 1 : After(rest, After(s, from, 1), n) = After(s, from, n + 1)
  <2>1. ASSUME NEW n \in 0 .. k - 1, n # 0
        PROVE  After(rest, After(s, from, 1), n) = After(s, from, n + 1)
    <3>1. rest[n] = s[n + 1] /\ n + 1 # 0
      BY <1>1, <2>1
    <3> QED
      BY <2>1, <3>1 DEF After
  <2>2. ASSUME NEW n \in 0 .. k - 1, n = 0
        PROVE  After(rest, After(s, from, 1), n) = After(s, from, n + 1)
    BY <2>2 DEF After
  <2> QED
    BY <2>1, <2>2
<1>4. ASSUME NEW n \in 1 .. k - 1 PROVE Legal(rest[n], After(rest, After(s, from, 1), n - 1))
  <2>1. n + 1 \in 1 .. k /\ n - 1 \in 0 .. k - 1 /\ (n - 1) + 1 = n /\ (n + 1) - 1 = n
    BY <1>1
  <2>2. Legal(s[n + 1], After(s, from, n))
    BY <2>1 DEF Follows
  <2>3. After(rest, After(s, from, 1), n - 1) = After(s, from, n)
    BY <1>3, <2>1
  <2> QED
    BY <1>1, <2>2, <2>3
<1>5. Follows(rest, After(s, from, 1))
  BY <1>1, <1>4 DEF Follows
<1>6. End(rest, After(s, from, 1)) = End(s, from)
  <2>1. k - 1 \in 0 .. k - 1 /\ (k - 1) + 1 = k
    BY <1>1
  <2>2. After(rest, After(s, from, 1), k - 1) = After(s, from, k)
    BY <1>3, <2>1
  <2> QED
    BY <1>1, <2>2 DEF End
<1> QED
  BY <1>2, <1>5, <1>6 DEF rest

(* What a callback queues follows the state its connection is in.          *)
Standing(opened) == IF opened THEN "OPEN" ELSE "CONNECTING"

LEMMA QueuedFollows ==
    ASSUME NEW c, NEW state, NEW events \in Seq(Events), closures[c].opened \in BOOLEAN,
           ~IsOpened(c) => events = <<>>
    PROVE  LET q == Queued(c, state, events)
               from == Standing(closures[c].opened)
           IN  /\ q \in Seq(Tasks)
               /\ Follows(q, from)
               /\ state # 4 => End(q, from) = Standing(IsOpened(c))
               /\ state = 4 => End(q, from) = IF IsOpened(c) THEN "CONNECTING" ELSE "CLOSED"
<1> DEFINE q == Queued(c, state, events)
           from == Standing(closures[c].opened)
           o == Opening(c)
           k == Len(events)
           r == IF state = 4 THEN 1 ELSE 0
<1>1. /\ q \in Seq(Tasks) /\ o \in {0, 1} /\ k \in Nat
      /\ Len(q) = o + k + (IF state = 4 THEN 1 ELSE 0)
      /\ o = 1 => q[1] = Task(Open, "OPEN")
      /\ \A n \in 1 .. k : q[o + n] = Task(events[n], Same)
      /\ state = 4 => q[o + k + 1] = Task(Error, IF IsOpened(c) THEN "CONNECTING" ELSE "CLOSED")
  <2>1. IsQueue(q, c, state, events)
    BY QueuedIs
  <2> QED
    BY <2>1 DEF IsQueue
<1>2. /\ o = 1 => IsOpened(c) /\ from = "CONNECTING"
      /\ o = 0 /\ IsOpened(c) => from = "OPEN"
      /\ ~IsOpened(c) => from = "CONNECTING" /\ o = 0 /\ k = 0
  BY DEF Opening, Standing, IsOpened
<1>3. r \in {0, 1} /\ (r = 1 <=> state = 4) /\ Len(q) = o + k + r
  BY <1>1
<1>a. \A n \in 1 .. k : events[n] \in Events
  OBVIOUS
<1> HIDE DEF q, from, o, k, r
<1>4. \A n \in 0 .. o + k : After(q, from, n) = IF n = 0 THEN from ELSE "OPEN"
  <2>1. ASSUME NEW n \in 1 .. o + k PROVE After(q, from, n) = "OPEN"
    <3>1. CASE n = 1 /\ o = 1
      BY <1>1, <3>1 DEF After, Task, Same
    <3>2. CASE ~(n = 1 /\ o = 1)
      <4>1. n - o \in 1 .. k /\ o + (n - o) = n
        BY <1>1, <3>2
      <4>2. q[n] = Task(events[n - o], Same)
        BY <1>1, <4>1
      <4> QED
        BY <4>2, <1>1 DEF After, Task
    <3> QED
      BY <3>1, <3>2
  <2> QED
    BY <1>1, <2>1 DEF After
<1>5. IsOpened(c) => \A n \in 0 .. o + k : n >= o => After(q, from, n) = "OPEN"
  BY <1>1, <1>2, <1>4
<1>6. ASSUME NEW n \in 1 .. o + k + r PROVE Legal(q[n], After(q, from, n - 1))
  <2>1. CASE o = 1 /\ n = 1
    BY <1>1, <1>2, <2>1 DEF Legal, Task, After
  <2>2. CASE n - o \in 1 .. k
    <3>1. q[n] = Task(events[n - o], Same)
      <4>1. o + (n - o) = n
        BY <1>1
      <4> QED
        BY <1>1, <2>2, <4>1
    <3>2. IsOpened(c) /\ n - 1 \in 0 .. o + k /\ n - 1 >= o
      BY <1>1, <1>2, <2>2
    <3>3. After(q, from, n - 1) = "OPEN"
      BY <1>5, <3>2
    <3> QED
      BY <1>a, <2>2, <3>1, <3>3 DEF Legal, Task
  <2>3. CASE n = o + k + 1 /\ state = 4
    <3>1. n - 1 = o + k /\ o + k \in 0 .. o + k /\ o + k >= o
      BY <1>1, <2>3
    <3>2. CASE IsOpened(c)
      <4>1. After(q, from, n - 1) = "OPEN"
        BY <1>5, <3>1, <3>2
      <4> QED
        BY <1>1, <2>3, <3>2, <4>1 DEF Legal, Task
    <3>3. CASE ~IsOpened(c)
      <4>1. After(q, from, n - 1) = "CONNECTING"
        BY <1>2, <3>1, <3>3 DEF After
      <4> QED
        BY <1>1, <2>3, <3>3, <4>1 DEF Legal, Task
    <3> QED
      BY <3>2, <3>3
  <2> QED
    BY <1>1, <1>3, <2>1, <2>2, <2>3
<1>7. Follows(q, from)
  BY <1>3, <1>6 DEF Follows
<1>8. state # 4 => End(q, from) = Standing(IsOpened(c))
  <2> SUFFICES ASSUME state # 4 PROVE End(q, from) = Standing(IsOpened(c))
    OBVIOUS
  <2>1. Len(q) = o + k /\ o + k \in 0 .. o + k /\ o + k >= o
    BY <1>1, <1>3
  <2>2. CASE IsOpened(c)
    BY <1>5, <2>1, <2>2 DEF End, Standing
  <2>3. CASE ~IsOpened(c)
    BY <1>2, <2>1, <2>3 DEF End, Standing, After
  <2> QED
    BY <2>2, <2>3
<1>9. state = 4 => End(q, from) = IF IsOpened(c) THEN "CONNECTING" ELSE "CLOSED"
  <2> SUFFICES ASSUME state = 4 PROVE End(q, from) = IF IsOpened(c) THEN "CONNECTING" ELSE "CLOSED"
    OBVIOUS
  <2>1. Len(q) = o + k + 1 /\ o + k + 1 # 0
    BY <1>1, <1>3
  <2> QED
    BY <1>1, <2>1 DEF End, After, Task, Same
<1> QED
  BY <1>1, <1>7, <1>8, <1>9 DEF q, from

-----------------------------------------------------------------------------
(***************************************************************************)
(* The inductive invariant                                                 *)
(***************************************************************************)

(* What is alive, without what the check timer is for: Lifeline's first    *)
(* part, which the order of the tasks rests on.                            *)
OneLife ==
    /\ ~(xhr # None /\ reconnectTimeout)
    /\ checkTimeout # None => checkTimeout = xhr /\ closures[xhr].opened
    /\ readyState = "CLOSED" => xhr = None /\ ~reconnectTimeout
    /\ \/ readyState = "CLOSED" \/ xhr # None \/ reconnectTimeout
       \/ \E n \in DOMAIN tasks : tasks[n].to = "CLOSED"

(* A failure is still to be told only when nothing is alive any more.      *)
Failing == \A n \in 1 .. Len(tasks) : tasks[n].to = "CLOSED" => xhr = None /\ ~reconnectTimeout

(* The tasks follow one another, and lead to where the connection stands.  *)
InTurn ==
    readyState # "CLOSED" =>
        /\ Follows(tasks, readyState)
        /\ xhr # None => End(tasks, readyState) = Standing(closures[xhr].opened)
        /\ reconnectTimeout => End(tasks, readyState) = "CONNECTING"

IInv == TypeOK /\ OneLife /\ Failing /\ InTurn

LEMMA InitInv == Init => IInv
<1> SUFFICES ASSUME Init PROVE IInv
  OBVIOUS
<1>1. readyState = "CONNECTING" /\ lastEventId = "" /\ retry = 1000
  BY DEF Init
<1>2. xhr = 1 /\ checkTimeout = None
  BY DEF Init
<1>12. ~reconnectTimeout
  BY DEF Init
<1>3. tasks = <<>> /\ told = <<>>
  BY DEF Init
<1>4. closures \in Seq(Closures) /\ Len(closures) = 1 /\ closures[1].opened = FALSE
  <2>1. Closure("") \in Closures
    <3>1. "" \in Names /\ "" \in Ids
      BY ValuesAssumption
    <3>2. <<>> \in Seq(Data)
      OBVIOUS
    <3> QED
      BY <3>1, <3>2 DEF Closure, Closures
  <2>2. Closure("").opened = FALSE
    BY DEF Closure
  <2>3. closures = <<Closure("")>>
    BY DEF Init
  <2> DEFINE new == Closure("")
  <2>4. ASSUME NEW one \in Closures
        PROVE  <<one>> \in Seq(Closures) /\ Len(<<one>>) = 1 /\ <<one>>[1] = one
    OBVIOUS
  <2>5. new \in Closures /\ closures = <<new>>
    BY <2>1, <2>3
  <2> HIDE DEF new
  <2>6. closures \in Seq(Closures) /\ Len(closures) = 1 /\ closures[1] = new
    BY <2>4, <2>5
  <2> QED
    BY <2>2, <2>6 DEF new
<1>5. /\ answers \in Seq({"none", "event-stream", "other"}) /\ Len(answers) = 1
      /\ ends \in Seq({"not", "complete", "broken"}) /\ Len(ends) = 1
  <2>1. answers = <<"none">> /\ ends = <<"not">>
    BY DEF Init
  <2> QED
    BY <2>1
<1>6. texts \in Seq(Seq(Lines)) /\ Len(texts) = 1
  <2>1. <<>> \in Seq(Lines)
    OBVIOUS
  <2>2. texts = <<<<>>>>
    BY DEF Init
  <2> QED
    BY <2>1, <2>2
<1>7. TypeOK
  <2>1. tasks \in Seq([event : Events \union {Open, Error}, to : States \union {Same}])
    BY <1>3
  <2>2. told \in Seq(Events \union {Open, Error})
    BY <1>3
  <2>3. reconnectTimeout \in BOOLEAN
    BY DEF Init
  <2>4. lastEventId \in Ids /\ retry \in Delays
    BY <1>1, ValuesAssumption
  <2>5. xhr \in {None} \union Connections /\ checkTimeout \in {None} \union Connections
    BY <1>2, <1>4 DEF Connections
  <2>6. readyState \in States
    BY <1>1 DEF States
  <2> QED
    BY <1>4, <1>5, <1>6, <2>1, <2>2, <2>3, <2>4, <2>5, <2>6 DEF TypeOK
<1>8. OneLife
  <2>1. xhr # None /\ readyState # "CLOSED"
    <3>1. xhr # None
      BY <1>2 DEF None
    <3> QED
      BY <1>1, <3>1
  <2> QED
    BY <1>12, <1>2, <2>1 DEF OneLife
<1>9. Len(tasks) = 0
  BY <1>3
<1>10. Failing
  BY <1>9 DEF Failing
<1>11. InTurn
  <2>1. Follows(tasks, readyState)
    BY <1>9 DEF Follows
  <2>2. End(tasks, readyState) = "CONNECTING"
    BY <1>1, <1>9 DEF End, After
  <2>3. xhr # None => Standing(closures[xhr].opened) = "CONNECTING"
    BY <1>2, <1>4 DEF Standing
  <2> QED
    BY <1>12, <2>1, <2>2, <2>3 DEF InTurn
<1> QED
  BY <1>7, <1>8, <1>10, <1>11 DEF IInv

(* What a callback that looks at its request leaves: the types,            *)
LEMMA HandleTyped ==
    ASSUME TypeOK, NEW c \in Connections, NEW state \in 2 .. 4,
           NEW timer \in {None} \union Connections, Handle(c, state, timer)
    PROVE  TypeOK' /\ Len(closures') = Len(closures)
<1> DEFINE me == closures[c]
           read == ReadLines(Reader(me), NewLines(c, state))
           new == [offset |-> me.offset + Len(NewLines(c, state)),
                   charOffset |-> Len(ResponseText(c, state)),
                   opened |-> IsOpened(c), closed |-> state = 4,
                   data |-> read.data, name |-> read.name, id |-> read.id]
<1>1. /\ closures' = [closures EXCEPT ![c] = new]
      /\ lastEventId' = read.lastEventId /\ retry' = read.retry
      /\ tasks' = tasks \o Queued(c, state, read.events)
      /\ checkTimeout' = IF state = 4 THEN None
                         ELSE IF timer = None /\ state = 3 /\ IsOpened(c) THEN c ELSE timer
      /\ xhr' = IF state = 4 THEN None ELSE xhr
      /\ reconnectTimeout' = (reconnectTimeout \/ (state = 4 /\ IsOpened(c)))
      /\ UNCHANGED <<readyState, told, answers, texts, ends>>
  BY DEF Handle, requestVars
<1>2. read \in Readers
  BY ReadTyped
<1>3. me \in Closures /\ closures \in Seq(Closures)
  BY DEF TypeOK, Connections
<1>4. /\ read.data \in Seq(Data) /\ read.name \in Names /\ read.id \in Ids
      /\ read.lastEventId \in Ids /\ read.retry \in Delays /\ read.events \in Seq(Events)
  BY <1>2 DEF Readers
<1>5. /\ me.offset \in Nat /\ me.opened \in BOOLEAN
  BY <1>3 DEF Closures
<1>6. Len(NewLines(c, state)) \in Nat /\ Len(ResponseText(c, state)) \in Nat
  <2>1. NewLines(c, state) \in Seq(Lines) /\ ResponseText(c, state) \in Seq(Lines)
    BY NewLinesTyped
  <2> QED
    BY <2>1
<1>7. IsOpened(c) \in BOOLEAN /\ (state = 4) \in BOOLEAN
  BY DEF IsOpened
<1> HIDE DEF read
<1>8. new \in Closures
  BY <1>3, <1>4, <1>5, <1>6, <1>7, SMTT(30) DEF Closures
<1> HIDE DEF new
<1>9. closures' \in Seq(Closures) /\ Len(closures') = Len(closures)
  BY <1>1, <1>3, <1>8 DEF Connections
<1>10. tasks' \in Seq(Tasks)
  <2>1. Queued(c, state, read.events) \in Seq(Tasks)
    <3>1. IsQueue(Queued(c, state, read.events), c, state, read.events)
      BY <1>4, <1>5, QueuedIs
    <3> QED
      BY <3>1 DEF IsQueue
  <2>2. tasks \in Seq(Tasks)
    BY DEF TypeOK, Tasks
  <2> QED
    BY <1>1, <2>1, <2>2
<1>11. reconnectTimeout' \in BOOLEAN
  BY <1>1
<1>12. xhr' \in {None} \union Connections /\ checkTimeout' \in {None} \union Connections
  BY <1>1 DEF TypeOK
<1> QED
  BY <1>1, <1>4, <1>9, <1>10, <1>11, <1>12 DEF TypeOK, Connections, Tasks

(* and the rest of the invariant.                                          *)
LEMMA HandleInv ==
    ASSUME IInv, NEW c \in Connections, NEW state \in 2 .. 4, xhr = c,
           NEW timer \in {None, checkTimeout}, Handle(c, state, timer)
    PROVE  IInv'
<1> DEFINE me == closures[c]
           read == ReadLines(Reader(me), NewLines(c, state))
           q == Queued(c, state, read.events)
<1>1. /\ closures'[c].opened = IsOpened(c)
      /\ tasks' = tasks \o q
      /\ checkTimeout' = IF state = 4 THEN None
                         ELSE IF timer = None /\ state = 3 /\ IsOpened(c) THEN c ELSE timer
      /\ xhr' = IF state = 4 THEN None ELSE xhr
      /\ reconnectTimeout' = (reconnectTimeout \/ (state = 4 /\ IsOpened(c)))
      /\ UNCHANGED readyState
  <2>1. c \in 1 .. Len(closures) /\ closures \in Seq(Closures)
    BY DEF IInv, TypeOK, Connections
  <2> QED
    BY <2>1 DEF Handle
<1>2. TypeOK'
  <2>1. timer \in {None} \union Connections
    BY DEF IInv, TypeOK
  <2> QED
    BY <2>1, HandleTyped DEF IInv
<1>3. me.opened \in BOOLEAN /\ read.events \in Seq(Events) /\ (~IsOpened(c) => read.events = <<>>)
  <2>1. me \in Closures
    BY DEF IInv, TypeOK, Connections
  <2>2. read \in Readers /\ (~IsOpened(c) => read.events = <<>>)
    BY ReadTyped DEF IInv
  <2> QED
    BY <2>1, <2>2 DEF Closures, Readers
<1> HIDE DEF read
<1>4. /\ xhr # None /\ readyState # "CLOSED" /\ ~reconnectTimeout /\ c # None
      /\ timer # None => timer = c /\ me.opened
      /\ me.opened => IsOpened(c)
  <2>1. c # None
    BY DEF Connections, None
  <2> QED
    BY <2>1 DEF IInv, OneLife, IsOpened
<1>5. /\ q \in Seq(Tasks)
      /\ Follows(q, Standing(me.opened))
      /\ state # 4 => End(q, Standing(me.opened)) = Standing(IsOpened(c))
      /\ state = 4 => End(q, Standing(me.opened)) = IF IsOpened(c) THEN "CONNECTING" ELSE "CLOSED"
  BY <1>3, QueuedFollows
<1>6. /\ IsQueue(q, c, state, read.events)
  BY <1>3, QueuedIs
<1>7. tasks \in Seq(Tasks)
  BY DEF IInv, TypeOK, Tasks
<1>8. IsOpened(c) \in BOOLEAN
  BY DEF IsOpened
<1> HIDE DEF q, me
<1>9. OneLife'
  <2>1. ~(xhr' # None /\ reconnectTimeout')
    BY <1>1, <1>4
  <2>2. checkTimeout' # None => checkTimeout' = xhr' /\ closures'[xhr'].opened
    BY <1>1, <1>4
  <2>3. state = 4 /\ ~IsOpened(c) => \E n \in DOMAIN tasks' : tasks'[n].to = "CLOSED"
    <3> SUFFICES ASSUME state = 4, ~IsOpened(c)
                 PROVE  \E n \in DOMAIN tasks' : tasks'[n].to = "CLOSED"
      OBVIOUS
    <3>1. Len(q) \in Nat /\ Len(q) # 0 /\ q[Len(q)].to = "CLOSED"
      BY <1>6 DEF IsQueue, Task
    <3>2. Len(tasks) + Len(q) \in DOMAIN (tasks \o q)
          /\ (tasks \o q)[Len(tasks) + Len(q)] = q[Len(q)]
      BY <1>5, <1>7, <3>1
    <3> QED
      BY <1>1, <3>1, <3>2
  <2> QED
    BY <1>1, <1>4, <1>8, <2>1, <2>2, <2>3 DEF OneLife
<1>10. Failing'
  <2> SUFFICES ASSUME NEW n \in 1 .. Len(tasks'), tasks'[n].to = "CLOSED"
               PROVE  xhr' = None /\ ~reconnectTimeout'
    BY DEF Failing
  <2>1. CASE n <= Len(tasks)
    <3>1. n \in 1 .. Len(tasks) /\ tasks'[n] = tasks[n]
      BY <1>1, <1>5, <1>7, <2>1
    <3> QED
      BY <1>4, <3>1 DEF IInv, Failing
  <2>2. CASE ~(n <= Len(tasks))
    <3> DEFINE j == n - Len(tasks)
    <3>1. j \in 1 .. Len(q) /\ tasks'[n] = q[j]
      BY <1>1, <1>5, <1>7, <2>2
    <3>2. state = 4 /\ ~IsOpened(c)
      <4> DEFINE o == Opening(c)  k == Len(read.events)
      <4>1. /\ o \in {0, 1} /\ k \in Nat /\ Len(q) = o + k + (IF state = 4 THEN 1 ELSE 0)
            /\ o = 1 => q[1] = Task(Open, "OPEN")
            /\ \A m \in 1 .. k : q[o + m] = Task(read.events[m], Same)
            /\ state = 4 => q[o + k + 1] = Task(Error, IF IsOpened(c) THEN "CONNECTING" ELSE "CLOSED")
        BY <1>6 DEF IsQueue
      <4>2. q[j].to = "CLOSED"
        BY <3>1
      <4> HIDE DEF o, k, j
      <4>3. CASE j = 1 /\ o = 1
        BY <4>1, <4>2, <4>3 DEF Task
      <4>4. CASE j - o \in 1 .. k
        <5>1. o + (j - o) = j
          BY <3>1, <4>1
        <5>2. q[j] = Task(read.events[j - o], Same)
          BY <4>1, <4>4, <5>1
        <5> QED
          BY <4>2, <5>2 DEF Task, Same
      <4>5. CASE state = 4 /\ j = o + k + 1
        BY <4>1, <4>2, <4>5 DEF Task
      <4> QED
        BY <3>1, <4>1, <4>3, <4>4, <4>5
    <3> QED
      BY <1>1, <1>4, <3>2
  <2> QED
    BY <2>1, <2>2
<1>11. InTurn'
  <2>1. Follows(tasks, readyState) /\ End(tasks, readyState) = Standing(me.opened)
    BY <1>4 DEF IInv, InTurn, me
  <2>2. Follows(tasks', readyState) /\ End(tasks', readyState) = End(q, Standing(me.opened))
    BY <1>1, <1>5, <1>7, <2>1, ConcatFollows
  <2> QED
    BY <1>1, <1>4, <1>5, <1>8, <2>2 DEF InTurn
<1> QED
  BY <1>2, <1>9, <1>10, <1>11 DEF IInv

(* A new connection begins when none is left and nothing is queued.        *)
LEMMA ReconnectInv ==
    ASSUME IInv, Reconnect
    PROVE  IInv'
<1> DEFINE k == Len(closures)
           new == Closure(lastEventId)
<1>1. /\ reconnectTimeout /\ tasks = <<>>
      /\ reconnectTimeout' = FALSE
      /\ UNCHANGED <<readyState, lastEventId, retry, checkTimeout, tasks, told>>
  BY DEF Reconnect, OpenConnection
<1>2. /\ xhr' = k + 1 /\ closures' = Append(closures, new)
      /\ answers' = Append(answers, "none") /\ texts' = Append(texts, <<>>)
      /\ ends' = Append(ends, "not")
  BY DEF Reconnect, OpenConnection
<1>3. new \in Closures
  <2>1. <<>> \in Seq(Data)
    OBVIOUS
  <2>2. lastEventId \in Ids
    BY DEF IInv, TypeOK
  <2>3. "" \in Names
    BY ValuesAssumption
  <2>4. 0 \in Nat /\ FALSE \in BOOLEAN
    OBVIOUS
  <2> QED
    BY <2>1, <2>2, <2>3, <2>4 DEF Closure, Closures
<1>4. new.opened = FALSE
  BY DEF Closure
<1> HIDE DEF new
<1>5. closures \in Seq(Closures) /\ k \in Nat
  BY DEF IInv, TypeOK
<1>6. closures' \in Seq(Closures) /\ Len(closures') = k + 1 /\ closures'[k + 1] = new
  BY <1>2, <1>3, <1>5
<1>7. xhr = None /\ readyState # "CLOSED" /\ checkTimeout = None
  BY <1>1 DEF IInv, OneLife
<1>8. TypeOK'
  <2>1. answers' \in Seq({"none", "event-stream", "other"}) /\ Len(answers') = k + 1
    BY <1>2, <1>5 DEF IInv, TypeOK
  <2>2. ends' \in Seq({"not", "complete", "broken"}) /\ Len(ends') = k + 1
    BY <1>2, <1>5 DEF IInv, TypeOK
  <2>3. texts' \in Seq(Seq(Lines)) /\ Len(texts') = k + 1
    <3>1. <<>> \in Seq(Lines)
      OBVIOUS
    <3>2. texts \in Seq(Seq(Lines)) /\ Len(texts) = k
      BY DEF IInv, TypeOK
    <3> QED
      BY <1>2, <1>5, <3>1, <3>2
  <2>4. xhr' \in {None} \union Connections' /\ checkTimeout' \in {None} \union Connections'
    <3>1. xhr' \in Connections'
      BY <1>2, <1>5, <1>6 DEF Connections
    <3>2. checkTimeout' = None
      BY <1>1, <1>7
    <3> QED
      BY <3>1, <3>2
  <2>5. reconnectTimeout' \in BOOLEAN
    BY <1>1
  <2>6. /\ readyState' \in States /\ lastEventId' \in Ids /\ retry' \in Delays
        /\ tasks' \in Seq([event : Events \union {Open, Error}, to : States \union {Same}])
        /\ told' \in Seq(Events \union {Open, Error})
    BY <1>1 DEF IInv, TypeOK
  <2>7. None' = None
    BY DEF None
  <2> QED
    BY <1>6, <2>1, <2>2, <2>3, <2>4, <2>5, <2>6, <2>7 DEF TypeOK
<1>9. xhr' # None
  BY <1>2, <1>5 DEF None
<1>10. OneLife'
  BY <1>1, <1>7, <1>9 DEF OneLife
<1>11. Len(tasks') = 0
  BY <1>1
<1>12. Failing'
  BY <1>11 DEF Failing
<1>13. InTurn'
  <2>1. End(tasks, readyState) = "CONNECTING" /\ Follows(tasks, readyState)
    BY <1>1, <1>7 DEF IInv, InTurn
  <2>2. closures'[xhr'].opened = FALSE
    BY <1>2, <1>4, <1>6
  <2>3. End(tasks', readyState') = "CONNECTING" /\ Follows(tasks', readyState')
    BY <1>1, <2>1
  <2> QED
    BY <1>1, <2>2, <2>3 DEF InTurn, Standing
<1> QED
  BY <1>8, <1>10, <1>12, <1>13 DEF IInv

(* The oldest task is legal, and the others follow it.                     *)
LEMMA RunTaskInv ==
    ASSUME IInv, RunTask
    PROVE  IInv'
<1> DEFINE task == tasks[1]
<1>1. /\ tasks \in Seq(Tasks) /\ tasks # <<>> /\ tasks' = Tail(tasks)
      /\ UNCHANGED <<lastEventId, retry, xhr, reconnectTimeout, checkTimeout, closures,
                     answers, texts, ends>>
  BY DEF IInv, TypeOK, Tasks, RunTask, requestVars
<1>2. IF readyState = "CLOSED" THEN UNCHANGED <<readyState, told>>
      ELSE /\ readyState' = IF task.to = Same THEN readyState ELSE task.to
           /\ told' = Append(told, task.event)
  <2>1. Head(tasks) = task
    BY <1>1
  <2> QED
    BY <2>1 DEF RunTask
<1>3. /\ Len(tasks) \in Nat /\ Len(tasks') = Len(tasks) - 1 /\ 1 \in 1 .. Len(tasks)
      /\ \A n \in 1 .. Len(tasks') : tasks'[n] = tasks[n + 1] /\ n + 1 \in 1 .. Len(tasks)
      /\ \A n \in 1 .. Len(tasks) : n # 1 => n - 1 \in 1 .. Len(tasks') /\ tasks'[n - 1] = tasks[n]
      /\ DOMAIN tasks = 1 .. Len(tasks) /\ DOMAIN tasks' = 1 .. Len(tasks')
  BY <1>1
<1>4. task \in Tasks
  BY <1>1, <1>3
<1>5. TypeOK'
  <2>1. tasks' \in Seq(Tasks)
    BY <1>1
  <2>2. task.to \in States \union {Same} /\ task.event \in Events \union {Open, Error}
    BY <1>4 DEF Tasks
  <2>3. readyState' \in States
    BY <1>2, <2>2 DEF IInv, TypeOK
  <2>4. told' \in Seq(Events \union {Open, Error})
    <3> DEFINE Told == Events \union {Open, Error}
    <3>1. told \in Seq(Told) /\ task.event \in Told
      BY <2>2 DEF IInv, TypeOK
    <3> HIDE DEF Told, task
    <3>2. told' = told \/ told' = Append(told, task.event)
      BY <1>2
    <3>3. told' \in Seq(Told)
      BY <3>1, <3>2
    <3> QED
      BY <3>3 DEF Told
  <2>5. Connections' = Connections
    BY <1>1 DEF Connections
  <2> QED
    BY <1>1, <2>1, <2>3, <2>4, <2>5 DEF IInv, TypeOK, Tasks
<1> HIDE DEF task
<1>6. readyState # "CLOSED" /\ readyState' = "CLOSED" => task.to = "CLOSED"
  BY <1>2
<1>7. task.to = "CLOSED" => xhr = None /\ ~reconnectTimeout
  BY <1>3 DEF IInv, Failing, task
<1>8. OneLife'
  <2>1. readyState' = "CLOSED" => xhr = None /\ ~reconnectTimeout
    BY <1>2, <1>6, <1>7 DEF IInv, OneLife
  <2>2. \/ readyState' = "CLOSED" \/ xhr # None \/ reconnectTimeout
        \/ \E n \in DOMAIN tasks' : tasks'[n].to = "CLOSED"
    <3> SUFFICES ASSUME readyState' # "CLOSED", xhr = None, ~reconnectTimeout
                 PROVE  \E n \in DOMAIN tasks' : tasks'[n].to = "CLOSED"
      OBVIOUS
    <3>1. readyState # "CLOSED" /\ task.to # "CLOSED"
      BY <1>2 DEF Same
    <3>2. PICK n \in 1 .. Len(tasks) : tasks[n].to = "CLOSED"
      BY <1>3, <3>1 DEF IInv, OneLife
    <3>3. n # 1
      BY <3>1, <3>2 DEF task
    <3> QED
      BY <1>3, <3>2, <3>3
  <2> QED
    BY <1>1, <2>1, <2>2 DEF IInv, OneLife
<1>9. Failing'
  BY <1>1, <1>3 DEF IInv, Failing
<1>10. InTurn'
  <2> SUFFICES ASSUME readyState' # "CLOSED" PROVE InTurn'
    BY DEF InTurn
  <2>1. readyState # "CLOSED" /\ Follows(tasks, readyState)
    BY <1>2 DEF IInv, InTurn
  <2>2. /\ Legal(task, readyState)
        /\ Follows(tasks', After(tasks, readyState, 1))
        /\ End(tasks', After(tasks, readyState, 1)) = End(tasks, readyState)
    BY <1>1, <2>1, TailFollows DEF task
  <2>3. After(tasks, readyState, 1) = readyState'
    <3>1. After(tasks, readyState, 1) = IF task.to = Same THEN "OPEN" ELSE task.to
      BY DEF After, task
    <3>2. task.to = Same => readyState = "OPEN"
      BY <2>2 DEF Legal, Same
    <3> QED
      BY <1>2, <2>1, <3>1, <3>2
  <2> QED
    BY <1>1, <2>1, <2>2, <2>3 DEF IInv, InTurn
<1> QED
  BY <1>5, <1>8, <1>9, <1>10 DEF IInv

(* close leaves nothing alive.                                             *)
LEMMA CloseInv ==
    ASSUME IInv, Close
    PROVE  IInv'
<1>1. /\ checkTimeout' = IF xhr = None THEN checkTimeout ELSE None
      /\ xhr' = None /\ reconnectTimeout' = FALSE /\ readyState' = "CLOSED"
      /\ UNCHANGED <<lastEventId, retry, closures, tasks, told, answers, texts, ends>>
  BY DEF Close, requestVars
<1>2. checkTimeout' = None
  BY <1>1 DEF IInv, OneLife
<1>3. TypeOK'
  <2>1. reconnectTimeout' \in BOOLEAN /\ readyState' \in States
    BY <1>1 DEF States
  <2>2. xhr' \in {None} \union Connections' /\ checkTimeout' \in {None} \union Connections'
    BY <1>1, <1>2
  <2> QED
    BY <1>1, <2>1, <2>2 DEF IInv, TypeOK, Connections, None
<1>4. OneLife' /\ Failing' /\ InTurn'
  BY <1>1, <1>2 DEF OneLife, Failing, InTurn
<1> QED
  BY <1>3, <1>4 DEF IInv

(* A check timer that finds its request over ends itself.                  *)
LEMMA CheckEndsInv ==
    ASSUME IInv, checkTimeout' = None,
           UNCHANGED <<readyState, lastEventId, retry, xhr, reconnectTimeout, closures,
                       tasks, told, requestVars>>
    PROVE  IInv'
<1>1. UNCHANGED <<readyState, lastEventId, retry, xhr, reconnectTimeout, closures,
                  tasks, told, answers, texts, ends>>
  BY DEF requestVars
<1>2. TypeOK'
  BY <1>1 DEF IInv, TypeOK, Connections, None
<1>3. OneLife' /\ Failing' /\ InTurn'
  BY <1>1 DEF IInv, OneLife, Failing, InTurn
<1> QED
  BY <1>2, <1>3 DEF IInv

(* The server and the network change only what they have sent.             *)
LEMMA RequestInv ==
    ASSUME IInv, UNCHANGED <<sourceVars, tasks, told>>,
           /\ answers' \in Seq({"none", "event-stream", "other"}) /\ Len(answers') = Len(answers)
           /\ texts' \in Seq(Seq(Lines)) /\ Len(texts') = Len(texts)
           /\ ends' \in Seq({"not", "complete", "broken"}) /\ Len(ends') = Len(ends)
    PROVE  IInv'
<1>1. UNCHANGED <<readyState, lastEventId, retry, xhr, reconnectTimeout, checkTimeout,
                  closures, tasks, told>>
  BY DEF sourceVars
<1>2. TypeOK'
  BY <1>1 DEF IInv, TypeOK, Connections, None
<1>3. OneLife' /\ Failing' /\ InTurn'
  BY <1>1 DEF IInv, OneLife, Failing, InTurn
<1> QED
  BY <1>2, <1>3 DEF IInv

(* One element of a sequence, exchanged.                                   *)
LEMMA Exchanged ==
    ASSUME NEW S, NEW s \in Seq(S), NEW n \in 1 .. Len(s), NEW x \in S
    PROVE  /\ [s EXCEPT ![n] = x] \in Seq(S)
           /\ Len([s EXCEPT ![n] = x]) = Len(s)
OBVIOUS

(* Who looks at a request looks at an own one: xhr, or a closed one.       *)
LEMMA CallbackInv ==
    ASSUME IInv, NEW c \in Connections, NEW state \in 2 .. 4, Callback(c, state)
    PROVE  IInv' /\ (UNCHANGED <<readyState, told>>)
<1>1. CASE closures[c].closed
  <2>1. UNCHANGED vars
    BY <1>1 DEF Callback, OnReadyStateChange
  <2>2. UNCHANGED <<sourceVars, tasks, told>> /\ UNCHANGED <<answers, texts, ends>>
    BY <2>1 DEF vars, requestVars
  <2>3. IInv'
    BY <2>2, RequestInv DEF IInv, TypeOK
  <2> QED
    BY <2>2, <2>3 DEF sourceVars
<1>2. CASE ~closures[c].closed
  <2>1. xhr = c /\ Handle(c, state, checkTimeout)
    BY <1>2 DEF Callback, OnReadyStateChange
  <2> QED
    BY <2>1, HandleInv DEF Handle
<1> QED
  BY <1>1, <1>2

LEMMA CheckTimerInv ==
    ASSUME IInv, CheckTimer
    PROVE  IInv' /\ (UNCHANGED <<readyState, told>>)
<1>1. checkTimeout # None /\ checkTimeout = xhr /\ checkTimeout \in Connections
  BY DEF CheckTimer, IInv, OneLife, TypeOK
<1>2. CASE InState(xhr, 3) /\ ~closures[checkTimeout].closed
  <2>1. Handle(checkTimeout, 3, None)
    BY <1>2 DEF CheckTimer, OnReadyStateChange
  <2>2. 3 \in 2 .. 4 /\ None \in {None, checkTimeout}
    OBVIOUS
  <2>3. IInv'
    BY <1>1, <2>1, <2>2, HandleInv
  <2> QED
    BY <2>1, <2>3 DEF Handle
<1>3. CASE InState(xhr, 3) /\ closures[checkTimeout].closed
  <2>1. UNCHANGED vars
    BY <1>3 DEF CheckTimer, OnReadyStateChange
  <2>2. UNCHANGED <<sourceVars, tasks, told>> /\ UNCHANGED <<answers, texts, ends>>
    BY <2>1 DEF vars, requestVars
  <2>3. IInv'
    BY <2>2, RequestInv DEF IInv, TypeOK
  <2> QED
    BY <2>2, <2>3 DEF sourceVars
<1>4. CASE ~InState(xhr, 3)
  BY <1>4, CheckEndsInv DEF CheckTimer
<1> QED
  BY <1>2, <1>3, <1>4

LEMMA ServerInv ==
    ASSUME IInv,
           \/ \E type \in {"event-stream", "other"} : Answer(type)
           \/ \E stream \in Streams : Receive(stream)
           \/ \E how \in {"complete", "broken"} : EndRequest(how)
    PROVE  IInv' /\ (UNCHANGED <<readyState, told>>)
<1>1. /\ answers \in Seq({"none", "event-stream", "other"}) /\ Len(answers) = Len(closures)
      /\ ends \in Seq({"not", "complete", "broken"}) /\ Len(ends) = Len(closures)
  BY DEF IInv, TypeOK
<1>2. texts \in Seq(Seq(Lines)) /\ Len(texts) = Len(closures)
  BY DEF IInv, TypeOK
<1>3. Alive => xhr \in 1 .. Len(closures)
  BY DEF Alive, IInv, TypeOK, Connections
<1>4. ASSUME NEW type \in {"event-stream", "other"}, Answer(type)
      PROVE  IInv' /\ (UNCHANGED <<readyState, told>>)
  <2>1. /\ answers' = [answers EXCEPT ![xhr] = type]
        /\ UNCHANGED <<sourceVars, tasks, told>> /\ UNCHANGED <<texts, ends>>
        /\ xhr \in 1 .. Len(closures)
    BY <1>3, <1>4 DEF Answer
  <2>2. answers' \in Seq({"none", "event-stream", "other"}) /\ Len(answers') = Len(answers)
    BY <1>1, <2>1
  <2>3. IInv'
    BY <1>1, <1>2, <2>1, <2>2, RequestInv
  <2> QED
    BY <2>1, <2>3 DEF sourceVars
<1>5. ASSUME NEW stream \in Streams, Receive(stream)
      PROVE  IInv' /\ (UNCHANGED <<readyState, told>>)
  <2> DEFINE more == Append(texts[xhr], stream[Len(texts[xhr]) + 1])
  <2>1. /\ texts' = [texts EXCEPT ![xhr] = more]
        /\ UNCHANGED <<sourceVars, tasks, told>> /\ UNCHANGED <<answers, ends>>
        /\ xhr \in 1 .. Len(closures)
        /\ Len(texts[xhr]) < Len(stream)
    BY <1>3, <1>5 DEF Receive
  <2>2. texts[xhr] \in Seq(Lines) /\ stream \in Seq(Lines)
    BY <1>2, <2>1, StreamsAssumption
  <2>3. more \in Seq(Lines)
    BY <2>1, <2>2
  <2> HIDE DEF more
  <2>4. texts' \in Seq(Seq(Lines)) /\ Len(texts') = Len(texts)
    BY <1>2, <2>1, <2>3, Exchanged
  <2>5. IInv'
    BY <1>1, <2>1, <2>4, RequestInv
  <2> QED
    BY <2>1, <2>5 DEF sourceVars
<1>6. ASSUME NEW how \in {"complete", "broken"}, EndRequest(how)
      PROVE  IInv' /\ (UNCHANGED <<readyState, told>>)
  <2>1. /\ ends' = [ends EXCEPT ![xhr] = how]
        /\ UNCHANGED <<sourceVars, tasks, told>> /\ UNCHANGED <<answers, texts>>
        /\ xhr \in 1 .. Len(closures)
    BY <1>3, <1>6 DEF EndRequest
  <2>2. ends' \in Seq({"not", "complete", "broken"}) /\ Len(ends') = Len(ends)
    BY <1>1, <2>1
  <2>3. IInv'
    BY <1>1, <1>2, <2>1, <2>2, RequestInv
  <2> QED
    BY <2>1, <2>3 DEF sourceVars
<1> QED
  BY <1>4, <1>5, <1>6

(* Every step keeps the invariant.                                         *)
LEMMA NextInv == IInv /\ [Next]_vars => IInv'
<1> SUFFICES ASSUME IInv, [Next]_vars PROVE IInv'
  OBVIOUS
<1>1. ASSUME NEW c \in Connections, NEW state \in 2 .. 4, Callback(c, state) PROVE IInv'
  BY <1>1, CallbackInv
<1>2. CASE CheckTimer
  BY <1>2, CheckTimerInv
<1>3. CASE Reconnect
  BY <1>3, ReconnectInv
<1>4. CASE RunTask
  BY <1>4, RunTaskInv
<1>5. CASE Close
  BY <1>5, CloseInv
<1>6. CASE \/ \E type \in {"event-stream", "other"} : Answer(type)
           \/ \E stream \in Streams : Receive(stream)
           \/ \E how \in {"complete", "broken"} : EndRequest(how)
  BY <1>6, ServerInv
<1>7. CASE UNCHANGED vars
  <2>1. UNCHANGED <<sourceVars, tasks, told>> /\ UNCHANGED <<answers, texts, ends>>
    BY <1>7 DEF vars, requestVars
  <2> QED
    BY <2>1, RequestInv DEF IInv, TypeOK
<1> QED
  BY <1>1, <1>2, <1>3, <1>4, <1>5, <1>6, <1>7 DEF Next

LEMMA AlwaysInv == Spec => []IInv
BY InitInv, NextInv, PTL DEF Spec

-----------------------------------------------------------------------------
(***************************************************************************)
(* The theorems                                                            *)
(***************************************************************************)

(* TypeCorrect: of every number of connections and every text, each        *)
(* variable of an EventSource keeps its type (eventsource.js 59-290).      *)
THEOREM TypeCorrect == Spec => []TypeOK
<1>1. IInv => TypeOK
  BY DEF IInv
<1> QED
  BY <1>1, AlwaysInv, PTL

(* What the request's connection has read and looked at: nothing is read   *)
(* before it is open; what was looked at before can only be of another     *)
(* type, and then it never opens; after that, offset keeps up.             *)
Looking ==
    xhr # None =>
        LET me == closures[xhr]
        IN  /\ ~me.closed
            /\ me.offset <= Len(texts[xhr])
            /\ ~me.opened => me.offset = 0 /\ (me.charOffset > 0 => answers[xhr] = "other")
            /\ me.opened => answers[xhr] = "event-stream" /\ me.charOffset <= me.offset
            /\ me.offset > 0 /\ ends[xhr] = "not" => checkTimeout = xhr

LEMMA InitLooking == Init => Looking
<1> SUFFICES ASSUME Init PROVE Looking
  OBVIOUS
<1>1. xhr = 1 /\ closures[1] = Closure("") /\ texts[1] = <<>>
  BY DEF Init
<1>2. /\ Closure("").offset = 0 /\ Closure("").charOffset = 0
      /\ Closure("").opened = FALSE /\ Closure("").closed = FALSE
  BY DEF Closure
<1>3. Len(<<>>) = 0
  OBVIOUS
<1> DEFINE me == closures[xhr]
<1>4. /\ me.offset = 0 /\ me.charOffset = 0 /\ me.opened = FALSE /\ me.closed = FALSE
      /\ Len(texts[xhr]) = 0
  BY <1>1, <1>2, <1>3, Zenon
<1> HIDE DEF me
<1>5. /\ ~me.closed /\ me.offset <= Len(texts[xhr])
      /\ ~me.opened => me.offset = 0 /\ (me.charOffset > 0 => answers[xhr] = "other")
      /\ me.opened => answers[xhr] = "event-stream" /\ me.charOffset <= me.offset
      /\ me.offset > 0 /\ ends[xhr] = "not" => checkTimeout = xhr
  BY <1>4
<1> QED
  BY <1>5, Zenon DEF Looking, me

(* A look at the request of an open connection reads what it can read.     *)
LEMMA HandleLooking ==
    ASSUME IInv, Looking, NEW c \in Connections, NEW state \in 2 .. 4, xhr = c,
           NEW timer \in {None, checkTimeout}, InState(c, state), Handle(c, state, timer)
    PROVE  Looking'
<1> SUFFICES ASSUME state # 4 PROVE Looking'
  BY DEF Handle, Looking
<1> DEFINE me == closures[c]
           read == ReadLines(Reader(me), NewLines(c, state))
           new == [offset |-> me.offset + Len(NewLines(c, state)),
                   charOffset |-> Len(ResponseText(c, state)),
                   opened |-> IsOpened(c), closed |-> state = 4,
                   data |-> read.data, name |-> read.name, id |-> read.id]
<1>1. /\ c \in 1 .. Len(closures) /\ closures \in Seq(Closures) /\ me \in Closures
      /\ c # None /\ texts[c] \in Seq(Lines)
  <2>1. c \in 1 .. Len(closures) /\ closures \in Seq(Closures)
    BY DEF IInv, TypeOK, Connections
  <2>2. texts \in Seq(Seq(Lines)) /\ Len(texts) = Len(closures)
    BY DEF IInv, TypeOK
  <2> QED
    BY <2>1, <2>2 DEF None
<1>2. /\ closures' = [closures EXCEPT ![c] = new]
      /\ checkTimeout' = IF timer = None /\ state = 3 /\ IsOpened(c) THEN c ELSE timer
      /\ xhr' = c /\ UNCHANGED <<answers, texts, ends>>
  BY DEF Handle, requestVars
<1> HIDE DEF read
<1>3. closures'[c] = new
  <2>1. c \in DOMAIN closures
    BY <1>1
  <2>2. closures' = [closures EXCEPT ![c] = new]
    BY <1>2, Zenon
  <2> HIDE DEF new
  <2> QED
    BY <2>1, <2>2, Zenon
<1>4. /\ me.offset \in Nat /\ me.charOffset \in Nat /\ me.opened \in BOOLEAN
      /\ Len(texts[c]) \in Nat
  BY <1>1 DEF Closures
<1>5. /\ me.offset <= Len(texts[c])
      /\ ~me.opened => me.offset = 0 /\ (me.charOffset > 0 => answers[c] = "other")
      /\ me.opened => answers[c] = "event-stream" /\ me.charOffset <= me.offset
  BY <1>1 DEF Looking
<1>6. /\ ends[c] = "not" /\ answers[c] # "none" /\ (state = 2 => texts[c] = <<>>)
      /\ state \in {2, 3}
  <2>1. CASE state = 2
    BY <2>1 DEF InState
  <2>2. CASE state = 3
    BY <2>2 DEF InState
  <2> QED
    BY <2>1, <2>2
<1>7. /\ IsOpened(c) <=> me.opened \/ answers[c] = "event-stream"
      /\ IsOpened(c) \in BOOLEAN
  BY <1>6 DEF IsOpened, ContentType
<1>8. ~IsOpened(c) => answers[c] = "other"
  <2>1. answers[c] \in {"none", "event-stream", "other"}
    BY <1>1 DEF IInv, TypeOK
  <2> QED
    BY <1>6, <1>7, <2>1
<1>9. Len(ResponseText(c, state)) = IF state = 3 THEN Len(texts[c]) ELSE 0
  BY <1>6 DEF ResponseText
<1>10. IsOpened(c) => me.charOffset <= me.offset
  BY <1>4, <1>5, <1>7
<1>11. Len(NewLines(c, state)) =
           IF IsOpened(c) /\ state = 3 /\ Len(texts[c]) > me.charOffset
           THEN Len(texts[c]) - me.offset ELSE 0
  <2> DEFINE t == texts[c]  n == me.offset
  <2>1. t \in Seq(Lines) /\ n \in 0 .. Len(t)
    BY <1>1, <1>4, <1>5
  <2> HIDE DEF t, n
  <2>2. Len(SubSeq(t, n + 1, Len(t))) = Len(t) - n
    BY <2>1
  <2>3. Len(ResponseText(c, state)) > me.charOffset <=> state = 3 /\ Len(t) > me.charOffset
    BY <1>4, <1>6, <1>9 DEF t
  <2> QED
    BY <2>2, <2>3 DEF t, n, NewLines
<1> HIDE DEF me
<1>12. /\ new.offset <= Len(texts[c])
       /\ ~IsOpened(c) => new.offset = 0
       /\ IsOpened(c) => new.charOffset <= new.offset
       /\ new.offset > 0 => state = 3 /\ IsOpened(c)
  <2>1. /\ new.offset = me.offset + Len(NewLines(c, state))
        /\ new.charOffset = IF state = 3 THEN Len(texts[c]) ELSE 0
    BY <1>9
  <2>2. state = 2 => Len(texts[c]) = 0
    BY <1>6
  <2> HIDE DEF new
  <2>3. CASE IsOpened(c) /\ state = 3 /\ Len(texts[c]) > me.charOffset
    BY <1>4, <1>5, <1>6, <1>11, <2>1, <2>3
  <2>4. CASE ~(IsOpened(c) /\ state = 3 /\ Len(texts[c]) > me.charOffset)
    BY <1>4, <1>5, <1>6, <1>7, <1>10, <1>11, <2>1, <2>2, <2>4
  <2> QED
    BY <2>3, <2>4
<1>13. new.opened = IsOpened(c) /\ ~new.closed
  OBVIOUS
<1>14. new.offset > 0 => checkTimeout' = c
  <2>1. timer # None => timer = c
    BY DEF IInv, OneLife
  <2> QED
    BY <1>2, <1>12, <2>1
<1> HIDE DEF new
<1>15. IsOpened(c) => answers[c] = "event-stream"
  BY <1>5, <1>7
<1> QED
  BY <1>2, <1>3, <1>8, <1>12, <1>13, <1>14, <1>15 DEF Looking

LEMMA LookingStep == IInv /\ Looking /\ [Next]_vars => Looking'
<1> SUFFICES ASSUME IInv, Looking, [Next]_vars PROVE Looking'
  OBVIOUS
<1>0. /\ xhr # None => xhr \in 1 .. Len(closures) /\ ~closures[xhr].closed
      /\ closures \in Seq(Closures) /\ Len(closures) \in Nat
      /\ Len(texts) = Len(closures) /\ Len(answers) = Len(closures) /\ Len(ends) = Len(closures)
      /\ texts \in Seq(Seq(Lines))
  BY DEF IInv, TypeOK, Connections, Looking
<1>1. ASSUME UNCHANGED <<xhr, closures, checkTimeout, answers, texts, ends>> PROVE Looking'
  BY <1>1 DEF Looking, None
<1>2. ASSUME NEW c \in Connections, NEW state \in 2 .. 4, Callback(c, state) PROVE Looking'
  <2>1. CASE closures[c].closed
    BY <1>1, <1>2, <2>1 DEF Callback, OnReadyStateChange, vars, sourceVars, requestVars
  <2>2. CASE ~closures[c].closed
    <3>1. xhr = c /\ InState(c, state) /\ Handle(c, state, checkTimeout)
      BY <1>2, <2>2 DEF Callback, OnReadyStateChange
    <3> QED
      BY <3>1, HandleLooking
  <2> QED
    BY <2>1, <2>2
<1>3. CASE CheckTimer
  <2>1. /\ checkTimeout # None /\ checkTimeout = xhr /\ checkTimeout \in Connections
        /\ closures[xhr].opened
    BY <1>3 DEF CheckTimer, IInv, OneLife, TypeOK
  <2>2. CASE InState(xhr, 3)
    <3>1. Handle(checkTimeout, 3, None)
      BY <1>0, <1>3, <2>1, <2>2 DEF CheckTimer, OnReadyStateChange
    <3>2. 3 \in 2 .. 4 /\ None \in {None, checkTimeout}
      OBVIOUS
    <3> QED
      BY <2>1, <2>2, <3>1, <3>2, HandleLooking
  <2>3. CASE ~InState(xhr, 3)
    <3>1. answers[xhr] = "event-stream" /\ ends[xhr] # "not"
      BY <2>1, <2>3 DEF InState, Looking
    <3>2. UNCHANGED <<xhr, closures, answers, texts, ends>>
      BY <1>3, <2>3 DEF CheckTimer, requestVars
    <3> QED
      BY <3>1, <3>2 DEF Looking, None
  <2> QED
    BY <2>2, <2>3
<1>4. CASE Reconnect
  <2> DEFINE k == Len(closures)  new == Closure(lastEventId)
  <2>1. /\ xhr' = k + 1 /\ closures' = Append(closures, new) /\ texts' = Append(texts, <<>>)
    BY <1>4 DEF Reconnect, OpenConnection
  <2>2. new.offset = 0 /\ new.charOffset = 0 /\ new.opened = FALSE /\ new.closed = FALSE
    BY DEF Closure
  <2> HIDE DEF new
  <2>3. closures'[k + 1] = new /\ texts'[k + 1] = <<>>
    BY <1>0, <2>1
  <2> QED
    BY <2>1, <2>2, <2>3 DEF Looking
<1>5. CASE RunTask
  BY <1>1, <1>5 DEF RunTask, requestVars
<1>6. CASE Close
  BY <1>6 DEF Close, Looking, None
<1>7. ASSUME NEW type \in {"event-stream", "other"}, Answer(type) PROVE Looking'
  <2>1. /\ xhr # None /\ answers[xhr] = "none" /\ answers' = [answers EXCEPT ![xhr] = type]
        /\ UNCHANGED <<xhr, closures, checkTimeout, texts, ends>>
    BY <1>7 DEF Answer, Alive, sourceVars
  <2>2. ~closures[xhr].opened /\ ~(closures[xhr].charOffset > 0)
    BY <2>1 DEF Looking
  <2> QED
    BY <2>1, <2>2 DEF Looking, None
<1>8. ASSUME NEW stream \in Streams, Receive(stream) PROVE Looking'
  <2> DEFINE more == Append(texts[xhr], stream[Len(texts[xhr]) + 1])
  <2>1. /\ xhr # None /\ texts' = [texts EXCEPT ![xhr] = more]
        /\ UNCHANGED <<xhr, closures, checkTimeout, answers, ends>>
        /\ Len(texts[xhr]) < Len(stream)
    BY <1>8 DEF Receive, Alive, sourceVars
  <2>2. Len(more) = Len(texts[xhr]) + 1
    <3>1. texts[xhr] \in Seq(Lines) /\ stream \in Seq(Lines)
      BY <1>0, <2>1, StreamsAssumption
    <3> QED
      BY <2>1, <3>1
  <2> HIDE DEF more
  <2>3. texts'[xhr] = more
    BY <1>0, <2>1
  <2>4. closures[xhr].offset \in Nat /\ Len(texts[xhr]) \in Nat
    <3>1. closures[xhr] \in Closures /\ texts[xhr] \in Seq(Lines)
      BY <1>0, <2>1
    <3> QED
      BY <3>1 DEF Closures
  <2>5. closures[xhr].offset <= Len(texts[xhr]) => closures[xhr].offset <= Len(more)
    BY <2>2, <2>4
  <2> QED
    BY <2>1, <2>3, <2>5 DEF Looking, None
<1>9. ASSUME NEW how \in {"complete", "broken"}, EndRequest(how) PROVE Looking'
  <2>1. /\ xhr # None /\ ends' = [ends EXCEPT ![xhr] = how]
        /\ UNCHANGED <<xhr, closures, checkTimeout, answers, texts>>
    BY <1>9 DEF EndRequest, Alive, sourceVars
  <2>2. ends'[xhr] # "not"
    BY <1>0, <1>9, <2>1 DEF IInv, TypeOK
  <2> QED
    BY <2>1, <2>2 DEF Looking, None
<1>10. CASE UNCHANGED vars
  BY <1>1, <1>10 DEF vars, sourceVars, requestVars
<1> QED
  BY <1>2, <1>3, <1>4, <1>5, <1>6, <1>7, <1>8, <1>9, <1>10 DEF Next

(* LifelineHolds: an EventSource that is not closed has a request, or the  *)
(* timer for the next one, or its failure queued; never two of them; after *)
(* close nothing; and lines that it has not read are found by the check    *)
(* timer, which a request that is read always has (stop, close,            *)
(* openConnection, onReadyStateChange).                                    *)
THEOREM LifelineHolds == Spec => []Lifeline
<1>1. IInv /\ Looking => Lifeline
  BY DEF IInv, OneLife, Looking, LooksOn, Lifeline
<1> QED
  BY <1>1, AlwaysInv, InitLooking, LookingStep, PTL DEF Spec

(* The task that runs is a step of the EventStream.                        *)
LEMMA RunTaskHappens ==
    ASSUME IInv, RunTask
    PROVE  [Stream!Happens]_(Stream!streamVars)
<1> DEFINE task == tasks[1]
<1>1. tasks \in Seq(Tasks) /\ tasks # <<>>
  BY DEF IInv, TypeOK, Tasks, RunTask
<1>2. Head(tasks) = task
  BY <1>1
<1>3. CASE readyState = "CLOSED"
  BY <1>3 DEF RunTask, Stream!streamVars
<1>4. CASE readyState # "CLOSED"
  <2>1. /\ readyState' = IF task.to = Same THEN readyState ELSE task.to
        /\ told' = Append(told, task.event)
    BY <1>2, <1>4 DEF RunTask
  <2>2. Legal(task, readyState)
    BY <1>1, <1>4, TailFollows DEF IInv, InTurn
  <2> HIDE DEF task
  <2>3. CASE task.to = "OPEN" /\ readyState = "CONNECTING" /\ task.event = Open
    BY <2>1, <2>3 DEF Same, Stream!Happens, Stream!Opens, Stream!Tell
  <2>4. CASE task.to = Same /\ readyState = "OPEN" /\ task.event \in Events
    <3>1. told \in Seq(Events \union {Open, Error})
      BY DEF IInv, TypeOK
    <3> DEFINE n == Len(told) + 1
    <3>2. n \in DOMAIN told' /\ told'[n] = task.event
      <4> HIDE DEF Events, Open, Error
      <4> QED
        BY <2>1, <3>1
    <3> QED
      BY <2>1, <2>4, <3>2 DEF Stream!Happens, Stream!Brings, Stream!Tell
  <2>5. CASE task.to = "CONNECTING" /\ readyState = "OPEN" /\ task.event = Error
    BY <2>1, <2>5 DEF Same, Stream!Happens, Stream!Breaks, Stream!Tell
  <2>6. CASE task.to = "CLOSED" /\ readyState = "CONNECTING" /\ task.event = Error
    BY <2>1, <2>6 DEF Same, Stream!Happens, Stream!Fails, Stream!Tell
  <2> QED
    BY <2>2, <2>3, <2>4, <2>5, <2>6 DEF Legal
<1> QED
  BY <1>3, <1>4

(* EventStreamImplemented: what the page sees is an EventStream: open      *)
(* before messages, lost only when open, failed only when not yet open,    *)
(* and nothing after it failed or was closed, however many connections     *)
(* follow one another and whoever calls close between two tasks.           *)
THEOREM EventStreamImplemented == Spec => ImplementsEventStream
<1>1. Init => Stream!Started
  BY DEF Init, Stream!Started
<1>2. ASSUME IInv, [Next]_vars PROVE [Stream!Happens]_(Stream!streamVars)
  <2>1. ASSUME NEW c \in Connections, NEW state \in 2 .. 4, Callback(c, state)
        PROVE  UNCHANGED <<readyState, told>>
    BY <1>2, <2>1, CallbackInv
  <2>2. CASE CheckTimer
    BY <1>2, <2>2, CheckTimerInv DEF Stream!streamVars
  <2>3. CASE Reconnect
    BY <2>3 DEF Reconnect, Stream!streamVars
  <2>4. CASE RunTask
    BY <1>2, <2>4, RunTaskHappens
  <2>5. CASE Close
    BY <2>5 DEF Close, Stream!Happens, Stream!IsClosed
  <2>6. CASE \/ \E type \in {"event-stream", "other"} : Answer(type)
             \/ \E stream \in Streams : Receive(stream)
             \/ \E how \in {"complete", "broken"} : EndRequest(how)
    BY <1>2, <2>6, ServerInv DEF Stream!streamVars
  <2>7. CASE UNCHANGED vars
    BY <2>7 DEF vars, sourceVars, Stream!streamVars
  <2> QED
    BY <1>2, <2>1, <2>2, <2>3, <2>4, <2>5, <2>6, <2>7 DEF Next, Stream!streamVars
<1> QED
  BY <1>1, <1>2, AlwaysInv, PTL DEF Spec, ImplementsEventStream, Stream!EventStreamSpec

-----------------------------------------------------------------------------
(***************************************************************************)
(* What is told, and what was read                                         *)
(***************************************************************************)

(* A reader that had found other events before.                            *)
With(r, events) == [r EXCEPT !.events = events]

(* It is a reader as well.                                                 *)
LEMMA WithTyped ==
    ASSUME NEW r \in Readers, NEW events \in Seq(Events)
    PROVE  /\ With(r, events) \in Readers
           /\ With(r, events).data = r.data /\ With(r, events).name = r.name
           /\ With(r, events).id = r.id /\ With(r, events).events = events
           /\ With(r, events).lastEventId = r.lastEventId /\ With(r, events).retry = r.retry
BY DEF With, Readers

(* Two readers that differ in the events they had found before: new events *)
(* go behind them, and nothing else depends on them.                       *)
Behind(p, q, earlier) ==
    /\ p.data = q.data /\ p.name = q.name /\ p.id = q.id
    /\ p.lastEventId = q.lastEventId /\ p.retry = q.retry
    /\ p.events = earlier \o q.events

(* One more event behind two sequences of events.                          *)
LEMMA AppendBehind ==
    \A s, t \in Seq(Events), x \in Events : Append(s \o t, x) = s \o Append(t, x)
<1> SUFFICES ASSUME NEW s \in Seq(Events), NEW t \in Seq(Events), NEW x \in Events
             PROVE  Append(s \o t, x) = s \o Append(t, x)
  OBVIOUS
<1> QED
  OBVIOUS

LEMMA LineBehind ==
    ASSUME NEW p \in Readers, NEW q \in Readers, NEW earlier \in Seq(Events),
           Behind(p, q, earlier), NEW line \in Lines
    PROVE  Behind(ReadLine(p, line), ReadLine(q, line), earlier)
<1>1. /\ p = [data |-> p.data, name |-> p.name, id |-> p.id,
              lastEventId |-> p.lastEventId, retry |-> p.retry, events |-> p.events]
      /\ q = [data |-> q.data, name |-> q.name, id |-> q.id,
              lastEventId |-> q.lastEventId, retry |-> q.retry, events |-> q.events]
  BY DEF Readers
<1>2. /\ q.data \in Seq(Data) /\ q.name \in Names /\ q.id \in Ids /\ q.events \in Seq(Events)
  BY DEF Readers
<1>3. /\ p.data = q.data /\ p.name = q.name /\ p.id = q.id
      /\ p.lastEventId = q.lastEventId /\ p.retry = q.retry
      /\ p.events = earlier \o q.events
  BY DEF Behind
<1>4. CASE line.field = "blank" /\ q.data # <<>>
  <2> DEFINE event == Event(TypeOf(q.name), q.id, q.data)
  <2>1. event \in Events
    BY <1>2 DEF Event, Events
  <2>2. /\ ReadLine(p, line).data = <<>> /\ ReadLine(p, line).name = ""
        /\ ReadLine(p, line).id = q.id /\ ReadLine(p, line).lastEventId = q.id
        /\ ReadLine(p, line).retry = q.retry
        /\ ReadLine(p, line).events = Append(p.events, event)
    BY <1>1, <1>3, <1>4 DEF ReadLine, DispatchBuffer
  <2>3. /\ ReadLine(q, line).data = <<>> /\ ReadLine(q, line).name = ""
        /\ ReadLine(q, line).id = q.id /\ ReadLine(q, line).lastEventId = q.id
        /\ ReadLine(q, line).retry = q.retry
        /\ ReadLine(q, line).events = Append(q.events, event)
    BY <1>1, <1>4 DEF ReadLine, DispatchBuffer
  <2> HIDE DEF event
  <2>4. Append(earlier \o q.events, event) = earlier \o Append(q.events, event)
    BY <1>2, <2>1, AppendBehind, Zenon
  <2> QED
    BY <1>3, <2>2, <2>3, <2>4, Zenon DEF Behind
<1>5. CASE ~(line.field = "blank" /\ q.data # <<>>)
  <2>1. /\ ReadLine(p, line).events = p.events /\ ReadLine(q, line).events = q.events
        /\ ReadLine(p, line).lastEventId = p.lastEventId
        /\ ReadLine(q, line).lastEventId = q.lastEventId
    BY <1>1, <1>3, <1>5 DEF ReadLine, DispatchBuffer
  <2>2. ReadLine(p, line).data = ReadLine(q, line).data
    BY <1>1, <1>3, <1>5 DEF ReadLine, DispatchBuffer
  <2>3. ReadLine(p, line).name = ReadLine(q, line).name
    BY <1>1, <1>3, <1>5 DEF ReadLine, DispatchBuffer
  <2>4. ReadLine(p, line).id = ReadLine(q, line).id
    BY <1>1, <1>3, <1>5 DEF ReadLine, DispatchBuffer
  <2>5. ReadLine(p, line).retry = ReadLine(q, line).retry
    BY <1>1, <1>3, <1>5 DEF ReadLine, DispatchBuffer
  <2> QED
    BY <1>3, <2>1, <2>2, <2>3, <2>4, <2>5, Zenon DEF Behind
<1> QED
  BY <1>4, <1>5

(* So it is with a whole text.                                             *)
LEMMA ReadBehind ==
    ASSUME NEW p \in Readers, NEW r \in Readers, NEW earlier \in Seq(Events),
           Behind(p, r, earlier), NEW lines \in Seq(Lines)
    PROVE  Behind(ReadLines(p, lines), ReadLines(r, lines), earlier)
<1> DEFINE T == {t \in Seq(Lines) : Behind(ReadLines(p, t), ReadLines(r, t), earlier)}
<1>1. <<>> \in T
  <2>1. <<>> \in Seq(Lines)
    OBVIOUS
  <2>2. ReadLines(p, <<>>) = p /\ ReadLines(r, <<>>) = r
    BY ReadNoLines
  <2> QED
    BY <2>1, <2>2
<1>2. ASSUME NEW t \in T, NEW line \in Lines PROVE Append(t, line) \in T
  <2>1. t \in Seq(Lines) /\ Append(t, line) \in Seq(Lines)
        /\ Behind(ReadLines(p, t), ReadLines(r, t), earlier)
    OBVIOUS
  <2>2. ReadLines(p, t) \in Readers /\ ReadLines(r, t) \in Readers
    BY <2>1, ReadLinesTyped
  <2>3. ReadLines(p, Append(t, line)) = ReadLine(ReadLines(p, t), line)
    BY <2>1, ReadOneMore
  <2>4. ReadLines(r, Append(t, line)) = ReadLine(ReadLines(r, t), line)
    BY <2>1, ReadOneMore
  <2> HIDE DEF T
  <2>5. Behind(ReadLines(p, Append(t, line)), ReadLines(r, Append(t, line)), earlier)
    BY <2>1, <2>2, <2>3, <2>4, LineBehind
  <2> QED
    BY <2>1, <2>5 DEF T
<1>3. T \in SUBSET Seq(Lines)
  OBVIOUS
<1> HIDE DEF T
<1>4. T = Seq(Lines)
  BY <1>1, <1>2, <1>3, SequenceInduction
<1> QED
  BY <1>4 DEF T

(* What was read of a text, and of the text with more lines.               *)
LEMMA ReadOn ==
    ASSUME NEW first \in Seq(Lines), NEW id, NEW r \in Readers, IsRead(r, first, id),
           NEW lines \in Seq(Lines)
    PROVE  IsRead(ReadLines(r, lines), first \o lines, id)
<1> DEFINE T == {t \in Seq(Lines) : IsRead(ReadLines(r, t), first \o t, id)}
<1>1. <<>> \in T
  <2>1. <<>> \in Seq(Lines) /\ first \o <<>> = first
    OBVIOUS
  <2>2. ReadLines(r, <<>>) = r
    BY ReadNoLines
  <2> QED
    BY <2>1, <2>2
<1>2. ASSUME NEW t \in T, NEW line \in Lines PROVE Append(t, line) \in T
  <2>1. t \in Seq(Lines) /\ IsRead(ReadLines(r, t), first \o t, id)
    OBVIOUS
  <2>2. Append(t, line) \in Seq(Lines) /\ first \o t \in Seq(Lines)
        /\ first \o Append(t, line) = Append(first \o t, line)
    BY <2>1
  <2>3. ReadLines(r, t) \in Readers
    BY <2>1, ReadLinesTyped
  <2>4. ReadLines(r, Append(t, line)) = ReadLine(ReadLines(r, t), line)
    BY <2>1, ReadOneMore
  <2>5. IsRead(ReadLine(ReadLines(r, t), line), Append(first \o t, line), id)
    BY <2>1, <2>2, <2>3, IsReadFurther
  <2> HIDE DEF T
  <2>6. IsRead(ReadLines(r, Append(t, line)), first \o Append(t, line), id)
    BY <2>2, <2>4, <2>5
  <2> QED
    BY <2>2, <2>6 DEF T
<1>3. T \in SUBSET Seq(Lines)
  OBVIOUS
<1> HIDE DEF T
<1>4. T = Seq(Lines)
  BY <1>1, <1>2, <1>3, SequenceInduction
<1> QED
  BY <1>4 DEF T

(* The events of a text that was read in pieces, each by a reader that     *)
(* goes on with the data, name and id of the one before it.                *)
LEMMA MoreEvents ==
    ASSUME NEW r \in Readers, r.events = <<>>, NEW id,
           NEW first \in Seq(Lines), NEW lines \in Seq(Lines),
           EventsOf(first, id) \in Seq(Events),
           IsRead(With(r, EventsOf(first, id)), first, id)
    PROVE  LET q == ReadLines(r, lines)
               all == first \o lines
           IN  /\ EventsOf(all, id) = EventsOf(first, id) \o q.events
               /\ IsRead(With(q, EventsOf(all, id)), all, id)
<1> DEFINE q == ReadLines(r, lines)
           all == first \o lines
           earlier == EventsOf(first, id)
           p == With(r, earlier)
<1>1. p \in Readers
  BY WithTyped
<1>2. IsRead(ReadLines(p, lines), all, id)
  BY <1>1, ReadOn
<1>3. Behind(ReadLines(p, lines), q, earlier)
  <2>1. earlier \o <<>> = earlier
    BY ConcatEmpty
  <2>2. Behind(p, r, earlier)
    BY <2>1, WithTyped DEF Behind
  <2> QED
    BY <1>1, <2>2, ReadBehind
<1>4. q \in Readers /\ q.events \in Seq(Events)
  <2>1. q \in Readers
    BY ReadLinesTyped
  <2> HIDE DEF q
  <2> QED
    BY <2>1 DEF Readers
<1> HIDE DEF q, all, earlier, p
<1>5. ReadLines(p, lines).events = EventsOf(all, id)
  BY <1>2 DEF IsRead
<1>6. EventsOf(all, id) = earlier \o q.events
  BY <1>3, <1>5 DEF Behind
<1>7. EventsOf(all, id) \in Seq(Events)
  BY <1>4, <1>6 DEF earlier
<1>8. IsRead(With(q, EventsOf(all, id)), all, id)
  <2>1. /\ ReadLines(p, lines).data = q.data /\ ReadLines(p, lines).name = q.name
        /\ ReadLines(p, lines).id = q.id
    BY <1>3 DEF Behind
  <2>2. /\ With(q, EventsOf(all, id)).data = q.data /\ With(q, EventsOf(all, id)).name = q.name
        /\ With(q, EventsOf(all, id)).id = q.id /\ With(q, EventsOf(all, id)).events = EventsOf(all, id)
    BY <1>4, <1>7, WithTyped
  <2> QED
    BY <1>2, <2>1, <2>2, Zenon DEF IsRead
<1> QED
  BY <1>6, <1>8 DEF q, all, earlier

(* Every event has data, and its id is lastEventId.                        *)
Knows(r) == r.events \in Seq(WithData) /\ r.lastEventId = LastId(r.events)

LEMMA LineKnows ==
    ASSUME NEW r \in Readers, Knows(r), NEW line \in Lines
    PROVE  Knows(ReadLine(r, line))
<1> DEFINE q == ReadLine(r, line)
<1>1. /\ r = [data |-> r.data, name |-> r.name, id |-> r.id,
              lastEventId |-> r.lastEventId, retry |-> r.retry, events |-> r.events]
      /\ r.data \in Seq(Data) /\ r.name \in Names /\ r.id \in Ids
  BY DEF Readers
<1>2. CASE line.field = "blank" /\ r.data # <<>>
  <2> DEFINE event == Event(TypeOf(r.name), r.id, r.data)
  <2>1. event \in WithData /\ event.lastEventId = r.id
    BY <1>1, <1>2 DEF Event, Events, WithData
  <2>2. q.events = Append(r.events, event) /\ q.lastEventId = r.id
    BY <1>1, <1>2 DEF ReadLine, DispatchBuffer
  <2> HIDE DEF event, q
  <2>3. r.events \in Seq(WithData)
    BY DEF Knows
  <2> DEFINE n == Len(q.events)
  <2>4. q.events \in Seq(WithData) /\ n = Len(r.events) + 1 /\ n # 0 /\ q.events[n] = event
    BY <2>1, <2>2, <2>3
  <2>5. q.events # <<>>
    BY <2>4
  <2> HIDE DEF n
  <2>6. LastId(q.events) = event.lastEventId
    BY <2>4, <2>5, Zenon DEF LastId, n
  <2> QED
    BY <2>1, <2>2, <2>4, <2>6 DEF Knows, q
<1>3. CASE ~(line.field = "blank" /\ r.data # <<>>)
  <2>1. q.events = r.events /\ q.lastEventId = r.lastEventId
    BY <1>1, <1>3 DEF ReadLine, DispatchBuffer
  <2> HIDE DEF q
  <2> QED
    BY <2>1 DEF Knows, q
<1> QED
  BY <1>2, <1>3

(* So it is after a text.                                                  *)
LEMMA ReadLinesKnow ==
    ASSUME NEW r \in Readers, Knows(r), NEW lines \in Seq(Lines)
    PROVE  Knows(ReadLines(r, lines))
<1> DEFINE T == {t \in Seq(Lines) : Knows(ReadLines(r, t))}
<1>1. <<>> \in T
  <2>1. <<>> \in Seq(Lines) /\ ReadLines(r, <<>>) = r
    BY ReadNoLines
  <2> QED
    BY <2>1
<1>2. ASSUME NEW t \in T, NEW line \in Lines PROVE Append(t, line) \in T
  <2>1. t \in Seq(Lines) /\ Knows(ReadLines(r, t)) /\ Append(t, line) \in Seq(Lines)
    OBVIOUS
  <2>2. ReadLines(r, t) \in Readers
    BY <2>1, ReadLinesTyped
  <2>3. ReadLines(r, Append(t, line)) = ReadLine(ReadLines(r, t), line)
    BY <2>1, ReadOneMore
  <2> QED
    BY <2>1, <2>2, <2>3, LineKnows
<1>3. T \in SUBSET Seq(Lines)
  OBVIOUS
<1> HIDE DEF T
<1>4. T = Seq(Lines)
  BY <1>1, <1>2, <1>3, SequenceInduction
<1> QED
  BY <1>4 DEF T

-----------------------------------------------------------------------------
(***************************************************************************)
(* The story                                                               *)
(***************************************************************************)

LEMMA LastIdTyped ==
    ASSUME NEW events \in Seq(WithData)
    PROVE  LastId(events) \in Ids
<1>1. CASE events = <<>>
  BY <1>1, ValuesAssumption DEF LastId
<1>2. CASE events # <<>>
  <2> DEFINE n == Len(events)
  <2>1. n \in 1 .. Len(events)
    BY <1>2
  <2>2. events[n] \in WithData
    BY <2>1
  <2> HIDE DEF n
  <2>3. events[n].lastEventId \in Ids
    BY <2>2 DEF WithData, Events
  <2> QED
    BY <1>2, <2>3 DEF LastId, n
<1> QED
  BY <1>1, <1>2

(* A reader at the beginning of a text, with an id.                        *)
LEMMA NewReader ==
    ASSUME NEW id \in Ids, NEW last \in Ids, NEW delay \in Delays
    PROVE  LET r == [data |-> <<>>, name |-> "", id |-> id,
                     lastEventId |-> last, retry |-> delay, events |-> <<>>]
           IN  r \in Readers /\ IsNew(r) /\ r.id = id /\ r.events = <<>> /\ r.lastEventId = last
<1>1. <<>> \in Seq(Data) /\ <<>> \in Seq(Events)
  OBVIOUS
<1>2. "" \in Names
  BY ValuesAssumption
<1> QED
  BY <1>1, <1>2 DEF Readers, IsNew

(* The events of a text are events, and have data.                         *)
LEMMA EventsTyped ==
    ASSUME NEW lines \in Seq(Lines), NEW id \in Ids
    PROVE  EventsOf(lines, id) \in Seq(WithData) /\ EventsOf(lines, id) \in Seq(Events)
<1>1. PICK none \in Ids, delay \in Delays : none = ""
  BY ValuesAssumption
<1> DEFINE r == [data |-> <<>>, name |-> "", id |-> id,
                 lastEventId |-> none, retry |-> delay, events |-> <<>>]
<1>2. r \in Readers /\ IsNew(r) /\ r.id = id /\ r.events = <<>> /\ r.lastEventId = none
  BY NewReader
<1>3. Knows(r)
  <2>1. r.events = <<>> /\ r.lastEventId = ""
    BY <1>1, <1>2
  <2>2. <<>> \in Seq(WithData) /\ LastId(<<>>) = ""
    BY DEF LastId
  <2> HIDE DEF r
  <2> QED
    BY <2>1, <2>2 DEF Knows
<1> HIDE DEF r
<1>4. ReadLines(r, lines).events = EventsOf(lines, id)
  BY <1>2, ReadLinesIsRight
<1>5. Knows(ReadLines(r, lines))
  BY <1>2, <1>3, ReadLinesKnow
<1>6. ReadLines(r, lines) \in Readers
  BY <1>2, ReadLinesTyped
<1>7. EventsOf(lines, id) \in Seq(WithData)
  BY <1>4, <1>5 DEF Knows
<1>8. EventsOf(lines, id) \in Seq(Events)
  BY <1>4, <1>6 DEF Readers
<1> QED
  BY <1>7, <1>8

(* An empty text has no events.                                            *)
LEMMA NoEvents ==
    ASSUME NEW id
    PROVE  EventsOf(<<>>, id) = <<>>
<1> DEFINE r == [data |-> <<>>, name |-> "", id |-> id, events |-> <<>>]
<1>1. IsNew(r) /\ r.id = id /\ r.events = <<>>
  BY DEF IsNew
<1> HIDE DEF r
<1>2. IsRead(r, <<>>, id)
  BY <1>1, NothingRead
<1>3. r.events = EventsOf(<<>>, id)
  BY <1>2 DEF IsRead
<1> QED
  BY <1>1, <1>3

(* g[c] is the story of the first c texts.                                 *)
OneMore(story, text) == story \o EventsOf(text, LastId(story))

IsStory(g, k, reads) ==
    g = [c \in 0 .. k |-> IF c = 0 THEN <<>> ELSE OneMore(g[c - 1], reads[c])]

(* There is such a function for each k: one more text extends it.          *)
LEMMA StoryExists ==
    ASSUME NEW reads
    PROVE  \A k \in Nat : \E g : IsStory(g, k, reads)
<1> DEFINE T == {k \in Nat : \E g : IsStory(g, k, reads)}
<1>1. 0 \in T
  <2>1. IsStory([c \in 0 .. 0 |-> <<>>], 0, reads)
    BY DEF IsStory
  <2> QED
    BY <2>1
<1>2. ASSUME NEW k \in T PROVE k + 1 \in T
  <2>1. PICK g : IsStory(g, k, reads)
    OBVIOUS
  <2> DEFINE h == [c \in 0 .. k + 1 |-> IF c = 0 THEN <<>> ELSE OneMore(g[c - 1], reads[c])]
  <2>2. \A c \in 0 .. k : h[c] = g[c]
    BY <2>1 DEF IsStory
  <2>3. h = [c \in 0 .. k + 1 |-> IF c = 0 THEN <<>> ELSE OneMore(h[c - 1], reads[c])]
    <3>1. ASSUME NEW c \in 0 .. k + 1, c # 0 PROVE h[c - 1] = g[c - 1]
      BY <2>2, <3>1
    <3> QED
      BY <3>1
  <2>4. IsStory(h, k + 1, reads)
    BY <2>3 DEF IsStory
  <2> QED
    BY <2>4
<1> HIDE DEF T
<1>3. T = Nat
  <2>1. T \in SUBSET Nat
    BY DEF T
  <2> QED
    BY <1>1, <1>2, <2>1, Induction
<1> QED
  BY <1>3 DEF T

(* StoryOf is the value of one of them at the last text.                   *)
LEMMA StoryIs ==
    ASSUME NEW reads, Len(reads) \in Nat
    PROVE  \E g : /\ StoryOf(reads) = g[Len(reads)]
                  /\ g[0] = <<>>
                  /\ \A c \in 1 .. Len(reads) : g[c] = OneMore(g[c - 1], reads[c])
<1> DEFINE upTo[c \in 0 .. Len(reads)] ==
               IF c = 0 THEN <<>> ELSE upTo[c - 1] \o EventsOf(reads[c], LastId(upTo[c - 1]))
<1>1. \E g : g = [c \in 0 .. Len(reads) |->
                      IF c = 0 THEN <<>> ELSE g[c - 1] \o EventsOf(reads[c], LastId(g[c - 1]))]
  BY StoryExists DEF IsStory, OneMore
<1>2. upTo = [c \in 0 .. Len(reads) |->
                 IF c = 0 THEN <<>> ELSE upTo[c - 1] \o EventsOf(reads[c], LastId(upTo[c - 1]))]
  BY <1>1
<1>3. StoryOf(reads) = upTo[Len(reads)]
  BY DEF StoryOf
<1> HIDE DEF upTo
<1> QED
  BY <1>2, <1>3 DEF OneMore

(* Without texts there is no event.                                        *)
LEMMA StoryEmpty == StoryOf(<<>>) = <<>>
<1>1. Len(<<>>) = 0
  OBVIOUS
<1>2. PICK g : StoryOf(<<>>) = g[0] /\ g[0] = <<>>
  BY <1>1, StoryIs
<1> QED
  BY <1>2

(* The events of one more text.                                            *)
LEMMA StoryAppend ==
    ASSUME NEW X, NEW reads \in Seq(X), NEW text \in X
    PROVE  StoryOf(Append(reads, text)) = OneMore(StoryOf(reads), text)
<1> DEFINE t == Append(reads, text)  k == Len(reads)
<1>1. k \in Nat /\ Len(t) = k + 1 /\ t[k + 1] = text /\ \A c \in 1 .. k : t[c] = reads[c]
  OBVIOUS
<1> HIDE DEF t
<1>2. PICK f : /\ StoryOf(reads) = f[k] /\ f[0] = <<>>
               /\ \A c \in 1 .. k : f[c] = OneMore(f[c - 1], reads[c])
  BY <1>1, StoryIs
<1>3. PICK g : /\ StoryOf(t) = g[k + 1] /\ g[0] = <<>>
               /\ \A c \in 1 .. k + 1 : g[c] = OneMore(g[c - 1], t[c])
  <2>1. Len(t) \in Nat
    BY <1>1
  <2> QED
    BY <1>1, <2>1, StoryIs
<1> DEFINE T == {c \in Nat : c <= k => g[c] = f[c]}
<1>4. T = Nat
  <2>1. 0 \in T
    BY <1>2, <1>3
  <2>2. ASSUME NEW c \in T PROVE c + 1 \in T
    <3> SUFFICES ASSUME c + 1 <= k PROVE g[c + 1] = f[c + 1]
      OBVIOUS
    <3>1. g[c] = f[c] /\ c + 1 \in 1 .. k /\ c + 1 \in 1 .. k + 1 /\ (c + 1) - 1 = c
      BY <1>1
    <3>2. g[c + 1] = OneMore(g[c], t[c + 1]) /\ f[c + 1] = OneMore(f[c], reads[c + 1])
      BY <1>2, <1>3, <3>1
    <3> QED
      BY <1>1, <3>1, <3>2
  <2>3. T \in SUBSET Nat
    OBVIOUS
  <2> HIDE DEF T
  <2> QED
    BY <2>1, <2>2, <2>3, Induction
<1>5. g[k] = f[k]
  BY <1>1, <1>4
<1>6. g[k + 1] = OneMore(g[k], text)
  <2>1. k + 1 \in 1 .. k + 1 /\ (k + 1) - 1 = k
    BY <1>1
  <2> QED
    BY <1>1, <1>3, <2>1
<1> QED
  BY <1>2, <1>3, <1>5, <1>6 DEF t

(* All events of a story have data.                                        *)
LEMMA StoryTyped ==
    ASSUME NEW reads \in Seq(Seq(Lines))
    PROVE  StoryOf(reads) \in Seq(WithData)
<1> DEFINE T == {s \in Seq(Seq(Lines)) : StoryOf(s) \in Seq(WithData)}
<1>1. <<>> \in T
  <2>1. <<>> \in Seq(Seq(Lines)) /\ <<>> \in Seq(WithData)
    OBVIOUS
  <2> QED
    BY <2>1, StoryEmpty
<1>2. ASSUME NEW s \in T, NEW text \in Seq(Lines) PROVE Append(s, text) \in T
  <2> DEFINE story == StoryOf(s)
             events == EventsOf(text, LastId(story))
  <2>1. s \in Seq(Seq(Lines)) /\ story \in Seq(WithData) /\ Append(s, text) \in Seq(Seq(Lines))
    OBVIOUS
  <2>2. StoryOf(Append(s, text)) = story \o events
    BY <2>1, StoryAppend DEF OneMore
  <2>3. events \in Seq(WithData)
    BY <2>1, LastIdTyped, EventsTyped
  <2> HIDE DEF story, events, T
  <2>4. story \o events \in Seq(WithData)
    BY <2>1, <2>3
  <2> QED
    BY <2>1, <2>2, <2>4 DEF T
<1>3. T \in SUBSET Seq(Seq(Lines))
  OBVIOUS
<1> HIDE DEF T
<1>4. T = Seq(Seq(Lines))
  BY <1>1, <1>2, <1>3, SequenceInduction
<1> QED
  BY <1>4 DEF T

(* The texts but the last, and the id at which the last began.             *)
Earlier(reads) == [c \in 1 .. Len(reads) - 1 |-> reads[c]]

Began(reads) == LastId(StoryOf(Earlier(reads)))

(* A story is that of the earlier texts, and the events of the last.       *)
LEMMA StoryParts ==
    ASSUME NEW reads \in Seq(Seq(Lines)), NEW k, k = Len(reads), k # 0
    PROVE  /\ StoryOf(Earlier(reads)) \in Seq(WithData) /\ Began(reads) \in Ids
           /\ EventsOf(reads[k], Began(reads)) \in Seq(WithData)
           /\ EventsOf(reads[k], Began(reads)) \in Seq(Events)
           /\ StoryOf(reads) = StoryOf(Earlier(reads)) \o EventsOf(reads[k], Began(reads))
<1> DEFINE s == Earlier(reads)
<1>1. k \in Nat /\ s \in Seq(Seq(Lines)) /\ reads[k] \in Seq(Lines) /\ reads = Append(s, reads[k])
  BY DEF Earlier
<1> HIDE DEF s
<1>2. StoryOf(Append(s, reads[k])) = OneMore(StoryOf(s), reads[k])
  BY <1>1, StoryAppend
<1>3. StoryOf(s) \in Seq(WithData)
  BY <1>1, StoryTyped
<1>4. LastId(StoryOf(s)) \in Ids
  BY <1>3, LastIdTyped
<1>5. /\ EventsOf(reads[k], LastId(StoryOf(s))) \in Seq(WithData)
      /\ EventsOf(reads[k], LastId(StoryOf(s))) \in Seq(Events)
  BY <1>1, <1>4, EventsTyped
<1>6. StoryOf(reads) = OneMore(StoryOf(s), reads[k])
  BY <1>1, <1>2, Zenon
<1> QED
  BY <1>3, <1>4, <1>5, <1>6 DEF OneMore, Began, s

(* Events with data are events.                                            *)
LEMMA EventsAreEvents == Seq(WithData) \subseteq Seq(Events)
BY DEF WithData

(* An element of a sequence.                                               *)
LEMMA ElementOf ==
    ASSUME NEW X, NEW s \in Seq(X), NEW n \in 1 .. Len(s)
    PROVE  s[n] \in X
OBVIOUS

(* Three sequences of events, one after the other.                         *)
LEMMA ThreeParts ==
    \A s, t, u \in Seq(Events) : (s \o t) \o u = s \o (t \o u)
<1> SUFFICES ASSUME NEW s \in Seq(Events), NEW t \in Seq(Events), NEW u \in Seq(Events)
             PROVE  (s \o t) \o u = s \o (t \o u)
  OBVIOUS
<1> QED
  OBVIOUS

(* Events behind others of which all have data.                            *)
LEMMA SuffixTyped ==
    ASSUME NEW s \in Seq(Events), NEW t \in Seq(Events), s \o t \in Seq(WithData)
    PROVE  t \in Seq(WithData)
<1>1. /\ Len(s) \in Nat /\ Len(s \o t) = Len(s) + Len(t) /\ Len(t) \in Nat
      /\ \A n \in 1 .. Len(t) : (s \o t)[Len(s) + n] = t[n]
  <2>1. Len(s) \in Nat /\ Len(s \o t) = Len(s) + Len(t) /\ Len(t) \in Nat
    OBVIOUS
  <2>2. \A n \in 1 .. Len(t) : (s \o t)[Len(s) + n] = t[n]
    OBVIOUS
  <2> QED
    BY <2>1, <2>2
<1> DEFINE all == s \o t
<1>2. all \in Seq(WithData)
  OBVIOUS
<1> HIDE DEF all
<1>3. ASSUME NEW n \in 1 .. Len(t) PROVE t[n] \in WithData
  <2>1. Len(s) + n \in 1 .. Len(all) /\ all[Len(s) + n] = t[n]
    BY <1>1 DEF all
  <2> QED
    BY <1>2, <2>1, ElementOf
<1> QED
  BY <1>1, <1>3

(* The last text is read further.                                          *)
LEMMA StoryFurther ==
    ASSUME NEW reads \in Seq(Seq(Lines)), NEW further \in Seq(Seq(Lines)),
           NEW k, k = Len(reads), k = Len(further), k # 0,
           \A c \in 1 .. k - 1 : further[c] = reads[c],
           NEW lines \in Seq(Lines), further[k] = reads[k] \o lines,
           NEW r \in Readers, r.events = <<>>, r.lastEventId = LastId(StoryOf(reads)),
           IsRead(With(r, EventsOf(reads[k], Began(reads))), reads[k], Began(reads))
    PROVE  LET q == ReadLines(r, lines)
           IN  /\ q.events \in Seq(WithData)
               /\ StoryOf(further) = StoryOf(reads) \o q.events
               /\ q.lastEventId = LastId(StoryOf(further))
               /\ IsRead(With(q, EventsOf(further[k], Began(further))),
                         further[k], Began(further))
<1> DEFINE q == ReadLines(r, lines)
           id == Began(reads)
           story == StoryOf(reads)
           p == With(r, story)
           last == EventsOf(reads[k], id)
           before == StoryOf(Earlier(reads))
<1>1. Began(further) = id /\ StoryOf(Earlier(further)) = before
  <2>1. Earlier(further) = Earlier(reads)
    BY DEF Earlier
  <2> QED
    BY <2>1, Zenon DEF Began
<1>2. /\ before \in Seq(WithData) /\ id \in Ids
      /\ last \in Seq(Events)
      /\ story = before \o last
  BY StoryParts
<1>3. /\ StoryOf(further) = before \o EventsOf(further[k], id)
  <2>1. StoryOf(further) = StoryOf(Earlier(further)) \o EventsOf(further[k], Began(further))
    BY StoryParts
  <2> QED
    BY <1>1, <2>1, Zenon
<1>4. reads[k] \in Seq(Lines)
  <2>1. k \in 1 .. Len(reads)
    OBVIOUS
  <2> QED
    BY <2>1, ElementOf
<1>5. /\ EventsOf(reads[k] \o lines, id) = last \o q.events
      /\ IsRead(With(q, EventsOf(reads[k] \o lines, id)), reads[k] \o lines, id)
  BY <1>2, <1>4, MoreEvents
<1>6. q \in Readers /\ q.events \in Seq(Events)
  <2>1. q \in Readers
    BY ReadLinesTyped
  <2> HIDE DEF q
  <2> QED
    BY <2>1 DEF Readers
<1>7. story \in Seq(WithData) /\ story \in Seq(Events)
  BY StoryTyped, EventsAreEvents
<1>8. p \in Readers /\ Behind(p, r, story) /\ Knows(p)
  <2>1. story \o <<>> = story
    BY <1>7, ConcatEmpty
  <2>2. p \in Readers /\ p.events = story /\ p.lastEventId = LastId(story)
    BY <1>7, WithTyped
  <2>3. Behind(p, r, story)
    BY <1>7, <2>1, WithTyped DEF Behind
  <2> HIDE DEF p, story
  <2> QED
    BY <1>7, <2>2, <2>3 DEF Knows
<1>9. Knows(ReadLines(p, lines)) /\ Behind(ReadLines(p, lines), q, story)
  BY <1>7, <1>8, ReadBehind, ReadLinesKnow
<1> HIDE DEF q, p, story, last, before, id
<1>10. story \o q.events \in Seq(WithData) /\ q.lastEventId = LastId(story \o q.events)
  BY <1>9 DEF Knows, Behind
<1>11. q.events \in Seq(WithData)
  BY <1>6, <1>7, <1>10, SuffixTyped
<1>12. StoryOf(further) = story \o q.events
  <2>1. before \in Seq(Events)
    BY <1>2, EventsAreEvents
  <2>2. (before \o last) \o q.events = before \o (last \o q.events)
    BY <1>2, <1>6, <2>1, ThreeParts
  <2> QED
    BY <1>2, <1>3, <1>5, <2>2
<1> QED
  BY <1>1, <1>5, <1>10, <1>11, <1>12 DEF q, story, id

(* A text that begins.                                                     *)
LEMMA StoryBegins ==
    ASSUME NEW reads \in Seq(Seq(Lines)), NEW further, further = Append(reads, <<>>),
           NEW r \in Readers, IsNew(r), r.id = LastId(StoryOf(reads))
    PROVE  /\ StoryOf(further) = StoryOf(reads)
           /\ IsRead(With(r, EventsOf(<<>>, Began(further))), <<>>, Began(further))
<1>1. <<>> \in Seq(Lines)
  OBVIOUS
<1>2. Len(further) - 1 = Len(reads) /\ \A c \in 1 .. Len(reads) : further[c] = reads[c]
  BY <1>1
<1>3. reads = [c \in 1 .. Len(reads) |-> reads[c]]
  OBVIOUS
<1>4. Earlier(further) = reads
  BY <1>2, <1>3 DEF Earlier
<1>5. Began(further) = r.id
  BY <1>4 DEF Began
<1>6. StoryOf(further) = StoryOf(reads)
  <2>1. StoryOf(further) = OneMore(StoryOf(reads), <<>>)
    BY <1>1, StoryAppend
  <2>2. StoryOf(reads) \in Seq(WithData)
    BY StoryTyped
  <2>3. StoryOf(reads) \o <<>> = StoryOf(reads)
    BY <2>2, ConcatEmpty
  <2> QED
    BY <2>1, <2>3, NoEvents DEF OneMore
<1>7. EventsOf(<<>>, Began(further)) = <<>> /\ <<>> \in Seq(Events)
  BY NoEvents
<1>8. IsNew(With(r, <<>>)) /\ With(r, <<>>).id = r.id
  BY <1>7, WithTyped DEF IsNew
<1>9. IsRead(With(r, <<>>), <<>>, r.id)
  <2>1. IsRead(With(r, <<>>), <<>>, With(r, <<>>).id)
    BY <1>8, NothingRead
  <2> QED
    BY <1>8, <2>1
<1> QED
  BY <1>5, <1>6, <1>7, <1>9

-----------------------------------------------------------------------------
(***************************************************************************)
(* What is heard                                                           *)
(***************************************************************************)

Told == Events \union {Open, Error}

Heard(queue) == [n \in DOMAIN queue |-> queue[n].event]

(* It is heard of two queues, one after the other, queue by queue.         *)
LEMMA HeardTyped ==
    ASSUME NEW s \in Seq(Tasks), NEW t \in Seq(Tasks)
    PROVE  Heard(s) \in Seq(Told) /\ Heard(s \o t) = Heard(s) \o Heard(t)
<1>1. ASSUME NEW q \in Seq(Tasks)
      PROVE  /\ Heard(q) \in Seq(Told) /\ Len(Heard(q)) = Len(q)
             /\ Heard(q) = [n \in 1 .. Len(q) |-> q[n].event]
  <2>1. \A n \in DOMAIN q : q[n].event \in Told
    <3>1. \A task \in Tasks : task.event \in Told
      BY DEF Tasks, Told
    <3> QED
      BY <3>1
  <2>2. DOMAIN q = 1 .. Len(q) /\ Len(q) \in Nat
    OBVIOUS
  <2> HIDE DEF Told
  <2> QED
    BY <2>1, <2>2 DEF Heard
<1>2. /\ s \o t \in Seq(Tasks) /\ Len(s \o t) = Len(s) + Len(t)
      /\ Len(s) \in Nat /\ Len(t) \in Nat
  OBVIOUS
<1>3. \A n \in 1 .. Len(s) + Len(t) : (s \o t)[n] = IF n <= Len(s) THEN s[n] ELSE t[n - Len(s)]
  OBVIOUS
<1> DEFINE a == Heard(s)  b == Heard(t)  all == Heard(s \o t)
<1>4. /\ a \in Seq(Told) /\ b \in Seq(Told) /\ all \in Seq(Told)
      /\ Len(a) = Len(s) /\ Len(b) = Len(t) /\ Len(all) = Len(s) + Len(t)
  BY <1>1, <1>2
<1>5. /\ \A n \in 1 .. Len(s) : a[n] = s[n].event
      /\ \A n \in 1 .. Len(t) : b[n] = t[n].event
      /\ \A n \in 1 .. Len(s) + Len(t) : all[n] = (s \o t)[n].event
  BY <1>1, <1>2
<1> HIDE DEF a, b, all, Told
<1>6. /\ a \o b \in Seq(Told) /\ Len(a \o b) = Len(a) + Len(b)
      /\ \A n \in 1 .. Len(a) + Len(b) : (a \o b)[n] = IF n <= Len(a) THEN a[n] ELSE b[n - Len(a)]
  <2>1. a \o b \in Seq(Told) /\ Len(a \o b) = Len(a) + Len(b)
    BY <1>4
  <2>2. \A n \in 1 .. Len(a) + Len(b) : (a \o b)[n] = IF n <= Len(a) THEN a[n] ELSE b[n - Len(a)]
    BY <1>4
  <2> QED
    BY <2>1, <2>2
<1>7. ASSUME NEW n \in 1 .. Len(s) + Len(t) PROVE (a \o b)[n] = all[n]
  <2>1. CASE n <= Len(s)
    <3>1. n \in 1 .. Len(s)
      BY <1>2, <2>1
    <3> QED
      BY <1>3, <1>4, <1>5, <1>6, <2>1, <3>1
  <2>2. CASE ~(n <= Len(s))
    <3>1. n - Len(s) \in 1 .. Len(t)
      BY <1>2, <2>2
    <3>2. (a \o b)[n] = b[n - Len(s)]
      BY <1>4, <1>6, <2>2
    <3>3. all[n] = t[n - Len(s)].event
      BY <1>3, <1>5, <2>2
    <3> QED
      BY <1>5, <3>1, <3>2, <3>3
  <2> QED
    BY <2>1, <2>2
<1>8. all = a \o b
  <2> DEFINE c == a \o b
  <2>1. c \in Seq(Told) /\ Len(c) = Len(all) /\ \A n \in 1 .. Len(all) : c[n] = all[n]
    BY <1>4, <1>6, <1>7
  <2> HIDE DEF c
  <2>2. all = c
    BY <1>4, <2>1
  <2> QED
    BY <2>2 DEF c
<1> QED
  BY <1>4, <1>8 DEF a, b, all

(* Of an empty queue nothing is heard, of a task its event.                *)
LEMMA HeardOne ==
    /\ <<>> \in Seq(Tasks) /\ Heard(<<>>) = <<>>
    /\ \A task \in Tasks : <<task>> \in Seq(Tasks) /\ Heard(<<task>>) = <<task.event>>
<1>1. <<>> \in Seq(Tasks) /\ Heard(<<>>) = <<>>
  BY DEF Heard
<1>2. ASSUME NEW task \in Tasks PROVE <<task>> \in Seq(Tasks) /\ Heard(<<task>>) = <<task.event>>
  BY DEF Heard
<1> QED
  BY <1>1, <1>2

(* The messages of two sequences, one after the other.                     *)
LEMMA AmongTold ==
    \A s, t \in Seq(Told) :
        /\ Among(s \o t, WithData) = Among(s, WithData) \o Among(t, WithData)
        /\ Among(s, WithData) \in Seq(WithData)
<1> SUFFICES ASSUME NEW s \in Seq(Told), NEW t \in Seq(Told)
             PROVE  /\ Among(s \o t, WithData) = Among(s, WithData) \o Among(t, WithData)
                    /\ Among(s, WithData) \in Seq(WithData)
  OBVIOUS
<1>1. Among(s \o t, WithData) = Among(s, WithData) \o Among(t, WithData)
  BY AmongConcat
<1>2. Among(s, WithData) \in Seq(Told \cap WithData)
  BY AmongType
<1>3. Among(s, WithData) \in Seq(WithData)
  BY <1>2
<1> QED
  BY <1>1, <1>3

(* Of the tasks of a callback, those with data tell its events.            *)
LEMMA QueuedHeard ==
    ASSUME NEW c, NEW state, NEW events \in Seq(WithData), closures[c].opened \in BOOLEAN
    PROVE  Among(Heard(Queued(c, state, events)), WithData) = events
<1> DEFINE open == IF IsOpened(c) /\ ~closures[c].opened THEN <<Task(Open, "OPEN")>> ELSE <<>>
           middle == [n \in DOMAIN events |-> Task(events[n], Same)]
           error == IF state # 4 THEN <<>>
                    ELSE IF IsOpened(c) THEN <<Task(Error, "CONNECTING")>>
                    ELSE <<Task(Error, "CLOSED")>>
<1>1. Queued(c, state, events) = (open \o middle) \o error
  BY DEF Queued
<1>2. /\ Task(Open, "OPEN") \in Tasks
      /\ Task(Error, "CONNECTING") \in Tasks /\ Task(Error, "CLOSED") \in Tasks
      /\ \A event \in Events : Task(event, Same) \in Tasks
  BY DEF Task, Tasks, States
<1>3. /\ Task(Open, "OPEN").event = Open /\ Task(Error, "CONNECTING").event = Error
      /\ Task(Error, "CLOSED").event = Error
      /\ \A event : Task(event, Same).event = event
  BY DEF Task
<1>4. Open \notin WithData /\ Error \notin WithData
  BY DEF Open, Error, Event, WithData
<1>5. open \in Seq(Tasks) /\ Heard(open) \in Seq({Open})
  <2>1. <<Open>> \in Seq({Open}) /\ <<>> \in Seq({Open})
    OBVIOUS
  <2> QED
    BY <1>2, <1>3, <2>1, HeardOne
<1>6. error \in Seq(Tasks) /\ Heard(error) \in Seq({Error})
  <2>1. <<Error>> \in Seq({Error}) /\ <<>> \in Seq({Error})
    OBVIOUS
  <2> QED
    BY <1>2, <1>3, <2>1, HeardOne
<1>7. middle \in Seq(Tasks) /\ Heard(middle) = events
  <2>1. events \in Seq(Events)
    BY EventsAreEvents
  <2>2. middle \in Seq(Tasks) /\ DOMAIN middle = DOMAIN events
        /\ \A n \in DOMAIN events : middle[n].event = events[n]
    BY <1>2, <1>3, <2>1
  <2> HIDE DEF middle
  <2>3. events = [n \in DOMAIN events |-> events[n]]
    OBVIOUS
  <2> QED
    BY <2>2, <2>3 DEF Heard
<1> HIDE DEF open, middle, error
<1>8. open \o middle \in Seq(Tasks)
  BY <1>5, <1>7
<1>9. Heard(Queued(c, state, events)) = (Heard(open) \o events) \o Heard(error)
  <2>1. Heard((open \o middle) \o error) = Heard(open \o middle) \o Heard(error)
    BY <1>6, <1>8, HeardTyped
  <2>2. Heard(open \o middle) = Heard(open) \o Heard(middle)
    BY <1>5, <1>7, HeardTyped
  <2> QED
    BY <1>1, <1>7, <2>1, <2>2
<1> DEFINE o == Heard(open)  e == Heard(error)
<1>10. /\ o \in Seq(Told) /\ e \in Seq(Told)
  BY <1>5, <1>6, HeardTyped
<1>11. events \in Seq(Told)
  <2>1. events \in Seq(Events)
    BY EventsAreEvents
  <2> QED
    BY <2>1 DEF Told
<1>12. Among(o, WithData) = <<>> /\ Among(e, WithData) = <<>>
  <2>1. {Open} \cap WithData = {} /\ {Error} \cap WithData = {}
    BY <1>4
  <2> QED
    BY <1>5, <1>6, <2>1, AmongNone
<1>13. Among(events, WithData) = events
  BY AmongAll
<1> HIDE DEF o, e
<1>14. o \o events \in Seq(Told)
  BY <1>10, <1>11
<1>15. Among((o \o events) \o e, WithData)
           = (Among(o, WithData) \o Among(events, WithData)) \o Among(e, WithData)
  BY <1>10, <1>11, <1>14, AmongTold, Zenon
<1>16. (<<>> \o events) \o <<>> = events
  OBVIOUS
<1>17. Among((o \o events) \o e, WithData) = events
  BY <1>12, <1>13, <1>15, <1>16
<1> QED
  BY <1>9, <1>17, Zenon DEF o, e

(* What is queued is told later.                                           *)
LEMMA ToldMore ==
    \A s, t, u \in Seq(Told) :
        Among(s \o (t \o u), WithData) = Among(s \o t, WithData) \o Among(u, WithData)
<1> SUFFICES ASSUME NEW s \in Seq(Told), NEW t \in Seq(Told), NEW u \in Seq(Told)
             PROVE  Among(s \o (t \o u), WithData)
                        = Among(s \o t, WithData) \o Among(u, WithData)
  OBVIOUS
<1> DEFINE all == s \o t
<1>1. all \in Seq(Told) /\ s \o (t \o u) = all \o u
  OBVIOUS
<1> HIDE DEF all
<1>2. Among(all \o u, WithData) = Among(all, WithData) \o Among(u, WithData)
  BY <1>1, AmongTold, Zenon
<1> QED
  BY <1>1, <1>2, Zenon DEF all

(* And what is told is the beginning of it.                                *)
LEMMA ToldFirst ==
    ASSUME NEW before \in Seq(Told), NEW waiting \in Seq(Told),
           NEW story, Among(before \o waiting, WithData) = story
    PROVE  LET messages == Among(before, WithData)
           IN  Len(messages) <= Len(story) /\ messages = SubSeq(story, 1, Len(messages))
<1> DEFINE m == Among(before, WithData)  w == Among(waiting, WithData)
<1>1. m \in Seq(WithData) /\ w \in Seq(WithData) /\ story = m \o w
  BY AmongTold, Zenon
<1> HIDE DEF m, w
<1>2. Len(m) <= Len(m \o w) /\ m = SubSeq(m \o w, 1, Len(m))
  BY <1>1
<1> QED
  BY <1>1, <1>2 DEF m

-----------------------------------------------------------------------------
(***************************************************************************)
(* The invariant that says what is told                                    *)
(***************************************************************************)

(* What the connections have read of their texts.                          *)
ReadBy(cs, ts) == [c \in 1 .. Len(cs) |-> SubSeq(ts[c], 1, cs[c].offset)]

(* A reader, but for its events, stands where the last text was read to.   *)
StandsAt(r, reads) ==
    LET k == Len(reads)
    IN  IsRead(With(r, EventsOf(reads[k], Began(reads))), reads[k], Began(reads))

(* The connection that has a request is the last one; its data, name and   *)
(* id are what is left of the lines it has read, after their events.       *)
Reading ==
    /\ \A c \in Connections : closures[c].offset <= Len(texts[c])
    /\ lastEventId = LastId(Story)
    /\ xhr # None => /\ xhr = Len(closures)
                     /\ StandsAt(Reader(closures[xhr]), ReadBy(closures, texts))

TInv == IInv /\ Reading /\ ToldOnce

(* What was read are lines, as long as no offset is behind its text.       *)
LEMMA ReadByTyped ==
    ASSUME NEW cs \in Seq(Closures), NEW ts \in Seq(Seq(Lines)), Len(ts) = Len(cs),
           \A c \in 1 .. Len(cs) : cs[c].offset <= Len(ts[c])
    PROVE  /\ ReadBy(cs, ts) \in Seq(Seq(Lines)) /\ Len(ReadBy(cs, ts)) = Len(cs)
           /\ \A c \in 1 .. Len(cs) : ReadBy(cs, ts)[c] = SubSeq(ts[c], 1, cs[c].offset)
<1>1. ASSUME NEW c \in 1 .. Len(cs) PROVE SubSeq(ts[c], 1, cs[c].offset) \in Seq(Lines)
  <2>1. ts[c] \in Seq(Lines) /\ cs[c] \in Closures
    BY ElementOf
  <2> DEFINE text == ts[c]  b == cs[c].offset
  <2>2. text \in Seq(Lines) /\ b \in Nat /\ b <= Len(text)
    BY <2>1 DEF Closures
  <2> HIDE DEF text, b
  <2>3. SubSeq(text, 1, b) \in Seq(Lines)
    BY <2>2
  <2> QED
    BY <2>3 DEF text, b
<1>2. Len(cs) \in Nat
  OBVIOUS
<1> QED
  BY <1>1, <1>2 DEF ReadBy

(* Story, as a function of what was read.                                  *)
LEMMA StoryIsOfRead == Story = StoryOf(ReadBy(closures, texts))
BY DEF Story, ReadBy, Read, Connections

(* A text, read further or not.                                            *)
LEMMA TextFurther ==
    ASSUME NEW text \in Seq(Lines), NEW a \in Nat, a <= Len(text),
           NEW lines, lines \in {<<>>, SubSeq(text, a + 1, Len(text))}
    PROVE  /\ a + Len(lines) <= Len(text)
           /\ SubSeq(text, 1, a + Len(lines)) = SubSeq(text, 1, a) \o lines
<1>1. CASE lines = <<>>
  BY <1>1
<1>2. CASE lines = SubSeq(text, a + 1, Len(text))
  <2>1. Len(lines) = Len(text) - a
    BY <1>2
  <2>2. a + Len(lines) = Len(text)
    BY <2>1
  <2> DEFINE s == SubSeq(text, 1, a)  all == s \o lines
  <2>4. s \in Seq(Lines) /\ Len(s) = a /\ \A n \in 1 .. a : s[n] = text[n]
    OBVIOUS
  <2>5. lines \in Seq(Lines) /\ \A n \in 1 .. Len(text) - a : lines[n] = text[a + n]
    BY <1>2
  <2> HIDE DEF s
  <2>6. all \in Seq(Lines) /\ Len(all) = Len(text)
    BY <2>1, <2>4, <2>5
  <2>7. ASSUME NEW n \in 1 .. Len(text) PROVE all[n] = text[n]
    <3>1. CASE n <= a
      BY <2>4, <2>5, <3>1
    <3>2. CASE ~(n <= a)
      <4>1. n - a \in 1 .. Len(lines) /\ a + (n - a) = n
        BY <2>1, <3>2
      <4>2. all[n] = lines[n - a]
        BY <2>4, <2>5, <4>1
      <4> QED
        BY <2>1, <2>5, <4>1, <4>2
    <3> QED
      BY <3>1, <3>2
  <2> HIDE DEF all
  <2>8. all = text
    BY <2>6, <2>7
  <2>9. SubSeq(text, 1, Len(text)) = text
    OBVIOUS
  <2>3. SubSeq(text, 1, Len(text)) = SubSeq(text, 1, a) \o lines
    BY <2>8, <2>9 DEF all, s
  <2>10. SubSeq(text, 1, a + Len(lines)) = SubSeq(text, 1, a) \o lines
    BY <2>2, <2>3, Zenon
  <2>11. a + Len(lines) <= Len(text)
    BY <2>2
  <2> QED
    BY <2>10, <2>11
<1> QED
  BY <1>1, <1>2

(* A sequence of one element.                                              *)
LEMMA OneElement ==
    ASSUME NEW X, NEW s \in Seq(X), Len(s) = 1
    PROVE  s = Append(<<>>, s[1])
OBVIOUS

(* Nothing is read or told in the beginning.                               *)
LEMMA InitTold == Init => TInv
<1> SUFFICES ASSUME Init PROVE TInv
  OBVIOUS
<1>1. IInv
  BY InitInv
<1>2. closures = <<Closure("")>> /\ texts = <<<<>>>> /\ lastEventId = "" /\ xhr = 1
      /\ tasks = <<>> /\ told = <<>>
  BY DEF Init
<1> DEFINE reads == ReadBy(closures, texts)
<1>3. closures[1].offset = 0 /\ Len(closures) = 1 /\ texts[1] = <<>> /\ Len(texts) = 1
  BY <1>2 DEF Closure
<1>4. closures \in Seq(Closures) /\ texts \in Seq(Seq(Lines)) /\ Len(texts) = Len(closures)
  BY <1>1 DEF IInv, TypeOK
<1>21. \A c \in 1 .. Len(closures) : closures[c].offset <= Len(texts[c])
  <2>1. Len(<<>>) = 0 /\ \A c \in 1 .. 1 : c = 1
    OBVIOUS
  <2> QED
    BY <1>3, <2>1
<1>5. reads = Append(<<>>, <<>>)
  <2>1. reads \in Seq(Seq(Lines)) /\ Len(reads) = Len(closures)
        /\ \A c \in 1 .. Len(closures) : reads[c] = SubSeq(texts[c], 1, closures[c].offset)
    BY <1>4, <1>21, ReadByTyped
  <2> HIDE DEF reads
  <2>2. SubSeq(<<>>, 1, 0) = <<>> /\ 1 \in 1 .. 1
    OBVIOUS
  <2>3. Len(reads) = 1 /\ reads[1] = <<>>
    BY <1>3, <2>1, <2>2
  <2> QED
    BY <2>1, <2>3, OneElement
<1> DEFINE r == Reader(closures[1])
<1>6. r \in Readers /\ IsNew(r) /\ r.id = ""
  <2>1. r = [data |-> <<>>, name |-> "", id |-> "",
             lastEventId |-> lastEventId, retry |-> retry, events |-> <<>>]
    BY <1>2 DEF Reader, Closure
  <2>2. "" \in Ids /\ lastEventId \in Ids /\ retry \in Delays
    BY <1>1, ValuesAssumption DEF IInv, TypeOK
  <2> HIDE DEF r
  <2> QED
    BY <2>1, <2>2, NewReader
<1>7. StoryOf(<<>>) = <<>> /\ LastId(<<>>) = "" /\ <<>> \in Seq(Seq(Lines))
  BY StoryEmpty DEF LastId
<1> HIDE DEF r, reads
<1>8. /\ StoryOf(reads) = <<>>
      /\ IsRead(With(r, EventsOf(<<>>, Began(reads))), <<>>, Began(reads))
  BY <1>5, <1>6, <1>7, StoryBegins
<1>9. Story = <<>>
  BY <1>8, StoryIsOfRead DEF reads
<1>10. StandsAt(r, reads)
  <2>1. Len(reads) = 1 /\ reads[1] = <<>>
    BY <1>5
  <2> QED
    BY <1>8, <2>1 DEF StandsAt
<1>11. Reading
  <2>1. \A c \in Connections : closures[c].offset <= Len(texts[c])
    BY <1>21 DEF Connections
  <2>2. lastEventId = LastId(Story)
    BY <1>2, <1>7, <1>9
  <2>3. xhr = Len(closures) /\ StandsAt(Reader(closures[xhr]), reads)
    BY <1>2, <1>3, <1>10 DEF r
  <2> QED
    BY <2>1, <2>2, <2>3 DEF Reading, reads
<1>12. ToldOnce
  <2>1. told \o Waiting = <<>> /\ Among(<<>>, WithData) = <<>>
    <3>1. Waiting = Heard(tasks)
      BY DEF Waiting, Heard
    <3>2. Waiting = <<>>
      BY <1>2, <3>1, HeardOne, Zenon
    <3>3. <<>> \o <<>> = <<>>
      OBVIOUS
    <3> QED
      BY <1>2, <3>2, <3>3, AmongEmpty, Zenon
  <2>2. Among(told \o Waiting, WithData) = Story
    BY <1>9, <2>1, Zenon
  <2>3. Len(<<>>) = 0 /\ SubSeq(<<>>, 1, 0) = <<>>
    OBVIOUS
  <2>4. Among(told, WithData) = <<>>
    BY <1>2, <2>1
  <2> QED
    BY <1>9, <2>2, <2>3, <2>4 DEF ToldOnce
<1> QED
  BY <1>1, <1>11, <1>12 DEF TInv

(* A callback that reads.                                                  *)
LEMMA HandleTold ==
    ASSUME TInv, NEW c \in Connections, NEW state \in 2 .. 4, xhr = c,
           NEW timer \in {None, checkTimeout}, Handle(c, state, timer)
    PROVE  TInv'
<1> DEFINE me == closures[c]
           lines == NewLines(c, state)
           r == Reader(me)
           q == ReadLines(r, lines)
           new == [offset |-> me.offset + Len(lines),
                   charOffset |-> Len(ResponseText(c, state)),
                   opened |-> IsOpened(c), closed |-> state = 4,
                   data |-> q.data, name |-> q.name, id |-> q.id]
<1>1. /\ closures' = [closures EXCEPT ![c] = new]
      /\ lastEventId' = q.lastEventId /\ retry' = q.retry
      /\ tasks' = tasks \o Queued(c, state, q.events)
      /\ xhr' = IF state = 4 THEN None ELSE xhr
      /\ UNCHANGED <<readyState, told, texts>>
  BY DEF Handle, requestVars
<1>2. IInv'
  BY HandleInv DEF TInv
<1>3. /\ closures \in Seq(Closures) /\ texts \in Seq(Seq(Lines)) /\ Len(texts) = Len(closures)
      /\ closures' \in Seq(Closures) /\ texts' \in Seq(Seq(Lines)) /\ Len(texts') = Len(closures')
      /\ tasks \in Seq(Tasks) /\ told \in Seq(Told)
      /\ lastEventId \in Ids /\ retry \in Delays
  BY <1>2 DEF TInv, IInv, TypeOK, Tasks, Told
<1>4. /\ c = Len(closures) /\ c \in 1 .. Len(closures) /\ c # 0 /\ Len(closures) \in Nat
      /\ StandsAt(r, ReadBy(closures, texts)) /\ lastEventId = LastId(Story)
      /\ readyState # "CLOSED"
      /\ \A d \in 1 .. Len(closures) : closures[d].offset <= Len(texts[d])
  <2>1. xhr # None
    BY DEF Connections, None
  <2>2. c \in 1 .. Len(closures) /\ Len(closures) \in Nat
    BY <1>3 DEF Connections
  <2> QED
    BY <2>1, <2>2 DEF TInv, Reading, Connections, IInv, OneLife
<1>5. me \in Closures /\ me.offset \in Nat /\ me.opened \in BOOLEAN /\ texts[c] \in Seq(Lines)
  <2>1. me \in Closures /\ texts[c] \in Seq(Lines)
    BY <1>3, <1>4, ElementOf
  <2> HIDE DEF me
  <2> QED
    BY <2>1 DEF Closures
<1>6. lines \in Seq(Lines) /\ lines \in {<<>>, SubSeq(texts[c], me.offset + 1, Len(texts[c]))}
  <2>1. lines \in Seq(Lines)
    BY NewLinesTyped DEF TInv, IInv
  <2> QED
    BY <2>1 DEF NewLines
<1>7. r \in Readers /\ r.events = <<>> /\ r.lastEventId = lastEventId
  <2>1. <<>> \in Seq(Events)
    OBVIOUS
  <2>2. r = [data |-> me.data, name |-> me.name, id |-> me.id,
             lastEventId |-> lastEventId, retry |-> retry, events |-> <<>>]
    BY DEF Reader
  <2>3. me.data \in Seq(Data) /\ me.name \in Names /\ me.id \in Ids
    BY <1>5 DEF Closures
  <2> HIDE DEF r, me
  <2> QED
    BY <1>3, <2>1, <2>2, <2>3 DEF Readers
<1>8. q \in Readers
  BY <1>6, <1>7, ReadLinesTyped
<1> DEFINE reads == ReadBy(closures, texts)
           further == ReadBy(closures', texts')
<1> HIDE DEF lines, r, q
<1>9. /\ me.offset + Len(lines) <= Len(texts[c])
      /\ SubSeq(texts[c], 1, me.offset + Len(lines)) = SubSeq(texts[c], 1, me.offset) \o lines
  <2>1. me.offset <= Len(texts[c])
    BY <1>4
  <2> QED
    BY <1>5, <1>6, <2>1, TextFurther
<1>10. /\ Len(closures') = Len(closures) /\ closures'[c] = new
       /\ \A d \in 1 .. Len(closures) : d # c => closures'[d] = closures[d]
  <2> HIDE DEF new
  <2> QED
    BY <1>1, <1>3, <1>4
<1>11. closures'[c].offset = me.offset + Len(lines)
  BY <1>10
<1>21. \A d \in 1 .. Len(closures) : closures'[d].offset <= Len(texts'[d])
  <2> SUFFICES ASSUME NEW d \in 1 .. Len(closures) PROVE closures'[d].offset <= Len(texts'[d])
    OBVIOUS
  <2>1. CASE d = c
    BY <1>1, <1>9, <1>11, <2>1
  <2>2. CASE d # c
    BY <1>1, <1>4, <1>10, <2>2
  <2> QED
    BY <2>1, <2>2
<1>12. /\ reads \in Seq(Seq(Lines)) /\ Len(reads) = c
       /\ \A d \in 1 .. Len(closures) : reads[d] = SubSeq(texts[d], 1, closures[d].offset)
       /\ further \in Seq(Seq(Lines)) /\ Len(further) = c
       /\ \A d \in 1 .. Len(closures) : further[d] = SubSeq(texts'[d], 1, closures'[d].offset)
  <2>1. /\ reads \in Seq(Seq(Lines)) /\ Len(reads) = Len(closures)
        /\ \A d \in 1 .. Len(closures) : reads[d] = SubSeq(texts[d], 1, closures[d].offset)
    BY <1>3, <1>4, ReadByTyped
  <2>2. /\ further \in Seq(Seq(Lines)) /\ Len(further) = Len(closures')
        /\ \A d \in 1 .. Len(closures') : further[d] = SubSeq(texts'[d], 1, closures'[d].offset)
    BY <1>3, <1>10, <1>21, ReadByTyped
  <2> QED
    BY <1>4, <1>10, <2>1, <2>2
<1> HIDE DEF me, new, reads, further
<1>13. further[c] = reads[c] \o lines
  BY <1>1, <1>4, <1>9, <1>11, <1>12 DEF me
<1>14. \A d \in 1 .. c - 1 : further[d] = reads[d]
  <2> SUFFICES ASSUME NEW d \in 1 .. c - 1 PROVE further[d] = reads[d]
    OBVIOUS
  <2>1. d \in 1 .. Len(closures) /\ d # c
    BY <1>4
  <2> QED
    BY <1>1, <1>10, <1>12, <2>1
<1>15. r.lastEventId = LastId(StoryOf(reads))
  BY <1>4, <1>7, StoryIsOfRead DEF reads
<1>16. IsRead(With(r, EventsOf(reads[c], Began(reads))), reads[c], Began(reads))
  <2>1. StandsAt(r, reads)
    BY <1>4 DEF reads
  <2> QED
    BY <1>12, <2>1 DEF StandsAt
<1>17. /\ q.events \in Seq(WithData)
       /\ StoryOf(further) = StoryOf(reads) \o q.events
       /\ q.lastEventId = LastId(StoryOf(further))
       /\ IsRead(With(q, EventsOf(further[c], Began(further))), further[c], Began(further))
  BY <1>4, <1>6, <1>7, <1>12, <1>13, <1>14, <1>15, <1>16, StoryFurther DEF q
<1>18. Story = StoryOf(reads) /\ Story' = StoryOf(further)
  <2>1. Story' = StoryOf(further)
    BY DEF Story, ReadBy, Read, Connections, further
  <2> QED
    BY <2>1, StoryIsOfRead DEF reads
<1>19. Reading'
  <2>2. lastEventId' = LastId(Story')
    BY <1>1, <1>17, <1>18
  <2>3. ASSUME xhr' # None PROVE xhr' = Len(closures') /\ StandsAt(Reader(closures[xhr])', further)
    <3>1. xhr' = c
      BY <1>1, <2>3
    <3> DEFINE p == Reader(closures[xhr])'
    <3>2. p.data = q.data /\ p.name = q.name /\ p.id = q.id
      <4>1. p = [data |-> closures'[c].data, name |-> closures'[c].name, id |-> closures'[c].id,
                 lastEventId |-> lastEventId', retry |-> retry', events |-> <<>>]
        BY <3>1 DEF Reader
      <4> HIDE DEF p
      <4> QED
        BY <1>10, <4>1 DEF new
    <3>3. p \in Readers
      <4>1. closures'[c] \in Closures /\ <<>> \in Seq(Events)
        BY <1>3, <1>4, <1>10, ElementOf
      <4>2. lastEventId' \in Ids /\ retry' \in Delays
        BY <1>2 DEF IInv, TypeOK
      <4>3. closures'[c].data \in Seq(Data) /\ closures'[c].name \in Names /\ closures'[c].id \in Ids
        BY <4>1 DEF Closures
      <4> QED
        BY <3>1, <4>1, <4>2, <4>3 DEF Reader, Readers
    <3> HIDE DEF p
    <3> DEFINE events == EventsOf(further[c], Began(further))
    <3>4. events \in Seq(Events)
      BY <1>4, <1>12, StoryParts
    <3> HIDE DEF events
    <3>5. /\ With(p, events).data = With(q, events).data /\ With(p, events).name = With(q, events).name
          /\ With(p, events).id = With(q, events).id /\ With(p, events).events = With(q, events).events
      BY <1>8, <3>2, <3>3, <3>4, WithTyped
    <3>6. IsRead(With(q, events), further[c], Began(further))
      BY <1>17 DEF events
    <3>7. IsRead(With(p, events), further[c], Began(further))
      BY <3>5, <3>6, Zenon DEF IsRead
    <3>8. StandsAt(p, further)
      BY <1>12, <3>7 DEF StandsAt, events
    <3> QED
      BY <1>4, <1>10, <3>1, <3>8 DEF p
  <2> QED
    BY <1>10, <1>21, <2>2, <2>3 DEF Reading, Connections, further
<1>20. ToldOnce'
  <2> DEFINE heard == Heard(tasks)
             more == Heard(Queued(c, state, q.events))
  <2>1. Queued(c, state, q.events) \in Seq(Tasks)
    <3>1. q.events \in Seq(Events)
      BY <1>17, EventsAreEvents
    <3>2. IsQueue(Queued(c, state, q.events), c, state, q.events)
      BY <1>5, <3>1, QueuedIs DEF me
    <3> QED
      BY <3>2 DEF IsQueue
  <2>2. heard \in Seq(Told) /\ more \in Seq(Told) /\ Heard(tasks \o Queued(c, state, q.events)) = heard \o more
    BY <1>3, <2>1, HeardTyped
  <2>3. Waiting = heard /\ Waiting' = heard \o more
    <3>1. Waiting' = Heard(tasks')
      BY DEF Waiting, Heard
    <3>2. Waiting = heard
      BY DEF Waiting, Heard
    <3> QED
      BY <1>1, <2>2, <3>1, <3>2
  <2>4. Among(more, WithData) = q.events
    BY <1>5, <1>17, QueuedHeard DEF me
  <2>5. Among(told \o heard, WithData) = Story
    BY <1>4, <2>3, Zenon DEF TInv, ToldOnce
  <2> HIDE DEF heard, more
  <2>6. Among(told \o (heard \o more), WithData) = Story \o q.events
    <3>1. Among(told \o (heard \o more), WithData)
              = Among(told \o heard, WithData) \o Among(more, WithData)
      BY <1>3, <2>2, ToldMore, Zenon
    <3> QED
      BY <2>4, <2>5, <3>1, Zenon
  <2>7. Among(told' \o Waiting', WithData) = Story'
    BY <1>1, <1>17, <1>18, <2>3, <2>6, Zenon
  <2>8. told' \in Seq(Told) /\ Waiting' \in Seq(Told)
    <3>1. heard \o more \in Seq(Told)
      BY <2>2
    <3> QED
      BY <1>1, <1>3, <2>3, <3>1
  <2>9. LET messages == Among(told', WithData)
        IN  Len(messages) <= Len(Story') /\ messages = SubSeq(Story', 1, Len(messages))
    BY <2>7, <2>8, ToldFirst
  <2> QED
    BY <2>7, <2>9, Zenon DEF ToldOnce, WithData
<1> QED
  BY <1>2, <1>19, <1>20 DEF TInv

(* What was read of a text that has one more line.                         *)
LEMMA LongerText ==
    ASSUME NEW X, NEW text \in Seq(X), NEW b \in Nat, b <= Len(text), NEW line \in X
    PROVE  /\ Len(text) <= Len(Append(text, line))
           /\ SubSeq(Append(text, line), 1, b) = SubSeq(text, 1, b)
OBVIOUS

(* A sequence with one more element.                                       *)
LEMMA OneMoreElement ==
    ASSUME NEW X, NEW s \in Seq(X), NEW t \in Seq(X), Len(t) = Len(s) + 1,
           \A n \in 1 .. Len(s) : t[n] = s[n]
    PROVE  t = Append(s, t[Len(s) + 1])
OBVIOUS

(* The head of a queue, at the end of what was heard.                      *)
LEMMA FromQueue ==
    ASSUME NEW queue \in Seq(Tasks), queue # <<>>, NEW heard \in Seq(Told)
    PROVE  LET more == Append(heard, Head(queue).event)
           IN  /\ more \o Heard(Tail(queue)) = heard \o Heard(queue)
               /\ more \in Seq(Told) /\ Heard(Tail(queue)) \in Seq(Told)
<1> DEFINE task == Head(queue)  rest == Tail(queue)  x == task.event  later == Heard(rest)
<1>1. task \in Tasks /\ rest \in Seq(Tasks) /\ queue = <<task>> \o rest
  BY TailFacts, HeadBeforeTail
<1> HIDE DEF task, rest
<1>2. <<task>> \in Seq(Tasks) /\ Heard(<<task>>) = <<x>>
  BY <1>1, HeardOne
<1>3. Heard(<<task>> \o rest) = Heard(<<task>>) \o later /\ later \in Seq(Told)
  BY <1>1, <1>2, HeardTyped
<1>4. Heard(queue) = <<x>> \o later
  BY <1>1, <1>2, <1>3
<1>5. x \in Told
  BY <1>1 DEF Tasks, Told
<1> HIDE DEF x, later, Told
<1>6. Append(heard, x) \o later = heard \o (<<x>> \o later) /\ Append(heard, x) \in Seq(Told)
  BY <1>3, <1>5
<1> QED
  BY <1>3, <1>4, <1>6 DEF task, rest, x, later

(* A step that reads nothing.                                              *)
LEMMA NotReading ==
    ASSUME TInv, IInv', UNCHANGED <<closures, lastEventId, retry>>, xhr' \in {xhr, None},
           \A c \in Connections : /\ Len(texts[c]) <= Len(texts'[c])
                                  /\ SubSeq(texts'[c], 1, closures[c].offset) = Read(c)
    PROVE  Reading' /\ Story' = Story
<1> DEFINE reads == ReadBy(closures, texts)
<1>1. ReadBy(closures', texts') = reads
  BY DEF ReadBy, Read, Connections
<1>2. Story' = Story
  <2>1. Story' = StoryOf(ReadBy(closures', texts'))
    BY DEF Story, ReadBy, Read, Connections
  <2> QED
    BY <1>1, <2>1, StoryIsOfRead
<1>3. ASSUME NEW c \in Connections PROVE closures[c].offset <= Len(texts'[c])
  <2>1. c \in 1 .. Len(closures) /\ closures \in Seq(Closures)
        /\ texts \in Seq(Seq(Lines)) /\ Len(texts) = Len(closures)
        /\ texts' \in Seq(Seq(Lines)) /\ Len(texts') = Len(closures')
    BY DEF TInv, IInv, TypeOK, Connections
  <2>2. closures[c] \in Closures /\ texts[c] \in Seq(Lines) /\ texts'[c] \in Seq(Lines)
    BY <2>1, ElementOf
  <2>3. closures[c].offset \in Nat /\ Len(texts[c]) \in Nat /\ Len(texts'[c]) \in Nat
    BY <2>2 DEF Closures
  <2>4. closures[c].offset <= Len(texts[c])
    BY DEF TInv, Reading
  <2> QED
    BY <2>3, <2>4
<1>4. lastEventId' = LastId(Story')
  BY <1>2 DEF TInv, Reading
<1>5. ASSUME xhr' # None
      PROVE  xhr' = Len(closures') /\ StandsAt(Reader(closures[xhr])', ReadBy(closures', texts'))
  <2>1. xhr' = xhr /\ xhr # None
    BY <1>5
  <2>2. Reader(closures[xhr])' = Reader(closures[xhr])
    BY <2>1 DEF Reader
  <2> QED
    BY <1>1, <2>1, <2>2 DEF TInv, Reading
<1>6. Reading'
  BY <1>3, <1>4, <1>5 DEF Reading, Connections
<1> QED
  BY <1>2, <1>6

(* A step that tells nothing and queues nothing.                           *)
LEMMA NotTelling ==
    ASSUME TInv, Story' = Story, UNCHANGED <<tasks, told>>,
           readyState' \in {readyState, "CLOSED"}
    PROVE  ToldOnce'
<1>1. Waiting' = Waiting
  BY DEF Waiting
<1> QED
  BY <1>1, Zenon DEF TInv, ToldOnce, WithData

(* A new connection has read nothing, and knows the id of the last event.  *)
LEMMA ReconnectTold ==
    ASSUME TInv, Reconnect
    PROVE  TInv'
<1> DEFINE new == Closure(lastEventId)
           reads == ReadBy(closures, texts)
           further == ReadBy(closures', texts')
           k == Len(closures)
<1>1. /\ UNCHANGED <<readyState, lastEventId, retry, tasks, told>>
      /\ xhr' = k + 1 /\ closures' = Append(closures, new)
      /\ texts' = Append(texts, <<>>)
  BY DEF Reconnect, OpenConnection
<1>2. IInv'
  BY ReconnectInv DEF TInv
<1>3. /\ closures \in Seq(Closures) /\ texts \in Seq(Seq(Lines)) /\ Len(texts) = k
      /\ closures' \in Seq(Closures) /\ texts' \in Seq(Seq(Lines)) /\ Len(texts') = Len(closures')
      /\ lastEventId \in Ids /\ retry \in Delays /\ k \in Nat
  BY <1>2 DEF TInv, IInv, TypeOK
<1>4. new.offset = 0
  BY DEF Closure
<1>5. /\ Len(closures') = k + 1 /\ closures'[k + 1] = new
      /\ \A c \in 1 .. k : closures'[c] = closures[c]
  <2>1. new \in Closures
    <3>1. Len(closures') \in Nat /\ Len(closures') = k + 1 /\ closures'[k + 1] = new
      BY <1>1, <1>3
    <3>2. k + 1 \in 1 .. Len(closures')
      BY <1>3, <3>1
    <3> QED
      BY <1>3, <3>1, <3>2, ElementOf
  <2> HIDE DEF new
  <2> QED
    BY <1>1, <1>3, <2>1
<1>6. /\ Len(texts') = k + 1 /\ texts'[k + 1] = <<>>
      /\ \A c \in 1 .. k : texts'[c] = texts[c]
  <2>1. <<>> \in Seq(Lines)
    OBVIOUS
  <2> QED
    BY <1>1, <1>3, <2>1
<1>7. \A c \in 1 .. k : closures[c].offset <= Len(texts[c])
  BY DEF TInv, Reading, Connections
<1>8. \A c \in 1 .. k + 1 : closures'[c].offset <= Len(texts'[c])
  <2> SUFFICES ASSUME NEW c \in 1 .. k + 1 PROVE closures'[c].offset <= Len(texts'[c])
    OBVIOUS
  <2>1. CASE c = k + 1
    <3>1. Len(<<>>) = 0
      OBVIOUS
    <3> HIDE DEF new
    <3>2. closures'[k + 1].offset = 0
      BY <1>4, <1>5
    <3>3. closures'[c].offset = 0 /\ Len(texts'[c]) = 0
      BY <1>6, <2>1, <3>1, <3>2, Zenon
    <3> QED
      BY <3>3
  <2>2. CASE c # k + 1
    <3>1. c \in 1 .. k
      BY <1>3, <2>2
    <3>2. closures'[c] = closures[c] /\ texts'[c] = texts[c]
      BY <1>5, <1>6, <3>1
    <3> QED
      BY <1>7, <3>1, <3>2, Zenon
  <2> QED
    BY <2>1, <2>2
<1>9. /\ reads \in Seq(Seq(Lines)) /\ Len(reads) = k
      /\ \A c \in 1 .. k : reads[c] = SubSeq(texts[c], 1, closures[c].offset)
  BY <1>3, <1>7, ReadByTyped
<1>10. /\ further \in Seq(Seq(Lines)) /\ Len(further) = k + 1
       /\ \A c \in 1 .. k + 1 : further[c] = SubSeq(texts'[c], 1, closures'[c].offset)
  BY <1>3, <1>5, <1>8, ReadByTyped
<1> HIDE DEF new, reads, further
<1>11. further[k + 1] = <<>>
  <2>1. SubSeq(<<>>, 1, 0) = <<>> /\ k + 1 \in 1 .. k + 1
    BY <1>3
  <2> QED
    BY <1>4, <1>5, <1>6, <1>10, <2>1
<1>12. \A c \in 1 .. k : further[c] = reads[c]
  <2> SUFFICES ASSUME NEW c \in 1 .. k PROVE further[c] = reads[c]
    OBVIOUS
  <2>1. c \in 1 .. k + 1
    BY <1>3
  <2> QED
    BY <1>5, <1>6, <1>9, <1>10, <2>1
<1>13. further = Append(reads, <<>>)
  BY <1>9, <1>10, <1>11, <1>12, OneMoreElement
<1> DEFINE r == Reader(closures[xhr])'
<1>14. r \in Readers /\ IsNew(r) /\ r.id = lastEventId
  <2>1. r = [data |-> <<>>, name |-> "", id |-> lastEventId,
             lastEventId |-> lastEventId, retry |-> retry, events |-> <<>>]
    <3>1. closures'[xhr'] = new
      BY <1>1, <1>5
    <3>2. new.data = <<>> /\ new.name = "" /\ new.id = lastEventId
      BY DEF new, Closure
    <3>3. r = [data |-> closures'[xhr'].data, name |-> closures'[xhr'].name,
               id |-> closures'[xhr'].id, lastEventId |-> lastEventId',
               retry |-> retry', events |-> <<>>]
      BY DEF Reader
    <3> HIDE DEF r
    <3> QED
      BY <1>1, <3>1, <3>2, <3>3
  <2> HIDE DEF r
  <2> QED
    BY <1>3, <2>1, NewReader, Zenon
<1> HIDE DEF r
<1>15. lastEventId = LastId(StoryOf(reads)) /\ Story = StoryOf(reads)
  BY StoryIsOfRead DEF TInv, Reading, reads
<1>16. /\ StoryOf(further) = StoryOf(reads)
       /\ IsRead(With(r, EventsOf(<<>>, Began(further))), <<>>, Began(further))
  BY <1>9, <1>13, <1>14, <1>15, StoryBegins
<1>17. Story' = StoryOf(further)
  BY DEF Story, ReadBy, Read, Connections, further
<1>18. StandsAt(r, further)
  BY <1>10, <1>11, <1>16 DEF StandsAt
<1>19. Reading'
  <2>1. lastEventId' = LastId(Story')
    BY <1>1, <1>15, <1>16, <1>17
  <2>2. xhr' = Len(closures') /\ StandsAt(r, further)
    BY <1>1, <1>5, <1>18
  <2> QED
    BY <1>5, <1>8, <2>1, <2>2 DEF Reading, Connections, r, further
<1>20. ToldOnce'
  <2>1. Story' = Story
    BY <1>15, <1>16, <1>17
  <2> QED
    BY <1>1, <2>1, NotTelling
<1> QED
  BY <1>2, <1>19, <1>20 DEF TInv

(* A task that runs moves an event from those queued to those told.        *)
LEMMA RunTaskTold ==
    ASSUME TInv, RunTask
    PROVE  TInv'
<1>1. /\ tasks # <<>> /\ tasks' = Tail(tasks)
      /\ UNCHANGED <<lastEventId, retry, xhr, closures, texts>>
      /\ readyState = "CLOSED" => UNCHANGED <<readyState, told>>
      /\ readyState # "CLOSED" => told' = Append(told, Head(tasks).event)
  BY DEF RunTask, requestVars
<1>2. IInv'
  BY RunTaskInv DEF TInv
<1>3. Reading' /\ Story' = Story
  <2>1. ASSUME NEW c \in Connections
        PROVE  /\ Len(texts[c]) <= Len(texts'[c])
               /\ SubSeq(texts'[c], 1, closures[c].offset) = Read(c)
    <3>1. texts[c] \in Seq(Lines)
      BY DEF TInv, IInv, TypeOK, Connections
    <3> QED
      BY <1>1, <3>1 DEF Read
  <2> QED
    BY <1>1, <1>2, <2>1, NotReading
<1>4. tasks \in Seq(Tasks) /\ told \in Seq(Told)
  BY DEF TInv, IInv, TypeOK, Tasks, Told
<1>5. ToldOnce'
  <2>1. CASE readyState = "CLOSED"
    <3>1. readyState' = "CLOSED" /\ told' = told
      BY <1>1, <2>1
    <3> QED
      BY <1>3, <3>1, Zenon DEF TInv, ToldOnce, WithData
  <2>2. CASE readyState # "CLOSED"
    <3>1. told' \o Waiting' = told \o Waiting /\ told' \in Seq(Told) /\ Waiting' \in Seq(Told)
      <4>1. Waiting = Heard(tasks) /\ Waiting' = Heard(Tail(tasks))
        BY <1>1 DEF Waiting, Heard
      <4> QED
        BY <1>1, <1>4, <2>2, <4>1, FromQueue
    <3>2. Among(told \o Waiting, WithData) = Story
      BY <2>2, Zenon DEF TInv, ToldOnce
    <3>3. Among(told' \o Waiting', WithData) = Story'
      BY <1>3, <3>1, <3>2, Zenon
    <3>4. LET messages == Among(told', WithData)
          IN  Len(messages) <= Len(Story') /\ messages = SubSeq(Story', 1, Len(messages))
      BY <3>1, <3>3, ToldFirst
    <3> QED
      BY <3>3, <3>4, Zenon DEF ToldOnce, WithData
  <2> QED
    BY <2>1, <2>2
<1> QED
  BY <1>2, <1>3, <1>5 DEF TInv

(* What leaves the texts as they are, tells nothing and queues nothing.    *)
LEMMA IdleTold ==
    ASSUME TInv, IInv', UNCHANGED <<closures, texts, lastEventId, retry, tasks, told>>,
           xhr' \in {xhr, None}, readyState' \in {readyState, "CLOSED"}
    PROVE  TInv'
<1>1. ASSUME NEW c \in Connections
      PROVE  /\ Len(texts[c]) <= Len(texts'[c])
             /\ SubSeq(texts'[c], 1, closures[c].offset) = Read(c)
  <2>1. texts[c] \in Seq(Lines)
    BY DEF TInv, IInv, TypeOK, Connections
  <2> QED
    BY <2>1 DEF Read
<1>2. Reading' /\ Story' = Story
  BY <1>1, NotReading
<1>3. ToldOnce'
  BY <1>2, NotTelling
<1> QED
  BY <1>2, <1>3 DEF TInv

(* A line that arrives is behind those that were read.                     *)
LEMMA ReceiveTold ==
    ASSUME TInv, NEW stream \in Streams, Receive(stream)
    PROVE  TInv'
<1> DEFINE line == stream[Len(texts[xhr]) + 1]
<1>1. /\ UNCHANGED <<sourceVars, tasks, told>>
      /\ xhr \in Connections
      /\ Len(texts[xhr]) < Len(stream)
      /\ texts' = [texts EXCEPT ![xhr] = Append(texts[xhr], line)]
  BY DEF Receive, Alive, TInv, IInv, TypeOK
<1>2. IInv'
  BY ServerInv DEF TInv
<1>3. /\ texts \in Seq(Seq(Lines)) /\ closures \in Seq(Closures) /\ Len(texts) = Len(closures)
      /\ stream \in Seq(Lines)
  BY StreamsAssumption DEF TInv, IInv, TypeOK
<1>4. ASSUME NEW c \in Connections
      PROVE  /\ Len(texts[c]) <= Len(texts'[c])
             /\ SubSeq(texts'[c], 1, closures[c].offset) = Read(c)
  <2> DEFINE text == texts[c]  b == closures[c].offset
  <2>1. text \in Seq(Lines) /\ b \in Nat /\ b <= Len(text) /\ c \in 1 .. Len(texts)
    <3>1. text \in Seq(Lines) /\ closures[c] \in Closures /\ c \in 1 .. Len(texts)
      BY <1>3 DEF Connections
    <3>2. b <= Len(text)
      BY DEF TInv, Reading
    <3> QED
      BY <3>1, <3>2 DEF Closures
  <2>2. CASE c = xhr
    <3>1. texts'[c] = Append(text, line)
      BY <1>1, <1>3, <2>1, <2>2
    <3>2. line \in Lines
      <4> DEFINE n == Len(texts[xhr]) + 1
      <4>1. n \in 1 .. Len(stream)
        BY <1>1, <1>3, <2>1, <2>2
      <4> HIDE DEF n
      <4>2. stream[n] \in Lines
        BY <1>3, <4>1, ElementOf
      <4> QED
        BY <4>2 DEF n
    <3> HIDE DEF text, b, line
    <3>3. Len(text) <= Len(Append(text, line)) /\ SubSeq(Append(text, line), 1, b) = SubSeq(text, 1, b)
      BY <2>1, <3>2, LongerText
    <3> QED
      BY <3>1, <3>3, Zenon DEF Read, text, b
  <2>3. CASE c # xhr
    <3>1. texts'[c] = text
      BY <1>1, <1>3, <2>1, <2>3
    <3>2. Len(text) <= Len(text)
      BY <2>1
    <3> QED
      BY <3>1, <3>2, Zenon DEF Read
  <2> QED
    BY <2>2, <2>3
<1>5. UNCHANGED <<closures, lastEventId, retry, xhr, readyState>>
  BY <1>1 DEF sourceVars
<1>6. Reading' /\ Story' = Story
  BY <1>2, <1>4, <1>5, NotReading
<1>7. ToldOnce'
  BY <1>1, <1>5, <1>6, NotTelling
<1> QED
  BY <1>2, <1>6, <1>7 DEF TInv

(* Every step keeps the invariant.                                         *)
LEMMA NextTold == TInv /\ [Next]_vars => TInv'
<1> SUFFICES ASSUME TInv, [Next]_vars PROVE TInv'
  OBVIOUS
<1>1. IInv'
  BY NextInv DEF TInv
<1>2. ASSUME NEW c \in Connections, NEW state \in 2 .. 4, Callback(c, state) PROVE TInv'
  <2>1. CASE closures[c].closed
    <3>1. UNCHANGED vars
      BY <1>2, <2>1 DEF Callback, OnReadyStateChange
    <3> QED
      BY <1>1, <3>1, IdleTold DEF vars, sourceVars, requestVars
  <2>2. CASE ~closures[c].closed
    <3>1. xhr = c /\ Handle(c, state, checkTimeout)
      BY <1>2, <2>2 DEF Callback, OnReadyStateChange
    <3> QED
      BY <3>1, HandleTold
  <2> QED
    BY <2>1, <2>2
<1>3. CASE CheckTimer
  <2>1. checkTimeout # None /\ checkTimeout = xhr /\ checkTimeout \in Connections
    BY <1>3 DEF CheckTimer, TInv, IInv, OneLife, TypeOK
  <2>2. CASE InState(xhr, 3) /\ ~closures[checkTimeout].closed
    <3>1. Handle(checkTimeout, 3, None)
      BY <1>3, <2>2 DEF CheckTimer, OnReadyStateChange
    <3>2. 3 \in 2 .. 4 /\ None \in {None, checkTimeout}
      OBVIOUS
    <3> QED
      BY <2>1, <3>1, <3>2, HandleTold
  <2>3. CASE InState(xhr, 3) /\ closures[checkTimeout].closed
    <3>1. UNCHANGED vars
      BY <1>3, <2>3 DEF CheckTimer, OnReadyStateChange
    <3> QED
      BY <1>1, <3>1, IdleTold DEF vars, sourceVars, requestVars
  <2>4. CASE ~InState(xhr, 3)
    BY <1>1, <1>3, <2>4, IdleTold DEF CheckTimer, requestVars
  <2> QED
    BY <2>2, <2>3, <2>4
<1>4. CASE Reconnect
  BY <1>4, ReconnectTold
<1>5. CASE RunTask
  BY <1>5, RunTaskTold
<1>6. CASE Close
  BY <1>1, <1>6, IdleTold DEF Close, requestVars
<1>7. ASSUME NEW type \in {"event-stream", "other"}, Answer(type) PROVE TInv'
  BY <1>1, <1>7, IdleTold DEF Answer, sourceVars
<1>8. ASSUME NEW stream \in Streams, Receive(stream) PROVE TInv'
  BY <1>8, ReceiveTold
<1>9. ASSUME NEW how \in {"complete", "broken"}, EndRequest(how) PROVE TInv'
  BY <1>1, <1>9, IdleTold DEF EndRequest, sourceVars
<1>10. CASE UNCHANGED vars
  BY <1>1, <1>10, IdleTold DEF vars, sourceVars, requestVars
<1> QED
  BY <1>2, <1>3, <1>4, <1>5, <1>6, <1>7, <1>8, <1>9, <1>10 DEF Next

(* ToldOnceAlways: every event in the lines read of all connections' texts *)
(* is told once, in order, with its own id and type, into however many     *)
(* pieces callbacks and the check timer cut a text, and however many       *)
(* connections follow one another; once the source is closed, what was     *)
(* told is a beginning of it (eventsource.js 136-290).                     *)
THEOREM ToldOnceAlways == Spec => []ToldOnce
<1>1. TInv => ToldOnce
  BY DEF TInv
<1>2. Spec => []TInv
  BY InitTold, NextTold, PTL DEF Spec
<1> QED
  BY <1>1, <1>2, PTL
=============================================================================
