----------------------------- MODULE SequenceFacts ----------------------------
(***************************************************************************)
(* Facts about sequences that the proofs share: what it does to a queue to *)
(* append to it and to take its head; induction over the length of a       *)
(* sequence; and what module Subsequences selects.                         *)
(***************************************************************************)
EXTENDS Subsequences, WellFoundedInduction, TLAPS

(* Appending an element keeps the others where they are.                   *)
LEMMA AppendFacts ==
    ASSUME NEW S, NEW s \in Seq(S), NEW x \in S
    PROVE  /\ Append(s, x) \in Seq(S)
           /\ Len(Append(s, x)) = Len(s) + 1
           /\ DOMAIN Append(s, x) = 1 .. Len(s) + 1
           /\ DOMAIN s = 1 .. Len(s) /\ Len(s) \in Nat
           /\ \A i \in DOMAIN s : Append(s, x)[i] = s[i]
           /\ Append(s, x)[Len(s) + 1] = x
  OBVIOUS

(* Taking the head moves the others one place up.                          *)
LEMMA TailFacts ==
    ASSUME NEW S, NEW s \in Seq(S), s # <<>>
    PROVE  /\ Head(s) \in S /\ Head(s) = s[1] /\ 1 \in DOMAIN s
           /\ Tail(s) \in Seq(S)
           /\ Len(Tail(s)) = Len(s) - 1 /\ Len(s) \in Nat /\ Len(s) > 0
           /\ DOMAIN Tail(s) = 1 .. Len(s) - 1
           /\ \A i \in DOMAIN Tail(s) : Tail(s)[i] = s[i + 1] /\ i + 1 \in DOMAIN s
           /\ \A i \in DOMAIN s : i # 1 => i - 1 \in DOMAIN Tail(s) /\ Tail(s)[i - 1] = s[i]
  OBVIOUS

(* To append to the second of two is to append to both.                    *)
LEMMA ConcatAppend ==
    ASSUME NEW X, NEW s \in Seq(X), NEW t \in Seq(X), NEW x \in X
    PROVE  Append(s \o t, x) = s \o Append(t, x)
  OBVIOUS

(* Nothing on either side changes a sequence.                              *)
LEMMA ConcatEmpty ==
    ASSUME NEW X, NEW s \in Seq(X)
    PROVE  s \o <<>> = s /\ <<>> \o s = s
  OBVIOUS

(* The second of two stands behind the first.                              *)
LEMMA ConcatFacts ==
    ASSUME NEW X, NEW s \in Seq(X), NEW t \in Seq(X)
    PROVE  /\ s \o t \in Seq(X) /\ Len(s \o t) = Len(s) + Len(t)
           /\ Len(s) \in Nat /\ Len(t) \in Nat
           /\ \A n \in 1 .. Len(s) : (s \o t)[n] = s[n]
           /\ \A n \in 1 .. Len(t) : (s \o t)[Len(s) + n] = t[n]
  OBVIOUS

(* Three sequences, one after the other.                                   *)
LEMMA ConcatAssoc ==
    ASSUME NEW X, NEW s \in Seq(X), NEW t \in Seq(X), NEW u \in Seq(X)
    PROVE  (s \o t) \o u = s \o (t \o u)
  OBVIOUS

(* The head of the second may as well be the last of the first.            *)
LEMMA HeadMoved ==
    ASSUME NEW X, NEW s \in Seq(X), NEW t \in Seq(X), t # <<>>
    PROVE  Append(s, Head(t)) \o Tail(t) = s \o t
  OBVIOUS

(* The head before the tail is the queue.                                  *)
LEMMA HeadBeforeTail ==
    ASSUME NEW X, NEW s \in Seq(X), s # <<>>
    PROVE  /\ s = <<Head(s)>> \o Tail(s)
           /\ <<Head(s)>> \in Seq(X)
  OBVIOUS
-----------------------------------------------------------------------------
(***************************************************************************)
(* Induction over the length of a queue, or of any sequence: on sets of    *)
(* natural numbers, since no prover here can take an operator.             *)
(***************************************************************************)

Less == {p \in Nat \X Nat : p[1] < p[2]}

(* The library's fact, for a relation without an operator parameter.       *)
LEMMA LessWF == IsWellFoundedOn(Less, Nat)
BY NatLessThanWellFounded DEF OpToRel, Less

(* A set of natural numbers has a least element.                           *)
LEMMA LeastNatural ==
    ASSUME NEW T \in SUBSET Nat, T # {}
    PROVE  \E x \in T : \A y \in T : x <= y
<1>1. PICK x \in T : \A y \in T : ~ (<<y, x>> \in Less)
  BY LessWF, WFMin
<1>2. ASSUME NEW y \in T PROVE x <= y
  <2>1. x \in Nat /\ y \in Nat
    OBVIOUS
  <2>2. ~ (y < x)
    <3>1. <<y, x>> \in Nat \X Nat /\ <<y, x>>[1] = y /\ <<y, x>>[2] = x
      BY <2>1
    <3> QED
      BY <1>1, <3>1 DEF Less
  <2> QED
    BY <2>1, <2>2
<1> QED
  BY <1>2

(* Sets of numbers that hold 0 and the successor of each are all of Nat.   *)
LEMMA Induction ==
    ASSUME NEW T \in SUBSET Nat, 0 \in T, \A n \in T : n + 1 \in T
    PROVE  T = Nat
<1>1. SUFFICES ASSUME Nat \ T # {} PROVE FALSE
  OBVIOUS
<1>2. PICK x \in Nat \ T : \A y \in Nat \ T : x <= y
  BY <1>1, LeastNatural
<1>3. x - 1 \in Nat
  BY <1>2
<1>4. x - 1 \in T
  BY <1>2, <1>3
<1> QED
  BY <1>2, <1>4

(* A sequence that is not empty is another one with an element appended.   *)
LEMMA LastOne ==
    ASSUME NEW X, NEW s \in Seq(X), s # <<>>
    PROVE  \E t \in Seq(X), x \in X : s = Append(t, x) /\ Len(s) = Len(t) + 1
<1> DEFINE n == Len(s) - 1
           t == [i \in 1 .. n |-> s[i]]
<1>1. n \in Nat /\ Len(s) = n + 1 /\ s[n + 1] \in X
  OBVIOUS
<1> HIDE DEF n
<1>2. t \in Seq(X) /\ Len(t) = n /\ \A i \in 1 .. n : t[i] = s[i]
  BY <1>1
<1> HIDE DEF t
<1>3. s = Append(t, s[n + 1])
  BY <1>1, <1>2
<1> QED
  BY <1>1, <1>2, <1>3

(* A set of sequences that holds the empty one and with each one all that  *)
(* have one element more holds all of them.                                *)
LEMMA SequenceInduction ==
    ASSUME NEW X, NEW T \in SUBSET Seq(X), <<>> \in T,
           \A s \in T : \A x \in X : Append(s, x) \in T
    PROVE  T = Seq(X)
<1> DEFINE N == {n \in Nat : \A s \in Seq(X) : Len(s) = n => s \in T}
<1>1. 0 \in N
  <2>1. ASSUME NEW s \in Seq(X), Len(s) = 0 PROVE s = <<>>
    BY <2>1
  <2> QED
    BY <2>1
<1>2. ASSUME NEW n \in N PROVE n + 1 \in N
  <2>1. ASSUME NEW s \in Seq(X), Len(s) = n + 1 PROVE s \in T
    <3>1. s # <<>>
      BY <2>1
    <3>2. PICK t \in Seq(X), x \in X : s = Append(t, x) /\ Len(s) = Len(t) + 1
      BY <3>1, LastOne
    <3>3. Len(t) = n
      BY <2>1, <3>2
    <3>4. t \in T
      BY <3>3
    <3> QED
      BY <3>2, <3>4
  <2> QED
    BY <2>1
<1>3. N \in SUBSET Nat
  OBVIOUS
<1> HIDE DEF N
<1>4. N = Nat
  BY <1>1, <1>2, <1>3, Induction
<1>5. ASSUME NEW s \in Seq(X) PROVE s \in T
  <2>1. Len(s) \in N
    BY <1>4
  <2> QED
    BY <2>1 DEF N
<1> QED
  BY <1>5
-----------------------------------------------------------------------------
(***************************************************************************)
(* Module Subsequences                                                     *)
(***************************************************************************)

(* g[n] is what is selected of the first n elements, as far as element k.  *)
IsSelection(g, k, s, S) ==
    g = [n \in 0 .. k |-> IF n = 0 THEN <<>> ELSE AppendIf(g[n - 1], s[n], S)]

(* There is such a function for each k: one more element extends it.       *)
LEMMA SelectionExists ==
    ASSUME NEW s, NEW S
    PROVE  \A k \in Nat : \E g : IsSelection(g, k, s, S)
<1> DEFINE T == {k \in Nat : \E g : IsSelection(g, k, s, S)}
<1>1. 0 \in T
  <2>1. IsSelection([n \in 0 .. 0 |-> <<>>], 0, s, S)
    BY DEF IsSelection
  <2> QED
    BY <2>1
<1>2. ASSUME NEW k \in T PROVE k + 1 \in T
  <2>1. PICK g : IsSelection(g, k, s, S)
    OBVIOUS
  <2> DEFINE h == [n \in 0 .. k + 1 |-> IF n = 0 THEN <<>> ELSE AppendIf(g[n - 1], s[n], S)]
  <2>2. \A n \in 0 .. k : h[n] = g[n]
    <3>1. ASSUME NEW n \in 0 .. k
          PROVE  g[n] = IF n = 0 THEN <<>> ELSE AppendIf(g[n - 1], s[n], S)
      BY <2>1, Zenon DEF IsSelection
    <3>2. ASSUME NEW n \in 0 .. k
          PROVE  h[n] = IF n = 0 THEN <<>> ELSE AppendIf(g[n - 1], s[n], S)
      <4>1. n \in 0 .. k + 1
        OBVIOUS
      <4> QED
        BY <4>1
    <3> HIDE DEF h
    <3> QED
      BY <3>1, <3>2
  <2>3. h = [n \in 0 .. k + 1 |-> IF n = 0 THEN <<>> ELSE AppendIf(h[n - 1], s[n], S)]
    <3>1. ASSUME NEW n \in 0 .. k + 1, n # 0 PROVE h[n - 1] = g[n - 1]
      <4>1. n - 1 \in 0 .. k
        BY <3>1
      <4> HIDE DEF h
      <4> QED
        BY <2>2, <4>1
    <3> HIDE DEF h
    <3>2. \A n \in 0 .. k + 1 : (IF n = 0 THEN <<>> ELSE AppendIf(g[n - 1], s[n], S))
                                   = (IF n = 0 THEN <<>> ELSE AppendIf(h[n - 1], s[n], S))
      BY <3>1
    <3>3. h = [n \in 0 .. k + 1 |-> IF n = 0 THEN <<>> ELSE AppendIf(g[n - 1], s[n], S)]
      BY DEF h
    <3> QED
      BY <3>2, <3>3, Zenon
  <2>4. IsSelection(h, k + 1, s, S)
    BY <2>3 DEF IsSelection
  <2> QED
    BY <2>4
<1> HIDE DEF T
<1>3. T = Nat
  <2>1. T \in SUBSET Nat
    BY DEF T
  <2> QED
    BY <1>1, <1>2, <2>1, Induction
<1> QED
  BY <1>3 DEF T

(* Among is the value of one of them at the last element.                  *)
LEMMA AmongIs ==
    ASSUME NEW s, NEW S, Len(s) \in Nat
    PROVE  \E g : /\ Among(s, S) = g[Len(s)]
                  /\ g[0] = <<>>
                  /\ \A n \in 1 .. Len(s) : g[n] = AppendIf(g[n - 1], s[n], S)
<1> DEFINE upTo[n \in 0 .. Len(s)] == IF n = 0 THEN <<>> ELSE AppendIf(upTo[n - 1], s[n], S)
<1>1. \E g : IsSelection(g, Len(s), s, S)
  BY SelectionExists
<1>2. upTo = [n \in 0 .. Len(s) |-> IF n = 0 THEN <<>> ELSE AppendIf(upTo[n - 1], s[n], S)]
  BY <1>1 DEF IsSelection
<1>3. Among(s, S) = upTo[Len(s)]
  BY DEF Among
<1> HIDE DEF upTo
<1> QED
  BY <1>2, <1>3

(* Of nothing, nothing is selected.                                        *)
LEMMA AmongEmpty ==
    ASSUME NEW S
    PROVE  Among(<<>>, S) = <<>>
<1>1. Len(<<>>) = 0
  OBVIOUS
<1>2. PICK g : Among(<<>>, S) = g[0] /\ g[0] = <<>>
  BY <1>1, AmongIs
<1> QED
  BY <1>2

(* One more element is selected, or it is not.                             *)
LEMMA AmongAppend ==
    ASSUME NEW X, NEW s \in Seq(X), NEW x \in X, NEW S
    PROVE  Among(Append(s, x), S) = AppendIf(Among(s, S), x, S)
<1> DEFINE t == Append(s, x)  k == Len(s)
<1>1. k \in Nat /\ Len(t) = k + 1 /\ t[k + 1] = x /\ \A n \in 1 .. k : t[n] = s[n]
  OBVIOUS
<1> HIDE DEF t
<1>2. PICK f : /\ Among(s, S) = f[k] /\ f[0] = <<>>
               /\ \A n \in 1 .. k : f[n] = AppendIf(f[n - 1], s[n], S)
  BY <1>1, AmongIs
<1>3. PICK g : /\ Among(t, S) = g[k + 1] /\ g[0] = <<>>
               /\ \A n \in 1 .. k + 1 : g[n] = AppendIf(g[n - 1], t[n], S)
  <2>1. Len(t) \in Nat
    BY <1>1
  <2> QED
    BY <1>1, <2>1, AmongIs
<1> DEFINE T == {n \in Nat : n <= k => g[n] = f[n]}
<1>4. T = Nat
  <2>1. 0 \in T
    BY <1>2, <1>3
  <2>2. ASSUME NEW n \in T PROVE n + 1 \in T
    <3> SUFFICES ASSUME n + 1 <= k PROVE g[n + 1] = f[n + 1]
      OBVIOUS
    <3>1. g[n] = f[n] /\ n + 1 \in 1 .. k /\ n + 1 \in 1 .. k + 1 /\ (n + 1) - 1 = n
      BY <1>1
    <3>2. g[n + 1] = AppendIf(g[n], t[n + 1], S) /\ f[n + 1] = AppendIf(f[n], s[n + 1], S)
      BY <1>2, <1>3, <3>1
    <3> QED
      BY <1>1, <3>1, <3>2
  <2>3. T \in SUBSET Nat
    OBVIOUS
  <2> HIDE DEF T
  <2> QED
    BY <2>1, <2>2, <2>3, Induction
<1>5. g[k] = f[k]
  BY <1>1, <1>4
<1>6. g[k + 1] = AppendIf(g[k], x, S)
  <2>1. k + 1 \in 1 .. k + 1 /\ (k + 1) - 1 = k
    BY <1>1
  <2> QED
    BY <1>1, <1>3, <2>1
<1> QED
  BY <1>2, <1>3, <1>5, <1>6 DEF t

(* What is selected is in the set, and of the type of the sequence.        *)
LEMMA AmongType ==
    ASSUME NEW X, NEW s \in Seq(X), NEW S
    PROVE  Among(s, S) \in Seq(X \cap S)
<1> DEFINE T == {t \in Seq(X) : Among(t, S) \in Seq(X \cap S)}
<1>1. <<>> \in T
  <2>1. <<>> \in Seq(X) /\ <<>> \in Seq(X \cap S)
    OBVIOUS
  <2> QED
    BY <2>1, AmongEmpty
<1>2. ASSUME NEW t \in T, NEW x \in X PROVE Append(t, x) \in T
  <2>1. Among(Append(t, x), S) = AppendIf(Among(t, S), x, S)
    BY AmongAppend
  <2>2. AppendIf(Among(t, S), x, S) \in Seq(X \cap S)
    BY DEF AppendIf
  <2> QED
    BY <2>1, <2>2
<1>3. T \in SUBSET Seq(X)
  OBVIOUS
<1> HIDE DEF T
<1>4. T = Seq(X)
  BY <1>1, <1>2, <1>3, SequenceInduction
<1> QED
  BY <1>4 DEF T

(* What is appended goes behind what was there.                            *)
LEMMA AppendIfBehind ==
    ASSUME NEW X, NEW s \in Seq(X), NEW t \in Seq(X), NEW x \in X, NEW S
    PROVE  AppendIf(s \o t, x, S) = s \o AppendIf(t, x, S)
<1>1. Append(s \o t, x) = s \o Append(t, x)
  OBVIOUS
<1> QED
  BY <1>1, Zenon DEF AppendIf

(* It is selected of two sequences, one after the other, piece by piece.   *)
LEMMA AmongConcat ==
    ASSUME NEW X, NEW s \in Seq(X), NEW t \in Seq(X), NEW S
    PROVE  Among(s \o t, S) = Among(s, S) \o Among(t, S)
<1> DEFINE T == {u \in Seq(X) : Among(s \o u, S) = Among(s, S) \o Among(u, S)}
<1>1. Among(s, S) \in Seq(X)
  <2>1. Among(s, S) \in Seq(X \cap S)
    BY AmongType
  <2> QED
    BY <2>1
<1>2. <<>> \in T
  <2>1. <<>> \in Seq(X) /\ s \o <<>> = s /\ Among(s, S) \o <<>> = Among(s, S)
    BY <1>1, ConcatEmpty
  <2> QED
    BY <2>1, AmongEmpty
<1>3. ASSUME NEW u \in T, NEW x \in X PROVE Append(u, x) \in T
  <2>1. s \o Append(u, x) = Append(s \o u, x) /\ s \o u \in Seq(X)
    BY ConcatAppend
  <2>2. Among(Append(s \o u, x), S) = AppendIf(Among(s \o u, S), x, S)
    BY <2>1, AmongAppend
  <2>3. Among(Append(u, x), S) = AppendIf(Among(u, S), x, S)
    BY AmongAppend
  <2>4. Among(u, S) \in Seq(X)
    <3>1. Among(u, S) \in Seq(X \cap S)
      BY AmongType
    <3> QED
      BY <3>1
  <2>5. AppendIf(Among(s, S) \o Among(u, S), x, S) = Among(s, S) \o AppendIf(Among(u, S), x, S)
    BY <1>1, <2>4, AppendIfBehind
  <2>6. Among(s \o Append(u, x), S) = Among(s, S) \o Among(Append(u, x), S)
    <3>1. Among(s \o u, S) = Among(s, S) \o Among(u, S)
      OBVIOUS
    <3> HIDE DEF T
    <3> QED
      BY <2>1, <2>2, <2>3, <2>5, <3>1, Zenon
  <2>7. Append(u, x) \in Seq(X)
    OBVIOUS
  <2> QED
    BY <2>6, <2>7
<1>4. T \in SUBSET Seq(X)
  OBVIOUS
<1> HIDE DEF T
<1>5. T = Seq(X)
  BY <1>2, <1>3, <1>4, SequenceInduction
<1> QED
  BY <1>5 DEF T

(* A sequence of members is selected as it is.                             *)
LEMMA AmongAll ==
    ASSUME NEW S, NEW X, X \subseteq S, NEW s \in Seq(X)
    PROVE  Among(s, S) = s
<1> DEFINE T == {t \in Seq(X) : Among(t, S) = t}
<1>1. <<>> \in T
  BY AmongEmpty
<1>2. ASSUME NEW t \in T, NEW x \in X PROVE Append(t, x) \in T
  <2>1. Among(Append(t, x), S) = AppendIf(t, x, S)
    BY AmongAppend
  <2> QED
    BY <2>1 DEF AppendIf
<1>3. T \in SUBSET Seq(X)
  OBVIOUS
<1> HIDE DEF T
<1>4. T = Seq(X)
  BY <1>1, <1>2, <1>3, SequenceInduction
<1> QED
  BY <1>4 DEF T

(* And of a sequence of others, nothing is.                                *)
LEMMA AmongNone ==
    ASSUME NEW S, NEW X, X \cap S = {}, NEW s \in Seq(X)
    PROVE  Among(s, S) = <<>>
<1> DEFINE T == {t \in Seq(X) : Among(t, S) = <<>>}
<1>1. <<>> \in T
  BY AmongEmpty
<1>2. ASSUME NEW t \in T, NEW x \in X PROVE Append(t, x) \in T
  <2>1. Among(Append(t, x), S) = AppendIf(<<>>, x, S)
    BY AmongAppend
  <2> QED
    BY <2>1 DEF AppendIf
<1>3. T \in SUBSET Seq(X)
  OBVIOUS
<1> HIDE DEF T
<1>4. T = Seq(X)
  BY <1>1, <1>2, <1>3, SequenceInduction
<1> QED
  BY <1>4 DEF T

(* What is selected stands in the sequence, in the same order.             *)
LEMMA AmongFrom ==
    ASSUME NEW X, NEW s \in Seq(X), NEW S
    PROVE  \E h \in [1 .. Len(Among(s, S)) -> 1 .. Len(s)] :
               /\ \A n \in 1 .. Len(Among(s, S)) : Among(s, S)[n] = s[h[n]]
               /\ \A m, n \in 1 .. Len(Among(s, S)) : m < n => h[m] < h[n]
<1> DEFINE P(t) == \E h \in [1 .. Len(Among(t, S)) -> 1 .. Len(t)] :
                      /\ \A n \in 1 .. Len(Among(t, S)) : Among(t, S)[n] = t[h[n]]
                      /\ \A m, n \in 1 .. Len(Among(t, S)) : m < n => h[m] < h[n]
           T == {t \in Seq(X) : P(t)}
<1>1. <<>> \in T
  <2>1. Among(<<>>, S) = <<>> /\ Len(<<>>) = 0 /\ <<>> \in Seq(X)
    BY AmongEmpty
  <2> DEFINE h == [n \in 1 .. 0 |-> 1]
  <2>2. h \in [1 .. Len(Among(<<>>, S)) -> 1 .. Len(<<>>)]
    BY <2>1
  <2> HIDE DEF h
  <2>3. 1 .. Len(Among(<<>>, S)) = {}
    BY <2>1
  <2>4. P(<<>>)
    BY <2>2, <2>3
  <2> HIDE DEF P
  <2> QED
    BY <2>1, <2>4
<1>2. ASSUME NEW t \in T, NEW x \in X PROVE Append(t, x) \in T
  <2> DEFINE A == Among(t, S)  k == Len(A)  u == Append(t, x)
  <2>1. t \in Seq(X) /\ u \in Seq(X) /\ Len(u) = Len(t) + 1 /\ Len(t) \in Nat
    OBVIOUS
  <2>2. (\A n \in 1 .. Len(t) : u[n] = t[n]) /\ u[Len(t) + 1] = x
    OBVIOUS
  <2>3. A \in Seq(X) /\ k \in Nat
    <3>1. A \in Seq(X \cap S)
      BY AmongType
    <3> QED
      BY <3>1
  <2>4. PICK h \in [1 .. k -> 1 .. Len(t)] :
            /\ \A n \in 1 .. k : A[n] = t[h[n]]
            /\ \A m, n \in 1 .. k : m < n => h[m] < h[n]
    OBVIOUS
  <2>5. Among(u, S) = AppendIf(A, x, S)
    BY AmongAppend
  <2> HIDE DEF T, A, u
  <2>6. CASE x \notin S
    <3>1. Among(u, S) = A
      BY <2>5, <2>6 DEF AppendIf
    <3>2. ASSUME NEW n \in 1 .. k PROVE h[n] \in 1 .. Len(t) /\ h[n] \in 1 .. Len(u)
      <4>1. h[n] \in 1 .. Len(t)
        BY <2>4
      <4> QED
        BY <2>1, <4>1
    <3>4. h \in [1 .. k -> 1 .. Len(u)]
      BY <2>4, <3>2
    <3>5. \A n \in 1 .. k : A[n] = u[h[n]]
      BY <2>2, <2>4, <3>2
    <3>3. P(u)
      BY <2>4, <3>1, <3>4, <3>5
    <3> QED
      BY <2>1, <3>3 DEF T, u
  <2>7. CASE x \in S
    <3>1. Among(u, S) = Append(A, x)
      BY <2>5, <2>7 DEF AppendIf
    <3>2. Len(Append(A, x)) = k + 1 /\ Append(A, x)[k + 1] = x
          /\ \A n \in 1 .. k : Append(A, x)[n] = A[n]
      BY <2>3
    <3> DEFINE g == [n \in 1 .. k + 1 |-> IF n = k + 1 THEN Len(t) + 1 ELSE h[n]]
    <3>3. \A n \in 1 .. k : n \in 1 .. k + 1 /\ n # k + 1 /\ h[n] \in 1 .. Len(t)
      BY <2>3, <2>4
    <3>4. g \in [1 .. k + 1 -> 1 .. Len(u)] /\ g[k + 1] = Len(t) + 1 /\ \A n \in 1 .. k : g[n] = h[n]
      BY <2>1, <2>3, <3>3
    <3> HIDE DEF g, k
    <3>5. ASSUME NEW n \in 1 .. k + 1 PROVE Append(A, x)[n] = u[g[n]]
      <4>1. CASE n = k + 1
        BY <2>2, <3>2, <3>4, <4>1
      <4>2. CASE n \in 1 .. k
        BY <2>2, <2>4, <3>2, <3>3, <3>4, <4>2
      <4> QED
        BY <2>3, <4>1, <4>2 DEF k
    <3>6. ASSUME NEW m \in 1 .. k + 1, NEW n \in 1 .. k + 1, m < n PROVE g[m] < g[n]
      <4>1. m \in 1 .. k
        BY <2>3, <3>6 DEF k
      <4>2. CASE n = k + 1
        BY <2>1, <3>3, <3>4, <4>1, <4>2
      <4>3. CASE n \in 1 .. k
        BY <2>4, <3>4, <3>6, <4>1, <4>3
      <4> QED
        BY <2>3, <4>2, <4>3 DEF k
    <3>7. P(u)
      BY <3>1, <3>2, <3>4, <3>5, <3>6
    <3> QED
      BY <2>1, <3>7 DEF T, u
  <2> QED
    BY <2>6, <2>7
<1>3. T \in SUBSET Seq(X)
  OBVIOUS
<1> HIDE DEF T
<1>4. T = Seq(X)
  BY <1>1, <1>2, <1>3, SequenceInduction
<1> QED
  BY <1>4 DEF T

(* To select twice is to select from both sets at once.                    *)
LEMMA AmongAmong ==
    ASSUME NEW X, NEW s \in Seq(X), NEW A, NEW B
    PROVE  Among(Among(s, A), B) = Among(s, A \cap B)
<1> DEFINE T == {t \in Seq(X) : Among(Among(t, A), B) = Among(t, A \cap B)}
<1>1. <<>> \in T
  <2>1. <<>> \in Seq(X)
    OBVIOUS
  <2> QED
    BY <2>1, AmongEmpty
<1>2. ASSUME NEW t \in T, NEW x \in X PROVE Append(t, x) \in T
  <2>1. Append(t, x) \in Seq(X) /\ t \in Seq(X) /\ Among(Among(t, A), B) = Among(t, A \cap B)
    OBVIOUS
  <2>2. Among(t, A) \in Seq(X)
    <3>1. Among(t, A) \in Seq(X \cap A)
      BY AmongType
    <3> QED
      BY <3>1
  <2>3. Among(Append(t, x), A) = AppendIf(Among(t, A), x, A)
    BY <2>1, AmongAppend
  <2>4. Among(Append(t, x), A \cap B) = AppendIf(Among(t, A \cap B), x, A \cap B)
    BY <2>1, AmongAppend
  <2>5. Among(Append(Among(t, A), x), B) = AppendIf(Among(Among(t, A), B), x, B)
    BY <2>2, AmongAppend
  <2> HIDE DEF T
  <2>6. Among(Among(Append(t, x), A), B) = Among(Append(t, x), A \cap B)
    <3>1. CASE x \in A
      <4>1. Among(Append(t, x), A) = Append(Among(t, A), x)
        BY <2>3, <3>1 DEF AppendIf
      <4>2. Among(Among(Append(t, x), A), B) = AppendIf(Among(t, A \cap B), x, B)
        BY <2>1, <2>5, <4>1
      <4>3. x \in B <=> x \in A \cap B
        BY <3>1
      <4> QED
        BY <2>4, <4>2, <4>3 DEF AppendIf
    <3>2. CASE x \notin A
      BY <2>1, <2>3, <2>4, <3>2, Zenon DEF AppendIf
    <3> QED
      BY <3>1, <3>2
  <2> QED
    BY <2>1, <2>6 DEF T
<1>3. T \in SUBSET Seq(X)
  OBVIOUS
<1> HIDE DEF T
<1>4. T = Seq(X)
  BY <1>1, <1>2, <1>3, SequenceInduction
<1> QED
  BY <1>4 DEF T

(* What is selected of a queue: its head or not, and then the rest.        *)
LEMMA AmongHead ==
    ASSUME NEW X, NEW s \in Seq(X), s # <<>>, NEW S
    PROVE  /\ Head(s) \in X
           /\ Among(s, S) \in Seq(X) /\ Among(Tail(s), S) \in Seq(X)
           /\ Head(s) \in S => Among(s, S) = <<Head(s)>> \o Among(Tail(s), S)
           /\ Head(s) \notin S => Among(s, S) = Among(Tail(s), S)
<1> DEFINE x == Head(s)  t == Tail(s)  u == Among(t, S)
<1>1. x \in X /\ t \in Seq(X) /\ s = <<x>> \o t /\ <<x>> \in Seq(X)
  BY TailFacts, HeadBeforeTail
<1>2. u \in Seq(X) /\ Among(s, S) \in Seq(X)
  <2>1. Among(t, S) \in Seq(X \cap S) /\ Among(s, S) \in Seq(X \cap S)
    BY <1>1, AmongType
  <2> QED
    BY <2>1
<1>3. Among(<<x>> \o t, S) = Among(<<x>>, S) \o Among(t, S)
  <2>1. \A a, b \in Seq(X) : Among(a \o b, S) = Among(a, S) \o Among(b, S)
    BY AmongConcat
  <2> QED
    BY <1>1, <2>1, Zenon
<1>4. Among(<<x>>, S) = IF x \in S THEN <<x>> ELSE <<>>
  <2>1. <<>> \in Seq(X) /\ Append(<<>>, x) = <<x>>
    BY <1>1
  <2>2. Among(Append(<<>>, x), S) = AppendIf(Among(<<>>, S), x, S)
    BY <1>1, <2>1, AmongAppend
  <2> QED
    BY <2>1, <2>2, AmongEmpty, Zenon DEF AppendIf
<1>5. Among(s, S) = Among(<<x>>, S) \o u
  BY <1>1, <1>3, Zenon
<1> HIDE DEF x, t, u
<1>6. x \in S => Among(s, S) = <<x>> \o u
  BY <1>4, <1>5
<1>7. x \notin S => Among(s, S) = u
  <2>1. <<>> \o u = u
    BY <1>2
  <2> QED
    BY <1>4, <1>5, <2>1
<1> QED
  BY <1>1, <1>2, <1>6, <1>7 DEF x, t, u

(* What is selected behind the head of a queue.                            *)
LEMMA AmongTail ==
    ASSUME NEW X, NEW s \in Seq(X), s # <<>>, NEW S
    PROVE  /\ Among(s, S) \in Seq(X) /\ Among(Tail(s), S) \in Seq(X)
           /\ Head(s) \in S => /\ Among(s, S) # <<>>
                               /\ Among(Tail(s), S) = Tail(Among(s, S))
                               /\ Len(Among(s, S)) = Len(Among(Tail(s), S)) + 1
           /\ Head(s) \notin S => Among(Tail(s), S) = Among(s, S)
<1> DEFINE x == Head(s)  u == Among(Tail(s), S)
<1>1. x \in X /\ u \in Seq(X)
  BY AmongHead
<1> HIDE DEF x, u
<1>2. <<x>> \o u # <<>> /\ Tail(<<x>> \o u) = u /\ Len(<<x>> \o u) = Len(u) + 1
  BY <1>1
<1> QED
  BY <1>2, AmongHead DEF x, u

(* Of a sequence in which an element is at one place at most, it is        *)
(* selected once at most.                                                  *)
LEMMA AmongOnce ==
    ASSUME NEW X, NEW s \in Seq(X), NEW x,
           \A m, n \in 1 .. Len(s) : s[m] = s[n] => m = n
    PROVE  Len(Among(s, {x})) \in {0, 1}
<1> DEFINE S == {x}  q == Among(s, S)
<1>1. q \in Seq(X \cap S)
  BY AmongType
<1>2. PICK h \in [1 .. Len(q) -> 1 .. Len(s)] :
          /\ \A n \in 1 .. Len(q) : q[n] = s[h[n]]
          /\ \A m, n \in 1 .. Len(q) : m < n => h[m] < h[n]
  BY AmongFrom
<1> HIDE DEF q
<1>3. Len(q) \in Nat /\ \A n \in 1 .. Len(q) : q[n] = x
  <2>1. \A n \in 1 .. Len(q) : q[n] \in X \cap S
    BY <1>1
  <2> QED
    BY <1>1, <2>1
<1> HIDE DEF S
<1>4. ASSUME Len(q) \notin {0, 1} PROVE FALSE
  <2>1. 1 \in 1 .. Len(q) /\ 2 \in 1 .. Len(q)
    <3> DEFINE k == Len(q)
    <3>1. k \in Nat /\ k # 0 /\ k # 1
      BY <1>3, <1>4
    <3> HIDE DEF k
    <3>2. 1 \in 1 .. k /\ 2 \in 1 .. k
      BY <3>1
    <3> QED
      BY <3>2 DEF k
  <2>2. s[h[1]] = s[h[2]] /\ h[1] \in 1 .. Len(s) /\ h[2] \in 1 .. Len(s)
    BY <1>2, <1>3, <2>1
  <2>3. h[1] < h[2] /\ h[1] \in Nat
    BY <1>2, <2>1, <2>2
  <2>4. h[1] = h[2]
    BY <2>2
  <2> QED
    BY <2>3, <2>4
<1> QED
  BY <1>4 DEF q, S

(* Only the members of the sequence matter.                                *)
LEMMA AmongSame ==
    ASSUME NEW X, NEW s \in Seq(X), NEW A, NEW B, X \cap A = X \cap B
    PROVE  Among(s, A) = Among(s, B)
<1>1. Among(s, X) = s
  BY AmongAll
<1>2. Among(Among(s, X), A) = Among(s, X \cap A) /\ Among(Among(s, X), B) = Among(s, X \cap B)
  BY AmongAmong
<1> QED
  BY <1>1, <1>2

(* What is in the set is selected.                                         *)
LEMMA AmongKeeps ==
    ASSUME NEW X, NEW s \in Seq(X), NEW S, NEW n \in 1 .. Len(s), s[n] \in S
    PROVE  \E m \in 1 .. Len(Among(s, S)) : Among(s, S)[m] = s[n]
<1> DEFINE P(t) == \A k \in 1 .. Len(t) :
                      t[k] \in S => \E m \in 1 .. Len(Among(t, S)) : Among(t, S)[m] = t[k]
           T == {t \in Seq(X) : P(t)}
<1>1. <<>> \in T
  OBVIOUS
<1>2. ASSUME NEW t \in T, NEW x \in X PROVE Append(t, x) \in T
  <2> DEFINE a == Among(t, S)  b == Among(Append(t, x), S)
  <2>1. b = AppendIf(a, x, S) /\ a \in Seq(X \cap S)
    BY AmongAppend, AmongType
  <2>2. t \in Seq(X) /\ P(t)
    OBVIOUS
  <2> HIDE DEF a, b
  <2>3. ASSUME NEW m \in 1 .. Len(a) PROVE m \in 1 .. Len(b) /\ b[m] = a[m]
    BY <2>1 DEF AppendIf
  <2>4. x \in S => Len(b) \in 1 .. Len(b) /\ b[Len(b)] = x
    BY <2>1 DEF AppendIf
  <2>5. ASSUME NEW k \in 1 .. Len(Append(t, x)), Append(t, x)[k] \in S
        PROVE  \E m \in 1 .. Len(b) : b[m] = Append(t, x)[k]
    <3>1. CASE k = Len(t) + 1
      BY <2>2, <2>4, <2>5, <3>1
    <3>2. CASE k # Len(t) + 1
      <4>1. k \in 1 .. Len(t) /\ Append(t, x)[k] = t[k]
        BY <2>2, <3>2
      <4>2. PICK m \in 1 .. Len(a) : a[m] = t[k]
        BY <2>2, <2>5, <4>1 DEF a
      <4> QED
        BY <2>3, <4>1, <4>2
    <3> QED
      BY <3>1, <3>2
  <2>6. Append(t, x) \in Seq(X)
    BY <2>2
  <2>7. P(Append(t, x))
    BY <2>5 DEF b
  <2> QED
    BY <2>6, <2>7
<1>3. T \in SUBSET Seq(X)
  OBVIOUS
<1> HIDE DEF T
<1>4. T = Seq(X)
  BY <1>1, <1>2, <1>3, SequenceInduction
<1> QED
  BY <1>4 DEF T
=============================================================================
