---------------------------- MODULE Subsequences ----------------------------
(***************************************************************************)
(* The elements of a sequence that are in a set, in their order: SelectSeq *)
(* with a set in place of the test, and a recursive function, so that it   *)
(* can be reasoned about.                                                  *)
(***************************************************************************)
EXTENDS Naturals, Sequences

AppendIf(list, x, S) == IF x \in S THEN Append(list, x) ELSE list

Among(s, S) ==
    LET upTo[n \in 0 .. Len(s)] == IF n = 0 THEN <<>> ELSE AppendIf(upTo[n - 1], s[n], S)
    IN  upTo[Len(s)]
=============================================================================
