------------------------------ MODULE SeqFolds ------------------------------
(***************************************************************************)
(* What a loop over a sequence makes of it.  Both are recursive functions  *)
(* over its positions, so that their laws can be proved (Recursion).       *)
(***************************************************************************)
EXTENDS Naturals, Sequences

\* The values of the elements of s that value is defined for, in order.
Selected(s, value) ==
  LET upTo[i \in 0 .. Len(s)] ==
        IF i = 0 THEN << >>
        ELSE IF s[i] \in DOMAIN value THEN Append(upTo[i - 1], value[s[i]])
        ELSE upTo[i - 1]
  IN upTo[Len(s)]

\* The sum of a sequence of numbers.
SumOf(s) ==
  LET upTo[i \in 0 .. Len(s)] == IF i = 0 THEN 0 ELSE upTo[i - 1] + s[i]
  IN upTo[Len(s)]
=============================================================================
