------------------------------- MODULE Loops -------------------------------
(***************************************************************************)
(* The two loops over a list that the code writes as a comprehension with  *)
(* a condition and as sum(...).  They are recursive functions rather than  *)
(* SelectSeq and a fold because the proofs need to expand them.            *)
(***************************************************************************)
EXTENDS Integers, Sequences

\* [x for x in s if x in keep]
Matching(s, keep) ==
  LET upTo[n \in 0..Len(s)] ==
        IF n = 0 THEN <<>>
        ELSE IF s[n] \in keep THEN Append(upTo[n - 1], s[n])
        ELSE upTo[n - 1]
  IN  upTo[Len(s)]

\* sum(numbers)
Total(numbers) ==
  LET upTo[n \in 0..Len(numbers)] ==
        IF n = 0 THEN 0 ELSE upTo[n - 1] + numbers[n]
  IN  upTo[Len(numbers)]
=============================================================================
