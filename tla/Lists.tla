------------------------------- MODULE Lists --------------------------------
(* What the frontend does with arrays.                                       *)
EXTENDS Naturals, Sequences

\* The elements of s at the places that pass, in the order of s: Array.prototype.filter,
\* as a recursive function.
Filter(s, passes) ==
  LET kept[i \in 0..Len(s)] ==
        IF i = 0 THEN <<>>
        ELSE IF passes[i] THEN Append(kept[i - 1], s[i]) ELSE kept[i - 1]
  IN  kept[Len(s)]

=============================================================================
