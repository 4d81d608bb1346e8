------------------------------ MODULE Positions ------------------------------
(* Parts of a sequence, in a form that can be reasoned about: SelectSeq and   *)
(* the like take an operator, which the provers cannot expand.                *)
EXTENDS Naturals, Sequences

\* What is at these positions, in their order.
SelectPositions(s, at) ==
    LET upTo[n \in 0..Len(s)] == IF n = 0 THEN <<>>
                                 ELSE IF n \in at THEN Append(upTo[n - 1], s[n])
                                 ELSE upTo[n - 1]
    IN upTo[Len(s)]

\* Without what is in S.
Omit(s, S) == SelectPositions(s, {i \in DOMAIN s : s[i] \notin S})
=============================================================================
