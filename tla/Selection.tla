------------------------------ MODULE Selection ------------------------------
(***************************************************************************)
(* SelectSeq with the test given as a set, so that what it selects can be  *)
(* proved: no prover here can instantiate an operator that is an argument. *)
(***************************************************************************)
EXTENDS Naturals, Sequences

\* The elements of s that are in R, in their order.
Among(s, R) ==
    LET among[n \in 0 .. Len(s)] ==
            IF n = 0 THEN <<>>
            ELSE IF s[n] \in R THEN Append(among[n - 1], s[n]) ELSE among[n - 1]
    IN  among[Len(s)]
=============================================================================
