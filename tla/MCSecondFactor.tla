--------------------------- MODULE MCSecondFactor ---------------------------
(* Small instances of SecondFactor.  Requests are interchangeable: every    *)
(* quantifier over them is symmetric.                                       *)
EXTENDS SecondFactor, TLC

RequestSymmetry == Permutations(Request)

=============================================================================
