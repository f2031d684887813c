-------------------------- MODULE MCSessionFamily --------------------------
(***************************************************************************)
(* Small instances of SessionFamily: identity k of a user stands for one   *)
(* row of auth_identities.                                                 *)
(***************************************************************************)
EXTENDS SessionFamily

CONSTANTS u1, u2, i1, i2

OneUser == [i \in {i1} |-> u1]
TwoUsers == [i \in {i1, i2} |-> IF i = i1 THEN u1 ELSE u2]
=============================================================================
