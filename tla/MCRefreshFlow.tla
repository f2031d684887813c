--------------------------- MODULE MCRefreshFlow ---------------------------
(***************************************************************************)
(* Small instances of RefreshFlow: one user with one identity.             *)
(***************************************************************************)
EXTENDS RefreshFlow

CONSTANTS u1, i1

OneUser == [i \in {i1} |-> u1]
=============================================================================
