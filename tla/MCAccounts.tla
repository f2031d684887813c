----------------------------- MODULE MCAccounts -----------------------------
(***************************************************************************)
(* Small instances of Accounts for TLC.                                    *)
(***************************************************************************)
EXTENDS Accounts, TLC

CONSTANTS u1, u2, e1, e2, p1, p2, a1, a2

\* Names are interchangeable: no property tells them apart.
NameSymmetry ==
  Permutations(User) \cup Permutations(Email) \cup Permutations(Password)
    \cup Permutations(Action)

=============================================================================
