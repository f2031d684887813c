------------------------------ MODULE Lineage ------------------------------
(***************************************************************************)
(* What a refresh-token family promises to whoever signed in.  A sign-in   *)
(* opens a lineage under a name never used before; an accepted session     *)
(* hands its place to a successor of the same lineage and the same owner,  *)
(* or, while there is room, admits one beside it; and any session may end, *)
(* at any time, for good.  Nothing is said of tokens, lifetimes, rotation  *)
(* stamps or of who revokes.  A lineage without an accepted session can    *)
(* therefore only stay one: there is nobody left to hand over or to admit. *)
(***************************************************************************)
EXTENDS Naturals, FiniteSets

CONSTANTS
  Owner,   \* what a lineage is opened with and keeps
  Limit    \* accepted sessions a lineage may have at once

VARIABLES
  live,    \* accepted sessions: the lineage and the owner of each
  drawn    \* how many names have been used

lineageVars == <<live, drawn>>

NextName == drawn + 1
Members(f) == {s \in DOMAIN live : live[s].family = f}

LineageInit ==
  /\ live = [s \in {} |-> 0]
  /\ drawn = 0

\* The sessions in S end and a new one is accepted as row.
Enter(S, row) ==
  /\ drawn' = NextName
  /\ DOMAIN live' = (DOMAIN live \ S) \cup {NextName}
  /\ live' = [s \in DOMAIN live' |-> IF s = NextName THEN row ELSE live[s]]

Open(owner) == Enter({}, [family |-> NextName, owner |-> owner])

Replace(s) == Enter({s}, live[s])

Join(s) ==
  /\ Cardinality(Members(live[s].family)) < Limit
  /\ Enter({}, live[s])

\* Revoked, expired or deleted; a name may be used up without being accepted.
End ==
  /\ drawn' \in {drawn, NextName}
  /\ DOMAIN live' \subseteq DOMAIN live
  /\ live' = [s \in DOMAIN live' |-> live[s]]

LineageNext ==
  \/ End
  \/ \E s \in DOMAIN live : Replace(s) \/ Join(s)
  \/ \E owner \in Owner : Open(owner)

LineageSpec == LineageInit /\ [][LineageNext]_lineageVars

=============================================================================
