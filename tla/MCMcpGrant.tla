----------------------------- MODULE MCMcpGrant -----------------------------
(***************************************************************************)
(* A small instance of McpGrant: one client with two scopes and two        *)
(* requests that overlap.                                                  *)
(***************************************************************************)
EXTENDS McpGrant, TLC

CONSTANTS c, k1, k2, r1, r2

OneClient == {c}
TwoRequests == {r1, r2}
AnyRequest == Permutations(TwoRequests)
=============================================================================
