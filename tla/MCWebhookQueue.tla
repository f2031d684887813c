--------------------------- MODULE MCWebhookQueue ---------------------------
(***************************************************************************)
(* Small instances of WebhookQueue: the endpoints of one organization, and *)
(* two overlapping actions.                                                *)
(***************************************************************************)
EXTENDS WebhookQueue

CONSTANTS org, w1, w2

OneOrganization == {Global, org}
TwoWorkers == {w1, w2}
=============================================================================
