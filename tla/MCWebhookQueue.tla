---------------------------- MODULE MCWebhookQueue ----------------------------
(* WebhookQueue for TLC. *)
EXTENDS WebhookQueue

CONSTANTS p1, p2, w1, w2

TwoProducts == {p1, p2}
OneWorker == {w1}
(* One product is edited and deleted; the other sends what carries no stamp. *)
EveryMail == ({p1} \X (1 .. 3)) \cup {<<p2, 0>>}
TwoWorkers == {w1, w2}
=============================================================================
