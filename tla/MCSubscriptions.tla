-------------------------- MODULE MCSubscriptions --------------------------
(* Subscriptions with two partitions, two readers and two append IDs.       *)
EXTENDS Subscriptions
=============================================================================
