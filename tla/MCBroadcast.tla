---------------------------- MODULE MCBroadcast ----------------------------
(* Instances of Broadcast for TLC: two replicas, pods 1 and 2, and pod 3 as  *)
(* a replacement.                                                           *)
EXTENDS Broadcast

=============================================================================
