----------------------------- MODULE MCDurable -----------------------------
(* Model values for Durable: coordinator processes that run in one pod, one *)
(* after the other or side by side, and share its host name.                *)
EXTENDS Durable

MCWriterOf == [p \in Procs |-> "host-a"]
MCGroupsOf == [b \in Batches |-> IF b = "b1" THEN <<"g1", "g2">> ELSE <<"g3">>]

=============================================================================
