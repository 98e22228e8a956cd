----------------------------- MODULE MCDelivery -----------------------------
(* Instances of Delivery for TLC: two consumer pods, one producer pod, and  *)
(* the coordinator itself (0) as the holder of one segment.                 *)
EXTENDS Delivery

MCPartOf == [s \in Segments |-> IF s = "b" THEN 1 ELSE 0]
MCProducerOf == [s \in Segments |-> IF s = "c" THEN 0 ELSE 11]

=============================================================================
