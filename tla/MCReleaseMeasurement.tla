------------------------- MODULE MCReleaseMeasurement -------------------------
(* Bounds for ReleaseMeasurement: two partitions, keys spread over both. *)
EXTENDS ReleaseMeasurement

MCPartitionOf == [t \in Trips |-> IF t = 1 THEN "p1" ELSE "p2"]
==============================================================================
