-------------------------- MODULE MCOnlineFeatures --------------------------
(* Bounds for OnlineFeatures.  The months are 0..3 and 4..8; a window is 1 *)
(* or 3 units long.  The candidates complete before, at and after the      *)
(* edges of the windows of a pickup at 4 or 5, in its zones and in others, *)
(* and some cross the start of the month.                                  *)
EXTENDS OnlineFeatures, TLC

Trip(p, d, f, t) == [pickup |-> p, dropoff |-> d, from |-> f, to |-> t]

MCCandidates == {
  Trip(0, 2, "z1", "z2"), Trip(1, 3, "z1", "z1"),      \* in the previous month
  Trip(2, 4, "z1", "z2"), Trip(3, 5, "z2", "z2"),      \* across its end
  Trip(4, 5, "z1", "z2"), Trip(4, 6, "z1", "z1"),
  Trip(5, 7, "z1", "z2")}

Short1 == <<"pickup", "z1", "15m">>
Long1 == <<"pickup", "z1", "60m">>
Long2 == <<"dropoff", "z2", "60m">>
MCKeys == {Short1, Long1, Long2}
MCMisplaced == {<<Long1, Long2>>}      \* the roles confused
MCForeign == {<<Short1, Garbled>>, <<Long1, OtherVersion>>}
==============================================================================
