--------------------------- MODULE MCGoldFeatures ---------------------------
(* Bounds for GoldFeatures: two revisions of a partition under the first   *)
(* passenger contract and one under the second.  Nothing completes in the  *)
(* last hour of s3 (as a lookback it gives the same gold rows as none at   *)
(* all).  Two training runs beside one build at a time, or one beside two. *)
EXTENDS GoldFeatures, TLC

MCContractOf == [c \in Contents |-> IF c = "s3" THEN "1.1" ELSE "1.0"]
MCFeatureVersions == [k \in Contracts |-> IF k = "1.0" THEN "gold-features-v1" ELSE "gold-features-v2"]
MCRowsOf == [i \in Inputs |-> <<i["target"], i["previous"] \in {"s1", "s2"}>>]
MCRows == OrNone(Contents) \X BOOLEAN
FirstMonth == <<1>>
SecondMonth == <<2>>

MCMaxTrainings == [n \in 1..MaxActive |-> IF n = 1 THEN 2 ELSE 1]
MCMayHold == [n \in 1..MaxActive |-> IF n = 1 THEN Contents ELSE {"s1", "s3"}]

ProcessSymmetry == Permutations(Builders) \cup Permutations(Trainers)
==============================================================================
