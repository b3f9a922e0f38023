--------------------------- MODULE MCModelRegistry ---------------------------
(* Bounds for ModelRegistry.  The model trained on "d2" beats the one of   *)
(* "d1" by exactly the configured percentage; that of "d3" has a lower     *)
(* error than both, but on another holdout.  Attempts one at a time train  *)
(* both roles, on "d3" static alone; two at a time train static alone.     *)
EXTENDS ModelRegistry, TLC

MCMae == [x \in Datasets \X Roles |->
            IF x[1] = "d1" THEN 100 ELSE IF x[1] = "d2" THEN 99 ELSE 90]
MCHoldoutOf == [d \in Datasets |-> IF d = "d3" THEN "h2" ELSE "h1"]
MCMayTrain == [n \in 1..MaxActive |->
                 IF n = 1 THEN (Datasets \X Roles) \ {<<"d3", "streaming">>}
                 ELSE {"d1", "d2"} \X {"static"}]

AttemptSymmetry == Permutations(Attempts)
==============================================================================
