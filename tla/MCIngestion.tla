----------------------------- MODULE MCIngestion -----------------------------
(* Bounds for Ingestion, around a gate of 10 percent.  "clean" has only    *)
(* valid rows; "edge" sits on the gate, and beyond it unless unknown       *)
(* passenger counts are allowed; "empty" has no row at all.  Three         *)
(* attempts one at a time, or two at the same time.                        *)
EXTENDS Ingestion, TLC

MCRows == [r \in Revisions |-> IF r = "empty" THEN 0 ELSE 10]
MCInvalid == [x \in Revisions \X Policies |->
                IF x[1] # "edge" THEN 0 ELSE IF x[2] = "allow_unknown" THEN 1 ELSE 2]

MCMaxStarted == [n \in 1 .. MaxActive |-> IF n = 1 THEN 3 ELSE 2]

AttemptSymmetry == Permutations(Attempts)
==============================================================================
