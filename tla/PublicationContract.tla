------------------------- MODULE PublicationContract -------------------------
(***************************************************************************)
(* What a caller of the prediction API may conclude from the answer it     *)
(* gets when publication is configured (ADR-0010).  There are no threads,  *)
(* queues or timers here: a prediction is appended to the topic at most    *)
(* once, and it is answered at most once, with one of                      *)
(*                                                                         *)
(*   "published"       HTTP 200, X-TripML-Publication: acknowledged        *)
(*   "not_published"   HTTP 503 with delivery_unknown = false              *)
(*   "unknown"         HTTP 503 with delivery_unknown = true               *)
(*                                                                         *)
(* Publisher implements this contract: see Publisher!Contract.             *)
(***************************************************************************)

CONSTANT Predictions     \* predictions handed to the publisher, one per request

VARIABLES answer,        \* what the caller has been told about each prediction
          appended       \* the predictions the topic holds

contractVars == <<answer, appended>>

Answers == {"none", "published", "not_published", "unknown"}

Init == /\ answer = [p \in Predictions |-> "none"]
        /\ appended = {}

(***************************************************************************)
(* A prediction may reach the topic before its answer or, when the answer  *)
(* left that open, after it; never after a definite rejection.             *)
(***************************************************************************)
AppendRecord(p) == /\ p \notin appended
                   /\ answer[p] \in {"none", "unknown"}
                   /\ appended' = appended \cup {p}
                   /\ UNCHANGED answer

(***************************************************************************)
(* The only answer, and it tells the truth about the topic.                *)
(***************************************************************************)
Reply(p, a) == /\ answer[p] = "none"
               /\ a = "published" => p \in appended
               /\ a = "not_published" => p \notin appended
               /\ answer' = [answer EXCEPT ![p] = a]
               /\ UNCHANGED appended

Next == \E p \in Predictions :
          \/ AppendRecord(p)
          \/ \E a \in Answers \ {"none"} : Reply(p, a)

Spec == Init /\ [][Next]_contractVars
==============================================================================
