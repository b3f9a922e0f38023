-------------------------- MODULE PromotionRegister --------------------------
(***************************************************************************)
(* What the model registry promises (ADR-0007, ADR-0017), without MLflow,  *)
(* runs, attempts or crashes: registered versions are approvals, each made *)
(* against one incumbent, and the production alias is a compare-and-swap   *)
(* register over them.  It only moves forward, and only from the very      *)
(* version the approval was compared with.                                 *)
(*                                                                         *)
(* ModelRegistry implements this register while one attempt publishes at a *)
(* time: see ModelRegistry!Register.                                       *)
(***************************************************************************)
EXTENDS Naturals, Sequences

CONSTANT Candidates      \* what a training run can propose for production

VARIABLES registered,    \* the approvals, in the order of their versions
          production     \* the version the alias names, 0 for none

registerVars == <<registered, production>>

Init == /\ registered = <<>>
        /\ production = 0

(* A candidate is approved against the version now in production, once.    *)
Approve(c) ==
  LET approval == [candidate |-> c, incumbent |-> production]
  IN  /\ \A v \in 1..Len(registered) : registered[v] # approval
      /\ registered' = Append(registered, approval)
      /\ UNCHANGED production

Promote(v) == /\ v > production
              /\ registered[v].incumbent = production
              /\ production' = v
              /\ UNCHANGED registered

Next == \/ \E c \in Candidates : Approve(c)
        \/ \E v \in 1..Len(registered) : Promote(v)

Spec == Init /\ [][Next]_registerVars
==============================================================================
