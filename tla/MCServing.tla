------------------------------- MODULE MCServing -------------------------------
(* Bounds for Serving: two pods, of one release or of two, and two requests. *)
EXTENDS Serving, TLC

CONSTANTS p1, p2, r1, r2, static, streaming

PodSymmetry == Permutations(Pods)
================================================================================
