-------------------------- MODULE MCReleaseOperations --------------------------
(* The bound of ReleaseOperations is a number, given in the cfg. *)
EXTENDS ReleaseOperations
================================================================================
