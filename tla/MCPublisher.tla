----------------------------- MODULE MCPublisher -----------------------------
(* Bounds for Publisher: two requests, two callers of close and a queue of *)
(* one message, so that a request meets a full queue while the other waits *)
(* and a second close overtakes the first.                                 *)
EXTENDS Publisher
==============================================================================
