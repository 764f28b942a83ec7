-------------------------- MODULE MCViolationQueue --------------------------
(* Instance of ViolationQueue for TLC. *)
EXTENDS ViolationQueue, TLC

CONSTANTS s1, s2

\* Two batches of these can wait for each other.
MCSessionOf == <<s1, s2, s2, s1>>
=============================================================================
