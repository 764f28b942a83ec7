------------------------- MODULE MCSessionLifecycle -------------------------
(* Instance of SessionLifecycle for TLC. *)
EXTENDS SessionLifecycle, TLC

Symmetric == Permutations(Devices) \union Permutations(Sessions)
=============================================================================
