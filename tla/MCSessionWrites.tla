-------------------------- MODULE MCSessionWrites --------------------------
(* Instances of SessionWrites for TLC. *)
EXTENDS SessionWrites, TLC

\* Requests and payloads are interchangeable: sound for the safety runs.
Symmetry == Permutations(Requests) \union Permutations(Values)
=============================================================================
