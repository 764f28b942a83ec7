-------------------------- MODULE MCRuntimeBuffer --------------------------
(* Instance of RuntimeBuffer for TLC. *)
EXTENDS RuntimeBuffer, TLC

\* Processes of one kind and payloads are interchangeable.
Symmetry == Permutations(Writers) \union Permutations(Drainers)
            \union Permutations(Questions) \union Permutations(Values)
=============================================================================
