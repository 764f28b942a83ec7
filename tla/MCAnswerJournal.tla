--------------------------- MODULE MCAnswerJournal ---------------------------
(* Instances of AnswerJournal for TLC. *)
EXTENDS AnswerJournal, TLC

\* Slots and tasks are interchangeable: sound for the safety runs.
Symmetry == Permutations(Requests) \union Permutations(Flushes)
=============================================================================
