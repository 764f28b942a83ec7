---------------------------- MODULE MCWebAnswers ----------------------------
(* Instance of WebAnswers for TLC. *)
EXTENDS WebAnswers, TLC
=============================================================================
