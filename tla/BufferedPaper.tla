--------------------------- MODULE BufferedPaper ---------------------------
(***************************************************************************)
(* What the platform promises about one student's paper when its answers   *)
(* are buffered, without Redis, flushes, locks or processes: an answer     *)
(* counts as heard only while the paper is open, and what is stored at any *)
(* time, even after the paper was handed in, is something that was heard.  *)
(* Handing in fixes the score, and a paper is handed in or closed once.    *)
(* RuntimeBuffer implements it.  ExamPaper promises more, that nothing is  *)
(* stored after the end: a flush that is late breaks this.                 *)
(***************************************************************************)
CONSTANTS
    Questions,  \* the questions of the exam
    Values,     \* the payloads a question can be answered with
    NoAnswer,   \* "there is no row in answers for this question"
    NoScore     \* exam_sessions.score IS NULL

VARIABLES
    paper,      \* "open", "submitted" or "closed"
    heard,      \* the answers taken for every question while the paper was open
    sheet,      \* the answer stored for every question
    result      \* NoScore, or the answer that was counted for every question

vars == <<paper, heard, sheet, result>>

Sheets == [Questions -> Values \union {NoAnswer}]

Init ==
    /\ paper = "open"
    /\ heard = [q \in Questions |-> {}]
    /\ sheet = [q \in Questions |-> NoAnswer]
    /\ result = NoScore

Hear(q, v) ==
    /\ paper = "open"
    /\ heard' = [heard EXCEPT ![q] = @ \union {v}]
    /\ UNCHANGED <<paper, sheet, result>>

\* Any rows at once.  Not necessarily the last answer, and possibly late, but
\* always a heard one.
Store ==
    /\ sheet' \in Sheets
    /\ \A q \in Questions : sheet'[q] \in heard[q] \union {sheet[q]}
    /\ UNCHANGED <<paper, heard, result>>

HandIn ==
    /\ paper = "open"
    /\ paper' = "submitted"
    /\ result' = sheet
    /\ UNCHANGED <<heard, sheet>>

Close ==
    /\ paper = "open"
    /\ paper' = "closed"
    /\ UNCHANGED <<heard, sheet, result>>

Next ==
    \/ \E q \in Questions, v \in Values : Hear(q, v)
    \/ Store
    \/ HandIn
    \/ Close

Spec == Init /\ [][Next]_vars
=============================================================================
