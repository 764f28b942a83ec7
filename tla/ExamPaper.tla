----------------------------- MODULE ExamPaper -----------------------------
(***************************************************************************)
(* What the exam platform promises about one student's paper, without      *)
(* requests, transactions or locks: answers can be saved while the paper   *)
(* is open, handing it in fixes the answers and a score that counts        *)
(* exactly those answers, and an administrator can close it instead.       *)
(* SessionWrites, the server, implements it; WebAnswers, the web client,   *)
(* is checked against a server that does.                                  *)
(***************************************************************************)
CONSTANTS
    Questions,  \* the questions of the exam
    Values,     \* the payloads a question can be answered with
    NoAnswer,   \* "there is no row in answers for this question"
    NoScore     \* exam_sessions.score IS NULL

VARIABLES
    paper,      \* "open", "submitted" or "closed"
    sheet,      \* the answer stored for every question
    result      \* NoScore, or the answer that was counted for every question

vars == <<paper, sheet, result>>

Sheets == [Questions -> Values \union {NoAnswer}]

TypeOK ==
    /\ paper \in {"open", "submitted", "closed"}
    /\ sheet \in Sheets
    /\ result \in Sheets \union {NoScore}

Init ==
    /\ paper = "open"
    /\ sheet = [q \in Questions |-> NoAnswer]
    /\ result = NoScore

\* One answer, or a batch of them at once.
Save(new) ==
    /\ paper = "open"
    /\ sheet' = [q \in Questions |-> IF new[q] = NoAnswer THEN sheet[q] ELSE new[q]]
    /\ UNCHANGED <<paper, result>>

HandIn ==
    /\ paper = "open"
    /\ paper' = "submitted"
    /\ result' = sheet
    /\ UNCHANGED sheet

\* Kicking closes a paper in any state: what was stored and counted stays.
Close ==
    /\ paper' = "closed"
    /\ UNCHANGED <<sheet, result>>

Next ==
    \/ \E new \in Sheets : Save(new)
    \/ HandIn
    \/ Close

Spec == Init /\ [][Next]_vars
=============================================================================
