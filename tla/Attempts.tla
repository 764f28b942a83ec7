------------------------------ MODULE Attempts ------------------------------
(***************************************************************************)
(* What the platform promises about the sessions of one student in an      *)
(* exam, without handlers, loaded entities and their commits: a session is *)
(* opened if it is new, or if staff asked for the override, and never      *)
(* beside another one; a decision of staff and its log entry are one step; *)
(* what is deleted takes its decisions with it.  SessionLifecycle is the   *)
(* detailed specification that implements this one.                        *)
(***************************************************************************)
CONSTANT Sessions   \* ids of exam_sessions rows

VARIABLES
    status,     \* exam_sessions.status
    decided,    \* sessions with an admin decision in exam_logs
    overrides   \* sessions for which a reopen with override is under way

vars == <<status, decided, overrides>>

Init ==
    /\ status = [s \in Sessions |-> "unused"]
    /\ decided = {} /\ overrides = {}

Stored == {s \in Sessions : status[s] \in {"in_progress", "submitted", "terminated"}}

NoOtherOpen(s) == \A t \in Sessions \ {s} : status[t] # "in_progress"

Turn(s, new) == status' = [status EXCEPT ![s] = new]

Open(s) ==
    /\ status[s] = "unused"
    /\ NoOtherOpen(s)
    /\ Turn(s, "in_progress")
    /\ UNCHANGED <<decided, overrides>>

\* By the student, or by the scheduler, late as it may be.
HandIn(s) ==
    /\ s \in Stored
    /\ Turn(s, "submitted")
    /\ UNCHANGED <<decided, overrides>>

\* A decision made about an older state of the session may leave its status.
Decide(s) ==
    /\ s \in Stored
    /\ \E new \in {status[s], "submitted", "terminated"} : Turn(s, new)
    /\ decided' = decided \union {s}
    /\ UNCHANGED overrides

AskOverride(s) ==
    /\ s \in Stored
    /\ overrides' = overrides \union {s}
    /\ UNCHANGED <<status, decided>>

\* Others may have asked for the same.
Answered(s) == overrides' \in {overrides, overrides \ {s}}

Override(s) ==
    /\ s \in overrides /\ s \in Stored
    /\ NoOtherOpen(s)
    /\ Turn(s, "in_progress")
    /\ Answered(s)
    /\ UNCHANGED decided

OverrideFails(s) ==
    /\ Answered(s)
    /\ UNCHANGED <<status, decided>>

DeleteAll ==
    /\ status' = [s \in Sessions |-> IF s \in Stored THEN "deleted" ELSE status[s]]
    /\ decided' = {}
    /\ UNCHANGED overrides

Next ==
    \/ \E s \in Sessions :
          \/ Open(s) \/ HandIn(s) \/ Decide(s)
          \/ AskOverride(s) \/ Override(s) \/ OverrideFails(s)
    \/ DeleteAll

Spec == Init /\ [][Next]_vars
=============================================================================
