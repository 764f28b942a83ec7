---------------------------- MODULE ViolationLog ----------------------------
(***************************************************************************)
(* What the platform promises about reports of violations, without the     *)
(* queue, the lock, batches, drain loops and transactions between them and *)
(* the tables: a report is accepted or dropped, and an accepted one waits  *)
(* until it is logged or given up, once.  It is counted in the step that   *)
(* logs it, and logged only while its session goes on.  ViolationQueue is  *)
(* the detailed specification that implements this one.                    *)
(***************************************************************************)
EXTENDS Naturals, FiniteSets

CONSTANTS
    Sessions,
    Events,     \* the reports that clients may send
    SessionOf   \* the session of each

VARIABLES
    fresh,      \* reports not sent yet
    waiting,    \* accepted, and neither logged nor given up
    logged,     \* events in exam_logs
    counted,    \* those with counted_for_score
    count,      \* exam_sessions.violation_count
    ended,      \* sessions with a final status
    kicked,     \* those that a kick has ended
    failed      \* a process, Redis or PostgreSQL has failed

vars == <<fresh, waiting, logged, counted, count, ended, kicked, failed>>

Init ==
    /\ fresh = Events
    /\ waiting = {} /\ logged = {} /\ counted = {}
    /\ count = [s \in Sessions |-> 0]
    /\ ended = {} /\ kicked = {}
    /\ ~failed

Of(events, s) == {e \in events : SessionOf[e] = s}

\* Each of these steps may be the one in which something fails.
MayFail == failed => failed'

Accept(e) ==
    /\ fresh' = fresh \ {e}
    /\ waiting' = waiting \union {e}
    /\ MayFail
    /\ UNCHANGED <<logged, counted, count, ended, kicked>>

\* A report is dropped only if something fails.
Refuse(e) ==
    /\ fresh' = fresh \ {e}
    /\ failed'
    /\ UNCHANGED <<waiting, logged, counted, count, ended, kicked>>

\* Some of the events count, and the counts of their sessions go up with them.
Log(events, points) ==
    /\ \A e \in events : SessionOf[e] \notin ended
    /\ waiting' = waiting \ events
    /\ logged' = logged \union events
    /\ counted' = counted \union points
    /\ count' = [s \in Sessions |-> count[s] + Cardinality(Of(points, s))]
    /\ UNCHANGED <<fresh, ended, kicked, failed>>

\* Events are given up if their session has ended, or if something has failed.
GiveUp(events) ==
    /\ MayFail
    /\ failed' \/ \A e \in events : SessionOf[e] \in ended
    /\ waiting' = waiting \ events
    /\ UNCHANGED <<fresh, logged, counted, count, ended, kicked>>

End(s) ==
    /\ ended' = ended \union {s}
    /\ UNCHANGED <<fresh, waiting, logged, counted, count, kicked, failed>>

\* A kick adds one to what it has read: what was counted since is lost, once.
Kick(s) ==
    /\ s \notin kicked
    /\ kicked' = kicked \union {s}
    /\ ended' = ended \union {s}
    /\ \E read \in 0..count[s] : count' = [count EXCEPT ![s] = read + 1]
    /\ UNCHANGED <<fresh, waiting, logged, counted, failed>>

Next ==
    \/ \E e \in fresh : Accept(e) \/ Refuse(e)
    \/ \E events \in SUBSET waiting :
          \/ \E points \in SUBSET events : Log(events, points)
          \/ GiveUp(events)
    \/ \E s \in Sessions : End(s) \/ Kick(s)

Spec == Init /\ [][Next]_vars
=============================================================================
