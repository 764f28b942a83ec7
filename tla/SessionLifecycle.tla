-------------------------- MODULE SessionLifecycle --------------------------
(***************************************************************************)
(* The sessions of one student in one exam: start, resume, final submit,   *)
(* and what staff and the scheduler do to them.                            *)
(*                                                                         *)
(* A request of staff loads the session as an ORM entity, without a lock,  *)
(* and commits later.  The UPDATE holds the columns whose value differs    *)
(* from the one that was loaded and no others, so two requests that        *)
(* overlap mix their columns: Merge.  The partial unique index on open     *)
(* sessions makes the commit fail that would open a second one.            *)
(*                                                                         *)
(* Simplifications.  The exam is published and its window open; requests   *)
(* that a check of rights, headers or times rejects change nothing.  The   *)
(* final submit holds the session's locks from its read to its commit      *)
(* (module SessionWrites) and is one step; scores are left to that module. *)
(* A session has at most 30 log entries, the number that the recovery      *)
(* policy reads, and a student at most 16 sessions, the number that start  *)
(* reads.  Of the entries only an admin decision counts: a submit that was *)
(* forced by a violation leaves a session that the policy blocks anyway.   *)
(***************************************************************************)
EXTENDS Integers, FiniteSets

CONSTANTS
    Devices,        \* clients of the student
    Desks,          \* clients of staff
    Schedulers,     \* scheduler processes
    Sessions,       \* ids of exam_sessions rows
    MaxAttempts,    \* Exam.max_attempts
    NoSession

Handlers == Devices \union Desks \union Schedulers

StaffKinds == {"kick", "terminate", "force", "reset", "reopen"}
Kinds == StaffKinds \union {"start", "expire"}
Statuses == {"unused", "in_progress", "submitted", "terminated", "deleted"}

Rows == [status : Statuses, ended : BOOLEAN, byAdmin : BOOLEAN]

ASSUME LifecycleAssumption ==
    /\ Devices \intersect Desks = {}
    /\ Schedulers \intersect (Devices \union Desks) = {}
    /\ IsFiniteSet(Sessions)
    /\ MaxAttempts \in Nat
    /\ NoSession \notin Sessions

VARIABLES
    rows,       \* exam_sessions: status, end_time, terminated_by_admin
    decided,    \* sessions with an admin decision in exam_logs
    at,         \* where each handler is
    kind,       \* which request it serves
    target,     \* the session it works on
    mine,       \* the entities it has loaded
    todo        \* start: terminated sessions it has not considered yet

vars == <<rows, decided, at, kind, target, mine, todo>>

Places == {"idle", "counted", "checking", "raced", "loaded", "allowed"}

With(status) == {s \in Sessions : rows[s].status = status}
Stored == Sessions \ (With("unused") \union With("deleted"))

TypeOK ==
    /\ rows \in [Sessions -> Rows]
    /\ decided \subseteq Stored
    /\ at \in [Handlers -> Places]
    /\ kind \in [Handlers -> Kinds]
    /\ target \in [Handlers -> Sessions \union {NoSession}]
    /\ \A h \in Handlers : at[h] \in {"loaded", "allowed"} => target[h] \in Sessions
    /\ mine \in [Handlers -> [Sessions -> Rows]]
    /\ todo \in [Handlers -> SUBSET Sessions]

Unused == [status |-> "unused", ended |-> FALSE, byAdmin |-> FALSE]
\* A new session, and the columns of one that is opened again.
Opened == [status |-> "in_progress", ended |-> FALSE, byAdmin |-> FALSE]
Deleted == [status |-> "deleted", ended |-> FALSE, byAdmin |-> FALSE]

Init ==
    /\ rows = [s \in Sessions |-> Unused]
    /\ decided = {}
    /\ at = [h \in Handlers |-> "idle"]
    /\ kind \in [Handlers -> {"start"}]
    /\ target = [h \in Handlers |-> NoSession]
    /\ mine = [h \in Handlers |-> [s \in Sessions |-> Unused]]
    /\ todo = [h \in Handlers |-> {}]

-----------------------------------------------------------------------------
(* Entities and transactions.                                              *)

\* The columns of the UPDATE are those that differ from what was loaded.
Merge(loaded, new, current) ==
    [c \in DOMAIN current |-> IF new[c] # loaded[c] THEN new[c] ELSE current[c]]

\* Bug (mutant of OpensASecond): the index is missing.
NoIndex(s, row) == FALSE

\* The partial unique index on (user_id, exam_id).
OpensASecond(s, row) ==
    row.status = "in_progress" /\ \E t \in With("in_progress") : t # s

\* Bug (mutant of Update): a row that was deleted meanwhile is inserted again.
UpdateRevives(h, s, loaded, new, decides) ==
    LET row == Merge(loaded, new, rows[s]) IN
       IF OpensASecond(s, row)
       THEN UNCHANGED <<rows, decided>>
       ELSE /\ rows' = [rows EXCEPT ![s] = row]
            /\ decided' = IF decides THEN decided \union {s} ELSE decided

\* The transaction of h ends with these new values for the session, or fails.
Update(h, s, loaded, new, decides) ==
    LET row == Merge(loaded, new, rows[s]) IN
       IF rows[s].status = "deleted" \/ OpensASecond(s, row)
       THEN UNCHANGED <<rows, decided>>
       ELSE /\ rows' = [rows EXCEPT ![s] = row]
            /\ decided' = IF decides THEN decided \union {s} ELSE decided

\* The handler is forgotten with its entities.
Finish(h) ==
    /\ at' = [at EXCEPT ![h] = "idle"]
    /\ target' = [target EXCEPT ![h] = NoSession]
    /\ mine' = [mine EXCEPT ![h] = [s \in Sessions |-> Unused]]
    /\ todo' = [todo EXCEPT ![h] = {}]
    /\ kind' = [kind EXCEPT ![h] = "start"]

Goto(h, from, to) == at[h] = from /\ at' = [at EXCEPT ![h] = to]

\* Bug (mutant of AllowContinue): only what was submitted is over.
AllowUnsubmitted(row, s) == row.status \in {"in_progress", "terminated"}

\* evaluate_session_recovery, of the session as it was loaded.
AllowContinue(row, s) ==
    \/ row.status = "in_progress"
    \/ row.status = "terminated" /\ ~row.byAdmin /\ s \notin decided

-----------------------------------------------------------------------------
(* start_exam_session.                                                     *)

\* The attempts are counted first, the sessions are read by another statement.
StartCount(h) ==
    /\ Cardinality(With("submitted")) < MaxAttempts
    /\ Goto(h, "idle", "counted")
    /\ kind' = [kind EXCEPT ![h] = "start"]
    /\ UNCHANGED <<rows, decided, target, mine, todo>>

\* An open session is resumed.
StartResume(h) ==
    /\ at[h] = "counted"
    /\ With("in_progress") # {}
    /\ Finish(h)
    /\ UNCHANGED <<rows, decided>>

StartLoad(h) ==
    /\ With("in_progress") = {}
    /\ Goto(h, "counted", "checking")
    /\ todo' = [todo EXCEPT ![h] = With("terminated")]
    /\ mine' = [mine EXCEPT ![h] = [s \in Sessions |-> IF s \in todo'[h] THEN rows[s] ELSE Unused]]
    /\ UNCHANGED <<rows, decided, kind, target>>

\* The policy is asked about one terminated session after the other, the one
\* with the most answers first: any order here.  One that it allows is opened
\* and committed; reading its log and the commit are one step.
StartCheck(h) ==
    /\ at[h] = "checking"
    /\ \E s \in todo[h] :
        IF AllowContinue(mine[h][s], s)
        THEN /\ Update(h, s, mine[h][s], Opened, FALSE)
             /\ Finish(h)
        ELSE /\ todo' = [todo EXCEPT ![h] = @ \ {s}]
             /\ UNCHANGED <<rows, decided, at, kind, target, mine>>

StartInsert(h) ==
    /\ at[h] = "checking" /\ todo[h] = {}
    /\ \E s \in With("unused") :
        IF OpensASecond(s, Opened)
        THEN /\ Goto(h, "checking", "raced")
             /\ UNCHANGED <<rows, decided, kind, target, mine, todo>>
        ELSE /\ rows' = [rows EXCEPT ![s] = Opened]
             /\ Finish(h)
             /\ UNCHANGED decided

\* The session that won the race is resumed, or it has ended since: 409.
StartRaced(h) ==
    /\ at[h] = "raced"
    /\ Finish(h)
    /\ UNCHANGED <<rows, decided>>

-----------------------------------------------------------------------------
(* Staff and the scheduler load, and commit later; the final submit is one  *)
(* step.                                                                   *)

\* What a request demands of the session it loads.
Accepts(k, row) ==
    CASE k \in {"terminate", "force", "expire"} -> row.status = "in_progress"
      [] OTHER -> TRUE

Load(h, k, s) ==
    /\ s \in Stored
    /\ Accepts(k, rows[s])
    /\ Goto(h, "idle", "loaded")
    /\ kind' = [kind EXCEPT ![h] = k]
    /\ target' = [target EXCEPT ![h] = s]
    /\ mine' = [mine EXCEPT ![h] = [@ EXCEPT ![s] = rows[s]]]
    /\ UNCHANGED <<rows, decided, todo>>

Loaded(h, k) == at[h] = "loaded" /\ kind[h] = k
Entity(h) == mine[h][target[h]]

\* The request of h changes the session it has loaded.
Save(h, new, decides) == Update(h, target[h], Entity(h), new, decides)

\* The same with a new end_time, which is never the one that was loaded.
SaveEnd(h, new, decides) ==
    Update(h, target[h], [Entity(h) EXCEPT !.ended = FALSE], new, decides)

Terminated == [status |-> "terminated", ended |-> TRUE, byAdmin |-> TRUE]
Submitted(row) == [status |-> "submitted", ended |-> TRUE, byAdmin |-> row.byAdmin]

\* Bug (mutant of KickCommit): the flag is forgotten.
KickCommitUnmarked(h) ==
    /\ Loaded(h, "kick")
    /\ Save(h, [Terminated EXCEPT !.byAdmin = Entity(h).byAdmin], TRUE)
    /\ Finish(h)

\* kick_student_from_exam, whatever the status was; an end_time is kept.
KickCommit(h) ==
    /\ Loaded(h, "kick")
    /\ Save(h, Terminated, TRUE)
    /\ Finish(h)

\* terminate_session.
TerminateCommit(h) ==
    /\ Loaded(h, "terminate")
    /\ SaveEnd(h, Terminated, TRUE)
    /\ Finish(h)

\* force_submit_session keeps an end_time.
ForceCommit(h) ==
    /\ Loaded(h, "force")
    /\ Save(h, Submitted(Entity(h)), TRUE)
    /\ Finish(h)

\* _close_expired_sessions_async.
ExpireCommit(h) ==
    /\ Loaded(h, "expire")
    /\ SaveEnd(h, Submitted(Entity(h)), FALSE)
    /\ Finish(h)

\* The student's final submit.
SubmitExam(s) ==
    /\ s \in With("in_progress")
    /\ rows' = [rows EXCEPT ![s] = Submitted(@)]
    /\ UNCHANGED <<decided, at, kind, target, mine, todo>>

\* reset_session_after_disconnect reads the logs after the session.
ResetCheck(h) ==
    /\ Loaded(h, "reset")
    /\ AllowContinue(Entity(h), target[h])
    /\ Goto(h, "loaded", "allowed")
    /\ UNCHANGED <<rows, decided, kind, target, mine, todo>>

ResetBlocked(h) ==
    /\ Loaded(h, "reset")
    /\ ~AllowContinue(Entity(h), target[h])
    /\ Finish(h)
    /\ UNCHANGED <<rows, decided>>

ResetCommit(h) ==
    /\ at[h] = "allowed"
    /\ Save(h, Opened, FALSE)
    /\ Finish(h)

\* reopen_session_with_override.
ReopenCommit(h) ==
    /\ Loaded(h, "reopen")
    /\ Save(h, Opened, FALSE)
    /\ Finish(h)

\* Bug (mutant of DeleteResults): the logs do not go with their sessions.
DeleteRowsOnly ==
    /\ Stored # {}
    /\ rows' = [s \in Sessions |-> IF s \in Stored THEN Deleted ELSE rows[s]]
    /\ UNCHANGED <<decided, at, kind, target, mine, todo>>

\* delete_exam_results: one statement, with the logs of the sessions.
DeleteResults ==
    /\ Stored # {}
    /\ rows' = [s \in Sessions |-> IF s \in Stored THEN Deleted ELSE rows[s]]
    /\ decided' = {}
    /\ UNCHANGED <<at, kind, target, mine, todo>>

-----------------------------------------------------------------------------
StartStep(h) ==
    \/ StartCount(h) \/ StartResume(h) \/ StartLoad(h) \/ StartCheck(h)
    \/ StartInsert(h) \/ StartRaced(h)

StaffStep(h) ==
    \/ \E k \in StaffKinds, s \in Sessions : Load(h, k, s)
    \/ KickCommit(h) \/ TerminateCommit(h) \/ ForceCommit(h)
    \/ ResetCheck(h) \/ ResetBlocked(h) \/ ResetCommit(h) \/ ReopenCommit(h)

SchedulerStep(h) ==
    \/ \E s \in Sessions : Load(h, "expire", s)
    \/ ExpireCommit(h)

Next ==
    \/ \E h \in Devices : StartStep(h)
    \/ \E s \in Sessions : SubmitExam(s)
    \/ \E h \in Desks : StaffStep(h)
    \/ \E h \in Schedulers : SchedulerStep(h)
    \/ DeleteResults

Spec == Init /\ [][Next]_vars

-----------------------------------------------------------------------------
(* Properties.                                                             *)

\* Whatever races, the student has one open session in the exam at most.
OneOpenSession == Cardinality(With("in_progress")) <= 1

\* Only the override opens a session again that staff has ended: neither the
\* student's next start nor a reset, however they interleave with the decision.
StaffDecisionStands ==
    [][\A s \in Sessions :
          rows[s].status = "terminated" /\ rows'[s].status = "in_progress" =>
             \E h \in Desks : Loaded(h, "reopen") /\ target[h] = s /\ at'[h] = "idle"]_vars

\* If requests of staff do not overlap one another, the columns of a session fit
\* its status, although the student and the scheduler write it meanwhile: an open
\* session has no end and no mark of an administrator, a closed one has its end,
\* and one that staff terminated the mark that tells the client to leave.
ColumnsFit(row) ==
    CASE row.status = "in_progress" -> ~row.ended /\ ~row.byAdmin
      [] row.status = "submitted" -> row.ended
      [] row.status = "terminated" -> row.ended /\ row.byAdmin
      [] OTHER -> TRUE

StatusFitsColumns == \A s \in Sessions : ColumnsFit(rows[s])

\* Requests that work on what they have loaded, mix their columns and race each
\* other implement sessions that are opened, ended, decided on and deleted in one
\* step each.
Status == [s \in Sessions |-> rows[s].status]
Overrides == {target[h] : h \in {d \in Desks : Loaded(d, "reopen")}}

Attempt == INSTANCE Attempts WITH status <- Status, overrides <- Overrides

AttemptsSpec == Attempt!Spec

-----------------------------------------------------------------------------
(* The inductive invariant behind them.                                    *)

\* A handler works on rows that exist, or existed; rows are not created twice.
WorkFits ==
    \A h \in Handlers :
        /\ at[h] \in {"loaded", "allowed"} => rows[target[h]].status # "unused"
        /\ at[h] = "checking" =>
              \A s \in todo[h] : mine[h][s].status = "terminated" /\ rows[s].status # "unused"

\* The log tells of every termination, as long as the session exists: the policy
\* blocks it even for entities that were loaded before.
DecisionsAreLogged ==
    /\ \A s \in With("terminated") : s \in decided
    /\ \A h \in Handlers, s \in Sessions :
          mine[h][s].status = "terminated" => s \in decided \/ rows[s].status = "deleted"
    /\ \A h \in Handlers : at[h] = "allowed" =>
          kind[h] = "reset" /\ (Entity(h).status = "in_progress" \/ rows[target[h]].status = "deleted")

OpenIsUnique == \A s, t \in With("in_progress") : s = t

\* No two requests of staff are at work on the same session.
DesksKeepApart ==
    \A h, k \in Desks :
        at[h] # "idle" /\ at[k] # "idle" /\ target[h] = target[k] => h = k

\* What the student and the scheduler can have done to a row that a desk has
\* loaded.
Overtaken(row, entity) ==
    /\ row.byAdmin = entity.byAdmin
    /\ row = entity \/ row.status = "submitted"

DeskIsCurrent ==
    \A h \in Desks : at[h] \in {"loaded", "allowed"} =>
        /\ ColumnsFit(Entity(h)) /\ Entity(h).status \notin {"unused", "deleted"}
        /\ rows[target[h]].status = "deleted" \/ Overtaken(rows[target[h]], Entity(h))

SchedulerLoadsOpen ==
    \A h \in Handlers : at[h] = "loaded" /\ kind[h] = "expire" =>
        Entity(h) = Opened

FitInv == StatusFitsColumns /\ DeskIsCurrent /\ SchedulerLoadsOpen

KindsFit ==
    /\ \A h \in Devices : at[h] \in {"idle", "counted", "checking", "raced"}
    /\ \A h \in Desks : at[h] \in {"idle", "loaded", "allowed"}
    /\ \A h \in Schedulers : at[h] = "idle" \/ Loaded(h, "expire")
=============================================================================
