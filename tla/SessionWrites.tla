--------------------------- MODULE SessionWrites ---------------------------
(***************************************************************************)
(* One exam session (a row of exam_sessions and its answers rows) and the  *)
(* requests that write to it at the same time in ANSWER_WRITE_MODE=direct: *)
(*   single     AnswerSyncService.accept_single_answer                     *)
(*   batch      AnswerSyncService.accept_batch                             *)
(*   final      FinalSubmitService.submit_exam                             *)
(*   force      exams.force_submit_session (teacher)                       *)
(*   expire     scheduler._close_expired_sessions_async (time is over)     *)
(*   terminate  exam_admin.terminate_session                               *)
(*   kick       monitoring.kick_student_from_exam                          *)
(* A request is a database session of its own; what happens between two of *)
(* its awaits that the others can see is one action.  PostgreSQL runs READ *)
(* COMMITTED: a commit is one step, a locked read waits for the lock.      *)
(*                                                                         *)
(* The ORM matters.  The session factory sets expire_on_commit=False and   *)
(* no query uses populate_existing, so a row read a second time by the     *)
(* same request keeps the attributes of the first read, and a commit       *)
(* writes only the columns whose value differs from that first read.       *)
(*                                                                         *)
(* Simplifications.  A payload is one value (the four payload columns and  *)
(* the metadata together).  A grade is the value that was graded, so that  *)
(* a row whose grade belongs to another value can be seen; every question  *)
(* is graded automatically.  "submitted" stands for "completed" too.  Rate *)
(* limit, SEB headers and question validation only reject: they are Fail.  *)
(* Logs, Redis markers and broadcasts after the commit are not modelled.   *)
(***************************************************************************)
CONSTANTS
    Requests,   \* identities of the requests that arrive
    Questions,  \* questions of the exam
    Values,     \* possible answer payloads
    Ops,        \* the kinds of request that arrive in this instance
    NoAnswer,   \* no answers row for the question
    Ungraded,   \* is_correct and points_earned are NULL
    NoScore,    \* exam_sessions.score IS NULL
    NoRequest,  \* nobody holds the session's lock
    NoSnapshot  \* the request has loaded no entity

LockedOps == {"single", "final", "kick"}
AllOps == LockedOps \union {"batch", "force", "expire", "terminate"}

Grades == Values \union {Ungraded}
Scores == [Questions -> Grades]
Rows == [val : Values \union {NoAnswer}, grade : Grades]
Statuses == {"in_progress", "submitted", "terminated"}
Payloads == [Questions -> Values \union {NoAnswer}]
Snapshots == [status : Statuses, rows : [Questions -> Rows], score : Scores \union {NoScore}]

ASSUME ConstantsAssumption ==
    /\ Ops \subseteq AllOps
    /\ NoAnswer \notin Values
    /\ Ungraded \notin Values
    /\ NoScore \notin Scores
    /\ NoRequest \notin Requests
    /\ NoSnapshot \notin Snapshots

VARIABLES
    status,     \* exam_sessions.status
    byAdmin,    \* exam_sessions.terminated_by_admin
    score,      \* exam_sessions.score, as the grade counted for every question
    answers,    \* the answers rows of the session
    lock,       \* holder of the advisory lock and of the row lock (FOR UPDATE)
    pc,         \* where every request is
    op,         \* what kind of request it is
    work,       \* the payload it carries (NoAnswer: question not in it)
    cache,      \* the entities its ORM session has loaded
    reply       \* what its client was told

session == <<status, byAdmin, score>>
vars == <<status, byAdmin, score, answers, lock, pc, op, work, cache, reply>>

Stages == {"idle", "probed", "loaded", "locked", "retry", "relocked", "scored", "done"}
\* "ignored" is the answer whose message says that the session has been handed
\* in and the answer was ignored (its status field reads "saved" as well).
Replies == {"none", "saved", "ignored", "ended", "submitted", "already",
            "terminated", "error"}

TypeOK ==
    /\ status \in Statuses
    /\ byAdmin \in BOOLEAN
    /\ score \in Scores \union {NoScore}
    /\ answers \in [Questions -> Rows]
    /\ lock \in Requests \union {NoRequest}
    /\ pc \in [Requests -> Stages]
    /\ op \in [Requests -> AllOps \union {"none"}]
    /\ work \in [Requests -> Payloads]
    /\ cache \in [Requests -> Snapshots \union {NoSnapshot}]
    /\ reply \in [Requests -> Replies]

NoRow == [val |-> NoAnswer, grade |-> Ungraded]
NoWork == [q \in Questions |-> NoAnswer]

Init ==
    /\ status = "in_progress"
    /\ byAdmin = FALSE
    /\ score = NoScore
    /\ answers = [q \in Questions |-> NoRow]
    /\ lock = NoRequest
    /\ pc = [r \in Requests |-> "idle"]
    /\ op = [r \in Requests |-> "none"]
    /\ work = [r \in Requests |-> NoWork]
    /\ cache = [r \in Requests |-> NoSnapshot]
    /\ reply = [r \in Requests |-> "none"]

-----------------------------------------------------------------------------
(* Grading and the columns an ORM commit writes.                           *)

\* finalize_exam_session_submission: a persisted grade is reused, an
\* ungraded answer is graded now.
Graded(rows) ==
    [q \in Questions |->
        IF rows[q].grade = Ungraded /\ rows[q].val # NoAnswer
        THEN [rows[q] EXCEPT !.grade = rows[q].val]
        ELSE rows[q]]

\* Bug (mutant of Counted): the payload is added up instead of the points.
CountsPayloads(rows) == [q \in Questions |-> rows[q].val]

\* What the points of these rows add up to.
Counted(rows) == [q \in Questions |-> rows[q].grade]

\* Rows a request sees when it reads the answers again: those it already
\* loaded keep their first content, only rows new to it are current.
Reread(loaded) ==
    [q \in Questions |-> IF loaded[q].val = NoAnswer THEN answers[q] ELSE loaded[q]]

\* An UPDATE sets a column only if it changed since the request loaded it.
Column(loaded, new, stored) == IF new = loaded THEN stored ELSE new

\* Row after autosave stores v on an entity the request sees as loaded.
Autosaved(loaded, v, stored) ==
    CASE loaded.val = NoAnswer -> [val |-> v, grade |-> Ungraded]
      [] loaded.val = v -> stored
      [] OTHER -> [val |-> v, grade |-> Column(loaded.grade, Ungraded, stored.grade)]

InPayload(r, q) == work[r][q] # NoAnswer

-----------------------------------------------------------------------------
(* Steps that every kind of request has.                                   *)

Snapshot == [status |-> status, rows |-> answers, score |-> score]

Arrive(r, kind, payload, stage, snapshot, answer) ==
    /\ pc[r] = "idle"
    /\ kind \in Ops
    /\ pc' = [pc EXCEPT ![r] = stage]
    /\ op' = [op EXCEPT ![r] = kind]
    /\ work' = [work EXCEPT ![r] = payload]
    /\ cache' = [cache EXCEPT ![r] = snapshot]
    /\ reply' = [reply EXCEPT ![r] = answer]
    /\ UNCHANGED <<session, answers, lock>>

Reject(r, kind, payload, answer) == Arrive(r, kind, payload, "done", NoSnapshot, answer)

At(r, kind, stage) == op[r] = kind /\ pc[r] = stage

\* Bug (mutant of Finish): the transaction is left open with its lock.
FinishKeepsLock(r, answer) ==
    /\ pc' = [pc EXCEPT ![r] = "done"]
    /\ reply' = [reply EXCEPT ![r] = answer]
    /\ cache' = [cache EXCEPT ![r] = NoSnapshot]
    /\ UNCHANGED <<lock, op, work>>

\* The request is over; its transaction and its locks are gone with it.
Finish(r, answer) ==
    /\ pc' = [pc EXCEPT ![r] = "done"]
    /\ reply' = [reply EXCEPT ![r] = answer]
    /\ cache' = [cache EXCEPT ![r] = NoSnapshot]
    /\ lock' = IF lock = r THEN NoRequest ELSE lock
    /\ UNCHANGED <<op, work>>

\* pg_advisory_xact_lock, then SELECT ... FOR UPDATE.
TakeLock(r, stage) ==
    /\ lock = NoRequest
    /\ lock' = r
    /\ pc' = [pc EXCEPT ![r] = stage]
    /\ UNCHANGED <<session, answers, op, work, reply>>

\* The request ends without a commit: refused by a check, failed or crashed.
Fail(r) ==
    /\ pc[r] \notin {"idle", "done"}
    /\ Finish(r, "error")
    /\ UNCHANGED <<session, answers>>

-----------------------------------------------------------------------------
(* accept_single_answer                                                    *)

SingleProbe(r) == \E q \in Questions, v \in Values :
    LET payload == [NoWork EXCEPT ![q] = v] IN
    \/ /\ status = "in_progress"
       /\ Arrive(r, "single", payload, "probed", NoSnapshot, "none")
    \/ /\ status = "submitted"
       /\ Reject(r, "single", payload, "ignored")
    \/ /\ status = "terminated"
       /\ Reject(r, "single", payload, "ended")

\* Bug (mutant of SingleLock): the status is not checked again under the lock.
SingleLockUnchecked(r) ==
    /\ At(r, "single", "probed")
    /\ TakeLock(r, "locked")
    /\ UNCHANGED cache

\* _lock_session_for_single_answer: the first entity this request loads, so
\* the status under the lock is the stored one.  Otherwise it rolls back.
SingleLock(r) ==
    /\ At(r, "single", "probed")
    /\ lock = NoRequest
    /\ \/ /\ status = "in_progress"
          /\ TakeLock(r, "locked")
          /\ UNCHANGED cache
       \/ /\ status # "in_progress"
          /\ Finish(r, IF status = "submitted" THEN "ignored" ELSE "ended")
          /\ UNCHANGED <<session, answers>>

SingleCommit(r) ==
    /\ At(r, "single", "locked")
    /\ answers' = [q \in Questions |->
                     IF InPayload(r, q)
                     THEN [val |-> work[r][q], grade |-> work[r][q]]
                     ELSE answers[q]]
    /\ Finish(r, "saved")
    /\ UNCHANGED session

-----------------------------------------------------------------------------
(* accept_batch                                                            *)

BatchLoad(r) == \E payload \in Payloads \ {NoWork} :
    IF status = "in_progress"
    THEN Arrive(r, "batch", payload, "loaded", Snapshot, "none")
    ELSE Reject(r, "batch", payload, "ended")

\* _ensure_session_in_progress_for_user(lock_row=True) returns the entity of
\* BatchLoad: its status is the one read before the lock.
BatchLock(r) ==
    /\ At(r, "batch", "loaded")
    /\ cache[r].status = "in_progress"
    /\ TakeLock(r, "locked")
    /\ cache' = [cache EXCEPT ![r].rows = Reread(@)]

BatchCommit(r) ==
    /\ At(r, "batch", "locked")
    /\ answers' = [q \in Questions |->
                     IF InPayload(r, q)
                     THEN Autosaved(cache[r].rows[q], work[r][q], answers[q])
                     ELSE answers[q]]
    /\ Finish(r, "saved")
    /\ UNCHANGED session

\* The commit fails: the rollback expires every entity of the request.
BatchCommitFails(r) ==
    /\ At(r, "batch", "locked")
    /\ pc' = [pc EXCEPT ![r] = "retry"]
    /\ cache' = [cache EXCEPT ![r] = NoSnapshot]
    /\ lock' = NoRequest
    /\ UNCHANGED <<session, answers, op, work, reply>>

\* Bug (mutant of BatchRetryLock): the retry skips the status check.
BatchRetryLockUnchecked(r) ==
    /\ At(r, "batch", "retry")
    /\ TakeLock(r, "relocked")
    /\ UNCHANGED cache

\* _retry_batch_serialized, on freshly loaded rows.
BatchRetryLock(r) ==
    /\ At(r, "batch", "retry")
    /\ lock = NoRequest
    /\ \/ /\ status = "in_progress"
          /\ TakeLock(r, "relocked")
          /\ UNCHANGED cache
       \/ /\ status # "in_progress"
          /\ Finish(r, "ended")
          /\ UNCHANGED <<session, answers>>

BatchRetryCommit(r) ==
    /\ At(r, "batch", "relocked")
    /\ answers' = [q \in Questions |->
                     IF InPayload(r, q)
                     THEN [val |-> work[r][q], grade |-> Ungraded]
                     ELSE answers[q]]
    /\ Finish(r, "saved")
    /\ UNCHANGED session

-----------------------------------------------------------------------------
(* submit_exam                                                             *)

FinalProbe(r) ==
    \/ /\ status = "in_progress"
       /\ Arrive(r, "final", NoWork, "probed", NoSnapshot, "none")
    \/ /\ status = "submitted"
       /\ Reject(r, "final", NoWork, "already")
    \/ /\ status = "terminated"
       /\ Reject(r, "final", NoWork, "ended")

\* Bugs (mutants of FinalLock): no status check under the lock; a check that
\* knows only of sessions already submitted; a read that takes no lock.
FinalLockUnchecked(r) ==
    /\ At(r, "final", "probed")
    /\ TakeLock(r, "locked")
    /\ cache' = [cache EXCEPT ![r] = Snapshot]

FinalLockOnTerminated(r) ==
    /\ status # "submitted"
    /\ FinalLockUnchecked(r)

FinalLockMissing(r) ==
    /\ At(r, "final", "probed")
    /\ status = "in_progress"
    /\ pc' = [pc EXCEPT ![r] = "locked"]
    /\ cache' = [cache EXCEPT ![r] = Snapshot]
    /\ UNCHANGED <<session, answers, lock, op, work, reply>>

\* _load_session_for_finalize: again the first entity of this request.
FinalLock(r) ==
    /\ At(r, "final", "probed")
    /\ lock = NoRequest
    /\ \/ /\ status = "in_progress"
          /\ TakeLock(r, "locked")
          /\ cache' = [cache EXCEPT ![r] = Snapshot]
       \/ /\ status # "in_progress"
          /\ Finish(r, IF status = "submitted" THEN "already" ELSE "ended")
          /\ UNCHANGED <<session, answers>>

\* Bug (mutant of StoreFinalized): the UPDATE sets every column it has loaded.
StoreFinalizedWhole(r) ==
    LET graded == Graded(cache[r].rows)
    IN  /\ answers' = graded
        /\ score' = Counted(graded)
        /\ status' = "submitted"
        /\ UNCHANGED byAdmin

\* What a commit of the finalized entities writes over the stored rows.
StoreFinalized(r) ==
    LET loaded == cache[r]
        graded == Graded(loaded.rows)
    IN  /\ answers' = [q \in Questions |->
                         [answers[q] EXCEPT !.grade =
                             Column(loaded.rows[q].grade, graded[q].grade, @)]]
        /\ score' = Column(loaded.score, Counted(graded), score)
        /\ status' = Column(loaded.status, "submitted", status)
        /\ UNCHANGED byAdmin

FinalCommit(r) ==
    /\ At(r, "final", "locked")
    /\ StoreFinalized(r)
    /\ Finish(r, "submitted")

-----------------------------------------------------------------------------
(* Staff and scheduler: none takes the advisory lock or FOR UPDATE, but    *)
(* their UPDATE of the session row waits for whoever holds the row lock.   *)

ForceLoad(r) ==
    \/ /\ status = "in_progress"
       /\ Arrive(r, "force", NoWork, "loaded", Snapshot, "none")
    \/ /\ status = "submitted"
       /\ Reject(r, "force", NoWork, "already")
    \/ /\ status = "terminated"
       /\ Reject(r, "force", NoWork, "ended")

ForceCommit(r) ==
    /\ At(r, "force", "loaded")
    /\ lock = NoRequest
    /\ StoreFinalized(r)
    /\ Finish(r, "submitted")

\* The scheduler's second phase: sessions found expired and still in progress.
ExpireLoad(r) ==
    /\ status = "in_progress"
    /\ Arrive(r, "expire", NoWork, "loaded", Snapshot, "none")

ExpireCommit(r) ==
    /\ At(r, "expire", "loaded")
    /\ lock = NoRequest
    /\ StoreFinalized(r)
    /\ Finish(r, "submitted")

TerminateLoad(r) ==
    IF status = "in_progress"
    THEN Arrive(r, "terminate", NoWork, "loaded", Snapshot, "none")
    ELSE Reject(r, "terminate", NoWork, "ended")

\* recalculate_session_score sets and commits the score of the graded rows
\* and returns nothing.
TerminateScore(r) ==
    LET seen == Reread(cache[r].rows) IN
    /\ At(r, "terminate", "loaded")
    /\ lock = NoRequest
    /\ score' = Column(cache[r].score, Counted(seen), score)
    /\ cache' = [cache EXCEPT ![r].score = Counted(seen), ![r].rows = seen]
    /\ pc' = [pc EXCEPT ![r] = "scored"]
    /\ UNCHANGED <<status, byAdmin, answers, lock, op, work, reply>>

\* ... so that session.score = score stores NULL.
TerminateCommit(r) ==
    /\ At(r, "terminate", "scored")
    /\ lock = NoRequest
    /\ score' = Column(cache[r].score, NoScore, score)
    /\ status' = Column(cache[r].status, "terminated", status)
    /\ byAdmin' = TRUE
    /\ Finish(r, "terminated")
    /\ UNCHANGED answers

KickLoad(r) == Arrive(r, "kick", NoWork, "loaded", Snapshot, "none")

KickCommit(r) ==
    /\ At(r, "kick", "loaded")
    /\ lock = NoRequest
    /\ status' = Column(cache[r].status, "terminated", status)
    /\ byAdmin' = TRUE
    /\ Finish(r, "terminated")
    /\ UNCHANGED <<score, answers>>

-----------------------------------------------------------------------------
SingleStep(r) == SingleProbe(r) \/ SingleLock(r) \/ SingleCommit(r)
BatchStep(r) ==
    \/ BatchLoad(r) \/ BatchLock(r) \/ BatchCommit(r)
    \/ BatchCommitFails(r) \/ BatchRetryLock(r) \/ BatchRetryCommit(r)
FinalStep(r) == FinalProbe(r) \/ FinalLock(r) \/ FinalCommit(r)
ForceStep(r) == ForceLoad(r) \/ ForceCommit(r)
ExpireStep(r) == ExpireLoad(r) \/ ExpireCommit(r)
TerminateStep(r) == TerminateLoad(r) \/ TerminateScore(r) \/ TerminateCommit(r)
KickStep(r) == KickLoad(r) \/ KickCommit(r)

\* Every request has been answered.
Quiet == (\A r \in Requests : pc[r] = "done") /\ UNCHANGED vars

Next ==
    \/ \E r \in Requests :
        \/ SingleStep(r) \/ BatchStep(r) \/ FinalStep(r)
        \/ ForceStep(r) \/ ExpireStep(r) \/ TerminateStep(r) \/ KickStep(r)
        \/ Fail(r)
    \/ Quiet

Spec == Init /\ [][Next]_vars

\* What the server does for a request it has read, commit or wait for the lock.
Serve(r) ==
    \/ SingleLock(r) \/ SingleCommit(r)
    \/ BatchLock(r) \/ BatchCommit(r) \/ BatchRetryLock(r) \/ BatchRetryCommit(r)
    \/ FinalLock(r) \/ FinalCommit(r) \/ ForceCommit(r) \/ ExpireCommit(r)
    \/ TerminateScore(r) \/ TerminateCommit(r) \/ KickCommit(r)

\* PostgreSQL queues the waiters of a lock, so a request that waits again and
\* again for a lock that is freed again and again gets it: strong fairness.
FairSpec == Spec /\ \A r \in Requests : SF_vars(Serve(r))

-----------------------------------------------------------------------------
(* Properties.                                                             *)

\* A student handed in the paper for good: the score counts exactly the
\* answers that are stored, now and ever after.  It relates the rows written
\* by accept_single_answer to the score written by submit_exam, and holds
\* when requests of LockedOps are the only ones.
SubmittedScoreIsOfStoredAnswers ==
    status = "submitted" =>
        score = [q \in Questions |->
                    IF answers[q].val = NoAnswer THEN Ungraded ELSE answers[q].val]

\* A session closed by an administrator is never turned into a submitted one
\* by a final submit that was already on its way (LockedOps only: the
\* teacher's force-submit does that).
KickedStaysTerminated == byAdmin => status = "terminated"

\* Requests of LockedOps implement the abstract paper.
Paper == INSTANCE ExamPaper WITH
    paper <- CASE status = "in_progress" -> "open"
               [] status = "submitted" -> "submitted"
               [] OTHER -> "closed",
    sheet <- [q \in Questions |-> answers[q].val],
    result <- IF score = NoScore THEN NoScore
              ELSE [q \in Questions |-> IF score[q] = Ungraded THEN NoAnswer ELSE score[q]]

PaperSpec == Paper!Spec

\* Whoever waits for the session's lock is answered in the end, whatever the
\* other requests do with it.
EveryRequestIsAnswered ==
    \A r \in Requests : pc[r] # "idle" ~> pc[r] = "done"

\* The duplicate final submits of an impatient client grade the paper once,
\* even when staff act on the session at the same time.
FinalizedOnceByStudent ==
    \A r1, r2 \in Requests :
        /\ op[r1] = "final" /\ reply[r1] = "submitted"
        /\ op[r2] = "final" /\ reply[r2] = "submitted"
        => r1 = r2

Answers(r, answer) == reply[r] # answer /\ reply'[r] = answer

\* A client is told "saved" by submit-answer, or by the retried autosave, only
\* if its write reached a session that was still open at that moment.
SavedOnlyWhileOpen ==
    [][\A r \in Requests :
        Answers(r, "saved") /\ (op[r] = "single" \/ pc[r] = "relocked")
            => status = "in_progress"]_vars

\* The student's final submit counts what is stored when it commits: no
\* answer slips in between its read and its commit, whoever else writes.
FinalCountsStoredAnswers ==
    [][\A r \in Requests :
        Answers(r, "submitted") /\ op[r] = "final"
            => score' = Counted(answers')]_vars

\* An autosave commits its answer to q: it has loaded the session while it was open.
Autosaves(r, q) ==
    /\ At(r, "batch", "locked") /\ cache[r].status = "in_progress"
    /\ answers'[q].val = work[r][q]
    /\ Answers(r, "saved")

\* A session that has ended is not opened again, and its answers stand, whoever
\* is still at work on it: all but an autosave that has loaded it before the end.
EndedSheetStands ==
    [][status # "in_progress" =>
        /\ status' # "in_progress"
        /\ \A q \in Questions :
              answers'[q].val # answers[q].val => \E r \in Requests : Autosaves(r, q)]_vars

\* docs/phase-5-6-vps-architecture-readiness-audit-20260606.md:400: "Late
\* answer writes after submitted must not reopen/modify submitted results."
\* accept_batch rechecks the status on the entity it loaded before the lock.
LateWritesLeaveResultsAlone ==
    [][status = "submitted" => UNCHANGED <<status, answers, score>>]_vars

\* app/services/exam_submission_service.py:74: answers stored by autosave "keep
\* `is_correct` as NULL; those must be re-graded on submit", so that the grade
\* of every answer of a submitted paper is the grade of that answer.
EveryAnswerIsGradedOnSubmit ==
    [][status = "in_progress" /\ status' = "submitted" =>
        \A q \in Questions :
            answers'[q].val # NoAnswer => answers'[q].grade = answers'[q].val]_vars

-----------------------------------------------------------------------------
(* The inductive invariant behind the properties.                          *)

HoldsLock(r) == pc[r] \in {"locked", "relocked"}

\* A request past its load has the entities it will write.
EntitiesLoaded == \A r \in Requests :
    pc[r] \in {"loaded", "scored"} \/ (pc[r] = "locked" /\ op[r] \in {"batch", "final"})
        => cache[r] \in Snapshots

LockIsExclusive == \A r \in Requests : HoldsLock(r) <=> lock = r

\* Under the lock, whoever read the status there knows the session is open.
LockedIsOpen == \A r \in Requests :
    HoldsLock(r) /\ ~At(r, "batch", "locked") => status = "in_progress"

\* Nobody writes between the locked read of a final submit and its commit.
FinalSeesAll == \A r \in Requests : At(r, "final", "locked") => cache[r] = Snapshot

SubmittedIsClosed == \A r \in Requests :
    op[r] = "final" /\ reply[r] = "submitted" => status # "in_progress"

IInv ==
    /\ TypeOK
    /\ EntitiesLoaded
    /\ LockIsExclusive
    /\ LockedIsOpen
    /\ FinalSeesAll
    /\ SubmittedIsClosed
    /\ FinalizedOnceByStudent

\* Without autosave and force-submit every stored row carries its own grade.
RowsAreGraded == \A q \in Questions :
    answers[q].grade = IF answers[q].val = NoAnswer THEN Ungraded ELSE answers[q].val

\* Without a way to reopen, a session once seen terminated stays terminated.
TerminatedWhenSeen == \A r \in Requests :
    At(r, "kick", "loaded") /\ cache[r].status = "terminated" => status = "terminated"

OnlyLockedOps == \A r \in Requests :
    /\ op[r] \in LockedOps \union {"none"}
    /\ op[r] = "single" =>
          \E q \in Questions, v \in Values : work[r] = [NoWork EXCEPT ![q] = v]

LockedInv ==
    /\ OnlyLockedOps
    /\ RowsAreGraded
    /\ TerminatedWhenSeen
    /\ status = "submitted" => score = Counted(answers)
    /\ KickedStaysTerminated
=============================================================================
