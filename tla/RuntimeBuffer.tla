--------------------------- MODULE RuntimeBuffer ---------------------------
(***************************************************************************)
(* The Redis answer buffer of one exam session (ANSWER_WRITE_MODE=hybrid): *)
(* answers are accepted into a hash with a set of dirty questions, and     *)
(* flushed to PostgreSQL by the drain loops of the server processes and by *)
(* a final submit.  Redis executes one command, or one MULTI pipeline, at  *)
(* a time; everything between two of them, and between them and a commit,  *)
(* is open to the others.                                                  *)
(*                                                                         *)
(* Simplifications.  One session: the lists pending and processing only    *)
(* say how often they hold it.  A write carries one answer: the answers of *)
(* a batch share one pipeline and nothing else, and this makes reading the *)
(* dirty set and then the hash (and, without a way to reopen a session,    *)
(* its status) one step.  A flush stores and commits in one step once it   *)
(* has the session's lock.  The four hours after which the keys expire are *)
(* longer than an exam.                                                    *)
(***************************************************************************)
EXTENDS Integers

CONSTANTS
    Writers,    \* answer requests: single answers and batches
    Submits,    \* final submits of the student
    Drainers,   \* drain loops, one per server process
    Questions,  \* questions of the exam
    Values,     \* payloads a question can be answered with
    NoAnswer,   \* no field in the hash, or no answers row
    NoScore,    \* exam_sessions.score IS NULL
    NoHolder    \* nobody holds the lock

Processes == Writers \union Submits \union Drainers
Flushers == Submits \union Drainers
Sheets == [Questions -> Values \union {NoAnswer}]

ASSUME ConstantsAssumption ==
    /\ NoAnswer \notin Values
    /\ NoScore \notin Sheets
    /\ NoHolder \notin Processes
    /\ Writers \cap Flushers = {}
    /\ Submits \cap Drainers = {}

VARIABLES
    status,     \* exam_sessions.status
    rows,       \* the answers rows
    score,      \* what the final submit counted
    buffer,     \* runtime:session:{id}:answers
    dirty,      \* runtime:session:{id}:dirty_questions
    queued,     \* runtime:answer_queue:queued:{id} exists
    pending,    \* copies of the session in runtime:answer_queue:pending
    processing, \* copies of it in runtime:answer_queue:processing
    sessionLock,\* holder of the session's advisory lock
    flushLock,  \* whose token runtime:answer_queue:flush:lock holds
    pc,         \* where every process is
    taken,      \* the payloads a flush has read
    claimed,    \* copies a drain loop has claimed and not yet flushed
    known,      \* history: questions in the buffer when a submit arrived
    accepted    \* history: the answers buffered while the session was open

\* accepted is kept beside the status it depends on.
database == <<status, rows, score, accepted>>
lists == <<queued, pending, processing>>
redis == <<buffer, dirty, lists>>
locks == <<sessionLock, flushLock>>
local == <<taken, claimed, known>>
vars == <<database, redis, locks, pc, local>>

FlushStages == {"read", "store", "clear", "count", "ack", "ackMark", "restore", "restorePush"}
Stages == FlushStages \union
    {"idle", "checked", "written", "marked", "enqueued", "flushed",
     "claim", "release", "done", "submitted"}

NoPayload == [q \in Questions |-> NoAnswer]

TypeOK ==
    /\ status \in {"in_progress", "submitted", "terminated"}
    /\ rows \in Sheets
    /\ score \in Sheets \union {NoScore}
    /\ buffer \in Sheets
    /\ dirty \subseteq Questions
    /\ queued \in BOOLEAN
    /\ pending \in Nat /\ processing \in Nat
    /\ sessionLock \in Processes \union {NoHolder}
    /\ flushLock \in Drainers \union {NoHolder}
    /\ pc \in [Processes -> Stages]
    /\ taken \in [Flushers -> Sheets]
    /\ claimed \in [Drainers -> Nat]
    /\ known \in [Submits -> SUBSET Questions]
    /\ accepted \in [Questions -> SUBSET Values]

Init ==
    /\ status = "in_progress"
    /\ rows = NoPayload
    /\ score = NoScore
    /\ buffer = NoPayload
    /\ dirty = {}
    /\ queued = FALSE
    /\ pending = 0 /\ processing = 0
    /\ sessionLock = NoHolder
    /\ flushLock = NoHolder
    /\ pc = [p \in Processes |-> "idle"]
    /\ taken = [f \in Flushers |-> NoPayload]
    /\ claimed = [d \in Drainers |-> 0]
    /\ known = [s \in Submits |-> {}]
    /\ accepted = [q \in Questions |-> {}]

Go(p, from, to) == pc[p] = from /\ pc' = [pc EXCEPT ![p] = to]

Answered(sheet) == {q \in Questions : sheet[q] # NoAnswer}

\* What is on top wherever it has an answer.
Over(top, sheet) == [q \in Questions |-> IF top[q] = NoAnswer THEN sheet[q] ELSE top[q]]

-----------------------------------------------------------------------------
(* Accepting an answer.                                                    *)

\* accept_single_answer buffers with the session locked and found open ...
SingleCheck(w) ==
    /\ sessionLock = NoHolder
    /\ status = "in_progress"
    /\ Go(w, "idle", "checked")
    /\ sessionLock' = w
    /\ UNCHANGED <<database, redis, flushLock, local>>

\* ... accept_batch and accept_journal_events only look whether it is open.
BatchCheck(w) ==
    /\ status = "in_progress"
    /\ Go(w, "idle", "checked")
    /\ UNCHANGED <<database, redis, locks, local>>

WriterRefused(w) ==
    /\ status # "in_progress"
    /\ Go(w, "idle", "done")
    /\ UNCHANGED <<database, redis, locks, local>>

\* The pipeline of _write_answer_buffer.
BufferAnswer(w, q, v) ==
    /\ Go(w, "checked", "written")
    /\ buffer' = [buffer EXCEPT ![q] = v]
    /\ dirty' = dirty \union {q}
    /\ accepted' = IF status = "in_progress" THEN [accepted EXCEPT ![q] = @ \union {v}]
                                             ELSE accepted
    /\ UNCHANGED <<status, rows, score, lists, locks, local>>

\* _enqueue_session_for_flush: SET NX, and only the first one pushes.
MarkQueued(w) ==
    /\ Go(w, "written", IF queued THEN "enqueued" ELSE "marked")
    /\ queued' = TRUE
    /\ UNCHANGED <<database, buffer, dirty, pending, processing, locks, local>>

PushPending(w) ==
    /\ Go(w, "marked", "enqueued")
    /\ pending' = pending + 1
    /\ UNCHANGED <<database, buffer, dirty, queued, processing, locks, local>>

Unlocked(p) == IF sessionLock = p THEN NoHolder ELSE sessionLock

ReplySaved(w) ==
    /\ Go(w, "enqueued", "done")
    /\ sessionLock' = Unlocked(w)
    /\ UNCHANGED <<database, redis, flushLock, local>>

WriterStep(w) ==
    \/ SingleCheck(w) \/ BatchCheck(w) \/ WriterRefused(w)
    \/ \E q \in Questions, v \in Values : BufferAnswer(w, q, v)
    \/ MarkQueued(w) \/ PushPending(w) \/ ReplySaved(w)

-----------------------------------------------------------------------------
(* _flush_session_buffer, by a drain loop or by a final submit.            *)

\* Bug (mutant of FlushRead): the flush does not look at the status.
FlushReadAnyStatus(f) ==
    /\ taken' = [taken EXCEPT ![f] = [q \in Questions |->
                    IF q \in dirty THEN buffer[q] ELSE NoAnswer]]
    /\ Go(f, "read", IF dirty # {} THEN "store" ELSE "ack")
    /\ UNCHANGED <<database, redis, locks, claimed, known>>

FlushRead(f) ==
    /\ taken' = [taken EXCEPT ![f] = [q \in Questions |->
                    IF q \in dirty THEN buffer[q] ELSE NoAnswer]]
    /\ IF dirty # {} /\ status = "in_progress"
       THEN Go(f, "read", "store")
       ELSE Go(f, "read", "ack")
    /\ UNCHANGED <<database, redis, locks, claimed, known>>

\* The status is not read again under the lock.
FlushStore(f) ==
    /\ Go(f, "store", "clear")
    /\ sessionLock = NoHolder
    /\ rows' = Over(taken[f], rows)
    /\ UNCHANGED <<status, score, accepted, redis, locks, local>>

\* The payloads are local to one flush.
Forget(f) == taken' = [taken EXCEPT ![f] = NoPayload]

\* Bug (mutant of FlushClear): the whole dirty set is deleted.
FlushClearEverything(f) ==
    /\ Go(f, "clear", "count")
    /\ dirty' = {}
    /\ Forget(f)
    /\ UNCHANGED <<database, buffer, lists, locks, claimed, known>>

FlushClear(f) ==
    /\ Go(f, "clear", "count")
    /\ dirty' = dirty \ Answered(taken[f])
    /\ Forget(f)
    /\ UNCHANGED <<database, buffer, lists, locks, claimed, known>>

FlushCount(f) ==
    /\ Go(f, "count", IF dirty = {} THEN "ack" ELSE "restore")
    /\ UNCHANGED <<database, redis, locks, local>>

\* _ack_processing_session: both lists, then the mark.
AckLists(f) ==
    /\ Go(f, "ack", "ackMark")
    /\ pending' = 0
    /\ processing' = 0
    /\ UNCHANGED <<database, buffer, dirty, queued, locks, local>>

AckMark(f) ==
    /\ Go(f, "ackMark", "flushed")
    /\ queued' = FALSE
    /\ UNCHANGED <<database, buffer, dirty, pending, processing, locks, local>>

\* _restore_processing_session.
RestoreProcessing(f) ==
    /\ Go(f, "restore", "restorePush")
    /\ processing' = IF processing = 0 THEN 0 ELSE processing - 1
    /\ UNCHANGED <<database, buffer, dirty, queued, pending, locks, local>>

RestorePending(f) ==
    /\ Go(f, "restorePush", "flushed")
    /\ pending' = pending + 1
    /\ UNCHANGED <<database, buffer, dirty, queued, processing, locks, local>>

\* Bug (mutant of FlushFails): a final submit goes on when its flush failed.
FlushFailsSilently(f) ==
    /\ pc[f] \in {"read", "store", "clear", "count", "ack", "ackMark"}
    /\ Go(f, pc[f], IF f \in Drainers THEN "restore" ELSE "flushed")
    /\ Forget(f)
    /\ UNCHANGED <<database, redis, locks, claimed, known>>

\* Redis or PostgreSQL refuses: a drain loop puts the session back, a final
\* submit answers 503.
FlushFails(f) ==
    /\ pc[f] \in {"read", "store", "clear", "count", "ack", "ackMark"}
    /\ Go(f, pc[f], IF f \in Drainers THEN "restore" ELSE "done")
    /\ Forget(f)
    /\ UNCHANGED <<database, redis, locks, claimed, known>>

FlushStep(f) ==
    \/ FlushRead(f) \/ FlushStore(f) \/ FlushClear(f) \/ FlushCount(f)
    \/ AckLists(f) \/ AckMark(f)
    \/ RestoreProcessing(f) \/ RestorePending(f)
    \/ FlushFails(f)

-----------------------------------------------------------------------------
(* flush_runtime_answer_buffer_once                                        *)

DrainStart(d) ==
    /\ flushLock = NoHolder
    /\ Go(d, "idle", "claim")
    /\ flushLock' = d
    /\ UNCHANGED <<database, redis, sessionLock, local>>

DrainClaim(d) ==
    /\ pc[d] = "claim"
    /\ pending > 0
    /\ pending' = pending - 1
    /\ processing' = processing + 1
    /\ claimed' = [claimed EXCEPT ![d] = @ + 1]
    /\ UNCHANGED <<database, buffer, dirty, queued, locks, pc, taken, known>>

DrainClaimed(d) ==
    /\ pending = 0
    /\ Go(d, "claim", "flushed")
    /\ UNCHANGED <<database, redis, locks, local>>

\* Bug (mutant of DrainNext): one more session than were claimed.
DrainNextUnguarded(d) ==
    /\ Go(d, "flushed", "read")
    /\ claimed' = [claimed EXCEPT ![d] = @ - 1]
    /\ UNCHANGED <<database, redis, locks, taken, known>>

\* The next claimed session.
DrainNext(d) ==
    /\ claimed[d] > 0
    /\ Go(d, "flushed", "read")
    /\ claimed' = [claimed EXCEPT ![d] = @ - 1]
    /\ UNCHANGED <<database, redis, locks, taken, known>>

\* The lock is released in two commands: compare, then delete.
DrainEnd(d) ==
    /\ claimed[d] = 0
    /\ Go(d, "flushed", IF flushLock = d THEN "release" ELSE "idle")
    /\ UNCHANGED <<database, redis, locks, local>>

DrainRelease(d) ==
    /\ Go(d, "release", "idle")
    /\ flushLock' = NoHolder
    /\ UNCHANGED <<database, redis, sessionLock, local>>

\* PROCESS_LOCK_TTL_SECONDS after it was taken, whatever its holder does.
FlushLockExpires ==
    /\ flushLock # NoHolder
    /\ flushLock' = NoHolder
    /\ UNCHANGED <<database, redis, sessionLock, pc, local>>

DrainStep(d) ==
    \/ DrainStart(d) \/ DrainClaim(d) \/ DrainClaimed(d)
    \/ DrainNext(d) \/ DrainEnd(d) \/ DrainRelease(d)

-----------------------------------------------------------------------------
(* The final submit around its flush, and everything that fails.           *)

SubmitProbe(s) ==
    /\ status = "in_progress"
    /\ Go(s, "idle", "read")
    /\ known' = [known EXCEPT ![s] = Answered(buffer)]
    /\ UNCHANGED <<database, redis, locks, taken, claimed>>

SubmitRefused(s) ==
    /\ status # "in_progress"
    /\ Go(s, "idle", "done")
    /\ UNCHANGED <<database, redis, locks, local>>

\* The locked load, its check of the status, and the grading of the rows.
SubmitGrade(s) ==
    /\ sessionLock = NoHolder
    /\ \/ /\ status = "in_progress"
          /\ Go(s, "flushed", "submitted")
          /\ status' = "submitted"
          /\ score' = rows
       \/ /\ status # "in_progress"
          /\ Go(s, "flushed", "done")
          /\ UNCHANGED <<status, score>>
    /\ UNCHANGED <<rows, accepted, redis, locks, local>>

SubmitStep(s) == SubmitProbe(s) \/ SubmitRefused(s) \/ SubmitGrade(s)

\* kick_student_from_exam, which flushes nothing.
Kick ==
    /\ sessionLock = NoHolder
    /\ status = "in_progress"
    /\ status' = "terminated"
    /\ UNCHANGED <<rows, score, accepted, redis, locks, pc, local>>

\* The server process of a request or of a drain loop dies; the loop starts
\* again with the process, what it had claimed stays in processing.
Crash(p) ==
    /\ pc[p] \notin {"idle", "done", "submitted"}
    /\ pc' = [pc EXCEPT ![p] = IF p \in Drainers THEN "idle" ELSE "done"]
    /\ claimed' = IF p \in Drainers THEN [claimed EXCEPT ![p] = 0] ELSE claimed
    /\ taken' = IF p \in Flushers THEN [taken EXCEPT ![p] = NoPayload] ELSE taken
    /\ sessionLock' = Unlocked(p)
    /\ UNCHANGED <<database, redis, flushLock, known>>

Next ==
    \/ \E w \in Writers : WriterStep(w)
    \/ \E f \in Flushers : FlushStep(f)
    \/ \E d \in Drainers : DrainStep(d)
    \/ \E s \in Submits : SubmitStep(s)
    \/ \E p \in Processes : Crash(p)
    \/ FlushLockExpires
    \/ Kick

Spec == Init /\ [][Next]_vars

-----------------------------------------------------------------------------
(* Properties.                                                             *)

\* No crash, failed flush, expired lock or second drain loop makes the server
\* forget that a question was answered: what the buffer holds is still to be
\* flushed, or the answers table has an answer for that question.  (Not always
\* the last one: a write between a flush's read and its srem loses its mark.)
AnsweredIsKept == Answered(buffer) \subseteq dirty \union Answered(rows)

\* A paper is handed in without a blank where an answer had been accepted before
\* the final submit arrived, whatever the drain loops were doing meanwhile.
NoAcceptedAnswerIsBlank ==
    \A s \in Submits : pc[s] = "submitted" => known[s] \subseteq Answered(score)

\* The buffer implements the abstract paper: whatever crashes, fails, expires
\* or flushes late, only answers that were buffered while the session was open
\* reach the table or the score, although a batch may be buffered, and reported
\* as saved, after the end.
PaperOf == [in_progress |-> "open", submitted |-> "submitted", terminated |-> "closed"]

Paper == INSTANCE BufferedPaper WITH
    paper <- PaperOf[status],
    heard <- accepted,
    sheet <- rows,
    result <- score

BufferedSpec == Paper!Spec

-----------------------------------------------------------------------------
(* The inductive invariant behind them.                                    *)

\* What the buffer holds of an open session, and what a flush is about to
\* store, was buffered while the session was open.
Heard(sheet) == \A q \in Questions : sheet[q] \in accepted[q] \union {NoAnswer}

OnlyHeard ==
    /\ Heard(rows)
    /\ status = "in_progress" => Heard(buffer)
    /\ \A f \in Flushers : pc[f] = "store" => Heard(taken[f])

\* A flush clears only questions that it has stored.
StoredBeforeCleared ==
    \A f \in Flushers : pc[f] = "clear" => Answered(taken[f]) \subseteq Answered(rows)

\* What a submit knew is stored when its flush has nothing left to do.
KnownOf(s) ==
    /\ known[s] \subseteq Answered(buffer)
    /\ pc[s] = "store" => known[s] \subseteq Answered(taken[s]) \union Answered(rows)
    /\ pc[s] \in {"clear", "count", "restore", "restorePush"}
          => known[s] \subseteq Answered(rows)
    /\ pc[s] \in {"ack", "ackMark", "flushed"} /\ status = "in_progress"
          => known[s] \subseteq Answered(rows)

KnownIsPending == \A s \in Submits : KnownOf(s)

SubmittedIsClosed == \A s \in Submits : pc[s] = "submitted" => status # "in_progress"

IInv ==
    /\ TypeOK
    /\ AnsweredIsKept
    /\ StoredBeforeCleared
    /\ KnownIsPending
    /\ SubmittedIsClosed
    /\ NoAcceptedAnswerIsBlank
    /\ OnlyHeard
=============================================================================
