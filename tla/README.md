# Verification of Ujianonline

Ujianonline is an online examination platform: a FastAPI server on PostgreSQL
and Redis, background workers, a web page for the exam and a native (Flutter)
client around it. This directory holds TLA+ models of the parts where several
actors change the same exam at the same time, the TLC runs that check them on
small instances, and theorems about them checked by TLAPS.

`PROJECT.json` lists components, runs, hazards and findings, and gives for every
definition the source lines it stands for.

## 1. Inventory

### What keeps state, and who changes it

| Part | State | Operations | Talks to |
|---|---|---|---|
| Answer writes (`services/answer_sync_service.py`) | `answers` rows, one per session and question | `accept_single_answer`, `accept_batch` (+ `_retry_batch_serialized`), `accept_journal_events` | session row, Redis idempotency set, runtime snapshot |
| Final submit (`services/final_submit_service.py`, `services/exam_submission_service.py`) | `exam_sessions.status`, `score`, grades of the rows | probe, locked load, finalize, commit | answer writes through the advisory lock and the row lock |
| Staff (`api/exams.py`, `api/exam_admin.py`, `api/monitoring.py`) | the same columns, `terminated_by_admin` | force-submit, terminate, kick, reset, reopen, emergency exit | no advisory lock at all |
| Scheduler (`tasks/scheduler.py`) | the same columns | close expired sessions, publish and unpublish exams | no advisory lock |
| Session lifecycle (`api/exams.py`, `core/session_recovery.py`) | one active session per user and exam | start, join, resume, reset, reopen, recover | unique partial index, Redis |
| Pauses (`api/exam_pause_control.py`) | `is_paused`, `paused_at`, `total_paused_seconds` | pause, resume, per exam and per session | scheduler (effective end), snapshot |
| Native client journal (`exam_resilience_service.dart`) | events and next sequence number in the secure storage, an in-flight flag in memory | append, flush, restart, clear | `accept_journal_events` over HTTP with a timeout |
| Web client (`static/js/exam-system/modules`) | answers in memory, and in IndexedDB with a synced flag | choose, type, sync worker, autosave, reload, submit | `accept_single_answer`, `accept_batch` |
| Runtime buffer and legacy queue (`services/answer_runtime_buffer.py`, `tasks/answer_processor.py`) | answers, dirty sets and queue in Redis | buffer, drain, recover | `answers` rows; used only if `ANSWER_WRITE_MODE` is not `direct` |
| Runtime snapshots (`core/exam_runtime_state.py`, `core/redis_pubsub.py`) | `exam_session:{id}` | read, change, store, by many writers | everything above |
| Violations (`services/violation_event_service.py`) | dedupe keys, pending list, dead letters, counts | record, drain, dead-letter, terminate | session row, snapshot |
| Essay grading (`api/grading.py`) | grades, metadata, score | grade, bulk grade, recalculate | session row |
| Authentication (`core/token_service.py`, `core/account_lockout.py`) | refresh tokens in families, counters | rotate, revoke, lock out | users |

### What is hard about it

* A request is a coroutine with one database session. Between two of its awaits
  anything can happen; only the advisory lock `pg_advisory_xact_lock(48102, id)`
  and `SELECT ... FOR UPDATE` order the writers of a session, and only those
  who take them.
* The ORM keeps what it has loaded. The session factory sets
  `expire_on_commit=False`, no query asks for `populate_existing`, so a row that
  is read again, even `FOR UPDATE`, still has the attributes of the first read,
  and an UPDATE contains only the columns that differ from it.
* The client gives requests up and repeats them while the server may still be
  working; the idempotency set is in Redis, outside the transaction.
* The client's journal is read, changed and written back across awaits; the web
  page's parts (worker, autosave, submit) each await requests of their own.
* Locks in Redis expire while their holder works, and are released by a GET and a
  DEL; lists in Redis and tables in PostgreSQL change in two steps of which one
  may fail.
* A pause is a pair of columns on the exam and on every session, changed by
  requests that overlap, and read by the scheduler and by the student's page.

### What makes the parts correct

* A submitted score counts exactly the stored answers; nothing is written into a
  session that is over; a kick is final; a paper is graded once.
* Whoever is told "saved" has written into a session that was still open.
* An acknowledged event is durable; an event the server skips as a duplicate is
  durable; no event is lost or applied over a newer one; retries end.
* What a student answered is on the server or still to be sent; what the flush
  before a submit saved is handed in; the page is left only after the hand-in.
* A buffered answer is stored or still marked for storing; no accepted answer is
  handed in as a blank.
* A student has one open session per exam; what staff ended stays ended unless
  staff overrides it; the columns of a session agree with its status.
* The time of a pause is credited; no session is closed before it had its time;
  every session ends.
* A violation report is handled once and not lost; counts agree with the log; a
  session that ended keeps its log and its count; the queue is drained.

## 2. Modules

| Module | What it is | Theorems in |
|---|---|---|
| `ExamPaper` | Abstract: a paper is open, submitted or closed; answers can be saved while it is open; handing it in counts exactly what is on the sheet. | |
| `Attempts` | Abstract: the sessions of a student in an exam are opened, handed in, decided on, reopened by an override and deleted in one step each. | |
| `ViolationLog` | Abstract: a violation report is accepted, logged and counted once, and only while its session goes on; it is lost only if something fails. | |
| `BufferedPaper` | Abstract: a buffered answer counts as heard while the paper is open; only what was heard is stored, at any time, or counted. | |
| `SessionWrites` | One session and all requests that write it (7 kinds), with locks, stale entities and failures. Implements `ExamPaper` for three of the kinds. | `SessionWritesProofs` |
| `AnswerJournal` | The native client's journal, overlapping flushes and the server's `accept_journal_events`, with timeouts, crashes and eviction. | `AnswerJournalProofs` |
| `WebAnswers` | The exam page of the web client with its worker, autosave, submit and reload. Its server side implements `ExamPaper`. | `WebAnswersProofs` |
| `RuntimeBuffer` | The Redis buffer of hybrid mode: writers, drain loops of several processes, the flush of a final submit. Implements `BufferedPaper`. | `RuntimeBufferProofs` |
| `SessionLifecycle` | The sessions of one student in one exam: start, resume, submit, staff, scheduler, deletion. Implements `Attempts`. | `SessionLifecycleProofs` |
| `PauseClock` | Pauses of exam and sessions, the time shown, and the scheduler, on a clock. | `PauseClockProofs` |
| `ViolationQueue` | The asynchronous path of violation events, from the report to the log and the count. Implements `ViolationLog`. | `ViolationQueueProofs` |
| `MC...` | One instance each for TLC: symmetry sets and constant functions. | |

The modules cut the system at the session row. `SessionWrites` has the locks and
the ORM in full and one session; `WebAnswers`, `RuntimeBuffer` and
`SessionLifecycle` take from it that a save or a submit is one step, and say in
their headers what `SessionWrites` adds. For `WebAnswers` this is proved on both
sides: submit-answer, final submit and kick of `SessionWrites` implement `ExamPaper`,
and so does the server side of `WebAnswers`. The batch that the web client also
uses implements it only as long as it does not wait for the lock of a final submit;
what happens then is the run `late`. `PauseClock` takes closing as one step,
and `ViolationQueue` takes the end of a session as one.

### SessionWrites and the code

| State | In the code |
|---|---|
| `status`, `byAdmin`, `score` | the columns of the `exam_sessions` row; `completed` is treated as `submitted` everywhere in the modelled code, so one value stands for both |
| `answers` | the `answers` rows: payload and grade |
| `lock` | holder of the advisory lock and, with it, of the row lock; the lock-free writers' UPDATE waits for it too |
| `pc`, `op`, `work` | where a request's coroutine is, its endpoint, its payload |
| `cache` | the request's ORM identity map: what it loaded first |
| `reply` | what the client was told |

Each request is split where it awaits and others could see or change something:
probe, lock and load, commit. `Fail` covers every way to end without a commit:
rejections by validation, pressure errors, a worker that dies; PostgreSQL then
rolls back and frees the locks.

A grade is represented by the payload that was graded. So "the score counts the
stored answers" and "the grade on this row belongs to another answer" can be
said without modelling question types. Manually graded questions are left out:
they contribute no points on submit.

`Column` is the ORM's "write what differs from what was loaded"; `Reread` is "a
second read keeps the first content". They are what separates `BatchLock` (the
entity was loaded before the lock) from `SingleLock` and `FinalLock` (the locked
read is the first load of an entity, the probe having read columns only).

### AnswerJournal and the code

| State | In the code |
|---|---|
| `journal`, `nextSeq` | the encrypted map `sxb_answer_journal_v2` in the secure storage |
| `appends`, `flushes` | suspended `appendAnswerEvent` and `flushAnswerJournal` calls, with the list each has read |
| `inFlight` | `_journalSyncInFlight` |
| `requests` | calls of `accept_journal_events`, with the rows and the duplicate ids each has read; they outlive the client's timeout |
| `table`, `seen` | the `answers` rows and the Redis set of applied event ids |
| `given`, `stored`, `faults` | events given so far; events of committed requests (history); bound on faults |

The n-th answer is event n with a payload of its own, so an older event over a
newer one is always a visible change. The journal holds a list in order of
appending; sequence numbers and ids grow along it, so a set of events ordered
by `Before` represents it.

### WebAnswers and the code

| State | In the code |
|---|---|
| `page` | the exam page: open, being restored after a reload, or left |
| `answers`, `typing` | `ExamSystem.answers`, and what the one `textAnswerTimeout` is going to record |
| `records`, `synced` | the IndexedDB records and their synced flag |
| `stage` | where `submitExam` is: flush, then submit |
| `awaited`, `reply` | per part of the page (worker, autosave, submit): the request it awaits and how that ended |
| `wire` | requests the server has not served; a request that was given up stays here |
| `rows`, `status`, `handed` | the server's side, with the steps of `ExamPaper` |
| `loaded` | the body of `GET .../answers` between its arrival and `loadPreviousAnswers` |
| `recorded`, `alone`, `sure` | history: what was recorded; what a flush saved while nothing else was under way |

An answer is represented by the number of the edit that made it, so that "older"
has a meaning. `TokenRefresh` says whether an access token can expire during an
exam; see the observations below.

### RuntimeBuffer and the code

`buffer`, `dirty`, `queued`, `pending`, `processing` and `flushLock` are the keys
of `answer_runtime_buffer.py`; `sessionLock` is the advisory lock; `taken` is what
a flush has read from the hash and `claimed` what a drain loop has moved to
`processing`. A Redis command or MULTI pipeline is a step, and so is every commit.
`known` (history) is what the buffer held when a final submit arrived, `accepted`
(history) what was buffered while the session was open; `accepted` is the `heard` of
`BufferedPaper`, the rows its sheet. The buffer cannot implement `ExamPaper`: a flush
looks at the status before it waits for the session's lock, so a late one changes
the sheet after the hand-in. It does implement the weaker paper, although
`accept_batch` may buffer an answer, and report it as saved, after the session has
ended: a flush reads the status after the buffer, so it leaves such an answer there.
The lock of the drain loops may expire at any time, every flush may fail or crash after any of
its steps.

### SessionLifecycle and the code

`rows` holds status, whether `end_time` is set, and `terminated_by_admin` of each
session; `decided` are the sessions with an admin decision in `exam_logs`, which
the recovery policy of `session_recovery.py` reads. A handler (`at`, `kind`,
`target`, `mine`) is a request with the entities it has loaded; `todo` are the
terminated sessions that a start has not considered yet. `Merge` is the UPDATE of
the columns that differ from the loaded ones, `OpensASecond` the partial unique
index, whose violation makes a start read the session that won (`raced`).

For `Attempts` the loaded entities are hidden: `Status` is the status column alone and
`Overrides` are the sessions that a reopen with override has loaded and not yet
committed. A commit whose columns were overtaken maps to a decision that keeps the
status, or to stuttering.

### PauseClock and the code

`exam` and `rows` hold the pause columns of `exams` and `exam_sessions`, the start
and `total_paused_seconds`; a desk is a request of staff in
`exam_pause_control.py` (exam) or `exam_admin.py` (all its sessions) with the
exam (`loaded`) and the sessions (`found`, `mine`) as it has read them. `Scan` and
`Close` are the two phases of `_close_expired_sessions_async`; `Remaining` is
what `calculate_effective_timer` answers. `idle` (history) is the time in which a student
was shown a pause, `mixed` the sessions in which two pauses have overlapped.

### ViolationQueue and the code

`queue` and `lock` are the Redis list and lock of `violation_event_service.py`;
`logged`, `counted`, `count` and `ended` are `exam_logs` and the session row, and
`holder` who has locked that row. A drainer's `batch`, `writes`, `points` and
`aborted` are the rest of the batch it has popped, the log entries its transaction
holds, those that count, and whether a statement of it has failed. `kicks` is the
count that a request to kick has loaded. For `ViolationLog`, `Waiting` are the events in
the queue, in a batch or in an open transaction: a pop moves an event within it, and
the commit of a batch logs and counts all its events at once.

## 3. Runs

| Run | Instance | Shows |
|---|---|---|
| `locked` | 3 requests of submit-answer, final submit, kick; 2 questions, 2 payloads; fair | `SubmittedScoreIsOfStoredAnswers`, `KickedStaysTerminated`, the refinement `PaperSpec`, `EveryRequestIsAnswered` |
| `all` | 3 requests of all seven kinds, 2 questions, 2 payloads | `TypeOK`, `FinalizedOnceByStudent`, `SavedOnlyWhileOpen`, `FinalCountsStoredAnswers`, `EndedSheetStands` |
| `late` | batch and final submit | violates `LateWritesLeaveResultsAlone` |
| `regrade` | submit-answer, batch and final submit, 4 requests, 3 payloads | violates `EveryAnswerIsGradedOnSubmit` |
| `journal_sync` | 2 flushes, 2 server requests, 3 events of which one is from an earlier session, cap 2, batch 2, 1 fault; fair | `SeenIsStored`, `JournalIsBounded`, `FlagHasOwner`, `AckedIsStored`, `EventsAreSynced` |
| `journal_loss` | 1 flush, no fault, cap 3 | violates `NoLoss` |
| `journal_duplicate` | 1 flush, 2 requests, 1 fault | violates `NoDuplicate` |
| `web_answers` | a chosen and a typed question, 2 edits, batch 1, 1 fault, tokens that outlive the exam; fair | `TypeOK`, `RecordedIsKept`, `FlushedIsHandedIn`, `LeftMeansHandedIn`, the refinement `PaperSpec`, `UnsyncedIsSent` |
| `runtime_buffer` | 2 answer requests, 1 final submit, 2 drain loops, 2 questions | `TypeOK`, `AnsweredIsKept`, `NoAcceptedAnswerIsBlank`, the refinement `BufferedSpec` |
| `session_lifecycle` | 2 devices, 1 desk, 1 scheduler, 3 sessions, 2 attempts | `TypeOK`, `OneOpenSession`, `StatusFitsColumns`, `StaffDecisionStands`, the refinement `AttemptsSpec` |
| `pause_clock` | 2 sessions, 2 desks, 4 requests, clock to 7; fair | `TypeOK`, `TimeShownIsDue`, `NotClosedEarly`, `SessionsEnd` |
| `violation_queue` | 2 drain loops, 4 events of 2 sessions, batch 2, burst 2, 1 kick, 1 fault; fair | `TypeOK`, `HandledOnce`, `CountIsLogged`, `Kept`, `EndedStands`, the refinement `LogSpec`, `Handled` |

### Bounds

The theorems cover all sizes of the constants; the bounds matter for liveness and
for the runs that show violations.

* `SessionWrites`: every race is between two requests, and the third lets a write
  of one be noticed by another (a payload stored, graded by a second request,
  overwritten by a third). Two questions are needed for a batch that touches one
  row a concurrent request has just written and one it has not; two payloads for
  a grade that does not fit its row.
* `AnswerJournal`: two flushes because the flag is tested before it is set; two
  requests for one that outlives its timeout; with a cap of 2 and three events
  the journal overflows; the foreign event makes the server answer "invalid";
  `MaxFaults` bounds timeouts, lost or refused requests, client restarts,
  evictions and failed `sadd` together.
* `WebAnswers`: two questions with batches of one make the worker send twice, and
  the typed one waits for its timer; the second edit comes while the first is on
  its way; one fault is enough for a request that is served after it was given up.
* `RuntimeBuffer`: the second writer writes between the steps of a flush, the
  second drain loop starts when the lock has expired. Crashes and failures are not
  bounded: they only move a process to its end. One payload is enough: what the
  properties tell apart is whether and when a question was answered, and with two
  questions a flush stores one answer and leaves the other.
* `SessionLifecycle`: two devices race for one start, and after two attempts a
  third session is refused or, when staff ended one, started. With one desk
  because `StatusFitsColumns` is about requests of staff that do not overlap one
  another; the theorem is for any number of desks that keep to sessions of their
  own, and the other properties are proved for any number of desks.
* `PauseClock`: four requests of two desks pause and resume both ways with one
  overlap; the clock reaches `EndTime + Grace` and then the tolerance after the
  last request (`LastCall`), so every session can end.
* `ViolationQueue`: a batch is full, two batches are under way, events of both
  sessions are in one batch in the order s1, s2, s2, s1, so that two drainers
  lock the rows in opposite orders; two of the events are short tab switches of
  one session that form a burst.

### Fairness

* `SessionWrites!FairSpec` asks strong fairness of what the server does for a
  request that has arrived. Once running, a coroutine is resumed by the event
  loop; waiting for a lock, it is in PostgreSQL's queue of waiters, which grants
  the lock in turn: a request for which the lock is free again and again gets it.
  No fairness is asked of arrivals or of `Fail`.
* `AnswerJournal!FairSpec` asks weak fairness of appends that wait for the
  storage, of the flush (called by `Timer.periodic`, so `FlushStart` happens again
  and again; `FlushSkipped` is its early return) and of the server. None is asked
  of the student's answers, of timeouts, restarts and other faults.
  `EventsAreSynced` also assumes that fewer events are left behind than a batch
  holds: with as many as a batch, the server answers every batch "invalid" and
  nothing is ever sent again, since invalid events stay in the journal and are its
  oldest.
* `WebAnswers!FairSpec`: the worker's interval, the restoring of the page and the
  server go on. None is asked of the student, of autosave and submit, or of faults.
* `PauseClock!FairSpec`: the clock, the two phases of the scheduler's beat, and
  requests of staff that have begun.
* `ViolationQueue!FairSpec`: the lock expires (it has a time to live), the loop of
  each process tries to get it again and again, and goes on once it has it;
  PostgreSQL breaks deadlocks.
* `RuntimeBuffer` and `SessionLifecycle` have none: no liveness is claimed. In
  `RuntimeBuffer` a lost mark leaves an answer in the buffer until the next write
  or the submit, so "is stored in the end" would be false.

### Deadlock

It is checked in the runs of `SessionWrites` and `AnswerJournal`, where `Quiet`
and the skipped or empty flush are the ends of a behaviour, and in
`runtime_buffer`, where the drain loops never end. `web_answers`,
`session_lifecycle`, `pause_clock` and `violation_queue` do not check it: once all
edits, sessions, requests, units of the clock or events are used up, and the page
is left or the exam over, the system may stop. What must not stop earlier is said
by their liveness properties, of which `SessionLifecycle` has none.

### What the violations say

* `late`: `accept_batch` checks `status` before it waits for the lock and, under
  the lock, on the same ORM entity. If the final submit commits in between, the
  batch changes answers of a submitted session; stored answers and score no
  longer fit. An architecture audit in `docs/` says late writes must not do that.
* `regrade`: a batch that overwrites a row it loaded ungraded does not clear the
  grade that a submit-answer stored in the meantime; the final submit reuses the
  grade of the other payload.
* `journal_loss`: append and flush write back a list read before an await.
* `journal_duplicate`: the duplicate test is outside the lock and sequence
  numbers are not compared with the stored row.

### Observations that shaped the properties

These are behaviours of the code that the models contain and that make a stronger
property false. Where no document of the repository claims the stronger property,
they are written here and not as findings.

* `SessionWrites`: terminate stores NULL as the score because
  `recalculate_session_score` returns nothing; force-submit and the scheduler
  overwrite whatever was committed since they loaded the session. This is why the
  properties of `locked` are stated for three kinds of request and those of `all`
  for seven.
* `WebAnswers`: `markAsSynced` marks by question, so an answer changed during the
  request counts as sent, and a reload puts the server's answers over newer local
  ones. So `RecordedIsKept` promises an answer, not the last one, and
  `FlushedIsHandedIn` is what the flush before a submit repairs. One
  `textAnswerTimeout` serves all text questions and a flush stops it: a typed
  answer may stay unrecorded until the next flush, so `FlushedIsHandedIn` is about
  chosen options. A request that waited for another one's token refresh takes any
  JSON response of its second attempt for a success; with `TokenRefresh = TRUE`,
  `LeftMeansHandedIn` is false. Tokens outlive an exam by default.
* `RuntimeBuffer` (off by default, `ANSWER_WRITE_MODE=direct`): a write between the
  read of a value and the `srem` of its mark is flushed only with the question's
  next answer; a session marked as queued while its flush is acknowledged waits for
  the next write or the submit; a flush does not look at the status again under
  the lock, and an older flush may store over a newer one. After a final submit a
  late flush changes rows that the score has counted, and an answer buffered after
  the end is reported as saved and stays in Redis.
* `SessionLifecycle`: only submitted sessions count as attempts, and a start that
  finds a session terminated by staff is refused its continuation but begins a
  fresh session. Attempts are counted before the sessions are loaded. Two
  overlapping requests of staff for one session mix their columns, hence the one desk
  of `StatusFitsColumns`. A reset of the branch "auto reset" of start never happens,
  since every terminated session has an admin decision in its log; this is
  `DecisionsAreLogged`.
* `PauseClock`: a session started while the exam is paused is never marked and gets
  no credit; a pause of the exam overwrites `paused_at` of a session that was
  paused before; resuming the sessions during a pause of the exam, and a resume
  that works on an old `paused_at`, credit the wrong time. All of these are pauses
  that overlap, which `mixed` records, and the credit properties except them. A
  pause of the exam that races with a resume of its sessions can leave `paused_at`
  on a session that is not paused; the scheduler then credits it for ever
  (`Stranded`). A pause that is committed between the two phases of the scheduler
  does not save a session, but that session had had its time.
* `ViolationQueue`: a crash after the pop loses the batch (`Kept` is for runs
  without a fault); a statement that fails aborts the transaction of the whole
  batch; a burst inside one batch is not seen, since autoflush is off; two
  drainers may wait for each other's rows; a kick writes the count that it has
  loaded plus one; an event whose snapshot update fails is answered "dropped"
  although it is queued.

## 4. Proofs

Every safety property of a passing run, type invariants, action properties and
refinements included, is a theorem for all values of the constants that satisfy the module's
assumption: `ConstantsAssumption` (twice), `JournalAssumption`, `WebAssumption`,
`LifecycleAssumption`, `ClockAssumption`, `QueueAssumption` state the types of the
parameters and that special values differ from data. Further hypotheses are in
the statements: `Ops \subseteq LockedOps` for `SubmittedScore`, `KickedStays` and
the `Refinement` of `SessionWrites`; `TokenRefresh = FALSE` for
`RecordedAnswersAreKept` and `LeavingMeansHandedIn`; `[]DesksKeepApart` (no two
requests of staff work on one session) for `ColumnsFitTheStatus`.

Further theorems say where the counterexamples of the violating runs come from, and
where not:

| Run | Theorem | States | For |
|---|---|---|---|
| `regrade` | `GradedOnSubmit` | `EveryAnswerIsGradedOnSubmit` | every kind of request but the batch, those of staff and scheduler included |
| `late` | `SubmittedStands` | `LateWritesLeaveResultsAlone` | submit-answer and final submit |
| `late` | `EndedSheets` | `EndedSheetStands`: only autosaves change the answers of a session that has ended | all kinds |
| `journal_loss` | `NothingLostOneAtATime` | `NoLoss` | an app that works on its journal one task at a time, below the cap, with any faults |
| `journal_duplicate` | `NothingOverwrittenOneAtATime` | `NoDuplicate` | an app that works on its journal one task at a time and sends nothing while an earlier request may still be at work, and a Redis that never forgets an id; with any timeouts, refusals, crashes and ids that were not remembered |

`SessionWritesProofs`

* `IInv` is inductive: types; a request past its load has its entities; at most
  the lock holder is between lock and commit (`LockIsExclusive`); whoever checked
  the status under the lock knows the session is open (`LockedIsOpen`, for all
  but the batch); the final submit's entities are the stored rows until it
  commits (`FinalSeesAll`). The lock-free writers cannot break the last two
  because their UPDATE waits for the row lock. From it: `TypeCorrect`,
  `FinalizedOnce`, `SavedMeansOpen`, `FinalCountsStored`.
* `IInv /\ LockedInv` is inductive when `Ops \subseteq LockedOps`: every row
  carries its own grade, a session seen terminated stays so, a submitted score
  is the count of the rows. From it: `SubmittedScore`, `KickedStays`, and
  `Refinement`: Init maps to the paper's Init, each of the requests' commits to
  Save, HandIn or Close and all else to stuttering.
* `GradedInv` is inductive when no batch arrives: every row that is stored or loaded
  carries the grade of its own answer. From it: `GradedOnSubmit`.

`AnswerJournalProofs`

* `JournalInv` is inductive: types, a waiting flush waits for a request, what a
  request knows as duplicate and what it has acknowledged is stored, what Redis
  remembers is stored. It is needed because `SeenIsStored` alone says nothing of
  a request that is between commit and `sadd`, or that read the set before it was
  evicted. From it: `SeenStored`, `AckedStored`.
* `JournalBounded`: the cap counts events behind an event, so it bounds the list
  only if no id occurs twice (`TrimmedIsBounded`, a pigeonhole argument). So
  `ListsAreDistinct` follows every list that the app has read and may write back.
* `FlagHasOwner` is inductive: every way out of a flush resets the flag, also for
  another flush that still waits. It may be unset too early, never set for ever.
* `ListsAreFresh`, under `[]OneAtATime`: the list that a suspended task has read is
  the journal itself. From it, with `TrimsNothing`: `NothingLostOneAtATime`.
* `NothingOverwrittenOneAtATime`: the server never compares sequence numbers with
  what is stored, so this rests on order alone. `LiveIsOrdered` and `NextIsLast`:
  the events in the journal and in the request have sequence numbers in the order of
  their ids. `OldestFirst` and `SentInOrder`: what is younger than an event of the
  journal is still in the journal when it is stored, and goes out in the same
  batches. `SeenFirst`: Redis knows an event only with those before it. Together they
  give `LatestIsNew`: the event that a commit writes is no older than the row, and
  new if it is not the row's (`TableIsNewest`). TLC found the invariant to hold, and
  `NoDuplicate` violated when any one of the three hypotheses is dropped.

`WebAnswersProofs`

* `KeptInv`: a part of the page awaits a request of its stage (`AwaitedFits`), and
  a request answered "ok" has reached the rows or handed in the paper
  (`AnsweredIsDone`). From it: `RecordedAnswersAreKept`, `LeavingMeansHandedIn`.
* `FlushInv`: revisions grow with the edits (`RevisionsFit`), and while a flush is
  alone nothing that can still reach the rows is older than what it carries
  (`AloneIsSafe`), which stays true of what it has saved (`SureIsSafe`). A request
  that is repeated carries what is on its way already, which needs
  `AwaitedIsSent`. From it: `FlushedAnswersAreHandedIn`.
* `Refinement`: a batch is one save of the paper, a submit a hand-in, and what is
  repeated after the end a stuttering step.

`RuntimeBufferProofs`

* A flush clears only questions that it has stored (`StoredBeforeCleared`), which
  gives `AnswersAreKept`; and what a submit knew is stored when its flush has
  nothing left to do (`KnownIsPending`), also if another flush has cleared the
  marks, which gives `SubmitHasNoBlank`.
* `OnlyHeard` is inductive: the rows, the buffer of an open session and what a flush
  is about to store were accepted while the session was open. The buffer of a closed
  session and the payloads of a flush in any other stage need not be, which is why
  the abstract specification alone is not inductive. From it `Refinement`: accepting
  maps to `Hear` or, after the end, to a stuttering step, and a store to `Store`.

`SessionLifecycleProofs`

* `TypeOK`, `WorkFits`, `KindsFit` and `DecisionsAreLogged` are inductive together:
  the policy blocks a session that staff has ended even for entities loaded
  before, because its decision is in the log. From them: `TypeCorrect`,
  `StaffDecisionsStand`, and with `OpenIsUnique` `OneSessionIsOpen`.
* `FitInv`: if no two desks work on one session, a row differs from a desk's entity
  only by what the student or the scheduler did to it (`DeskIsCurrent`). From it:
  `ColumnsFitTheStatus`. With two desks on one session TLC finds it violated.
* `Refinement` needs the first invariant only. `Saved` says which status a commit
  leaves (the new one, or the current one where the new one is what was loaded),
  `OverridesOf` how the overrides under way follow one handler. A start never opens a
  terminated session again, and a reset opens none: what they have loaded is in
  progress, in the log, or deleted (`DecisionsAreLogged`).

`PauseClockProofs`

* `ClockInv`: times are past, the two columns of a mark agree, and for a session
  that is not mixed the row, and every entity of it that a request may still
  write, credits at least the time in which a pause was shown (`RowFits`,
  `EntityFits`); what the scheduler has found expired had its time. From it:
  `TypeCorrect`, `PausesAreCredited`, `ClosedHadTheirTime`.

`ViolationQueueProofs`

* `Placed` (no event is in two places, and none is anywhere before it is reported)
  gives `EventsAreHandledOnce`; `RowsHeld` (a drainer that has written into its
  transaction holds the rows of these events, and their sessions go on)
  `EndedSessionsStand`; `Unaborted` (no transaction is aborted without a fault)
  `ReportsAreKept`; `Tallied` (a kick under way has read no more than was counted,
  with the cardinalities of disjoint unions) `CountsAreLogged`.
* `Refinement` uses them together: a commit logs events that are waiting (`Placed`)
  for sessions that go on (`RowsHeld`), and events that leave without being logged do
  so only after a fault (`Unaborted`).

Only model-checked: liveness under fairness (`EveryRequestIsAnswered`,
`EventsAreSynced`, `UnsyncedIsSent`, `SessionsEnd`, `Handled`), which is outside the
prover's reach, as is `ENABLED`. What these properties ask of the states is proved,
with guards written out in place of `ENABLED`: that somebody can always go on, not
that he does.

| Liveness | Theorem | Says of every reachable state |
|---|---|---|
| `EveryRequestIsAnswered` | `SomebodyIsServed` | an unanswered request can be served, or the one that holds the session's lock can commit; from `StagesFit` (every stage of a kind has its step) and `LockIsExclusive` |
| `EventsAreSynced` | `FlagIsOwned` | the in-flight flag is set only while a flush waits that will reset it |
| `SessionsEnd` | `LateSessionsExpire` | the scheduler finds a session expired when the exam is over for long, paused or not, unless it is stranded; from `ClockInv`, because a mark that is not paused has no time |
| `Handled` | `NobodyWaitsInVain` | a drainer that waits for a row waits for one that goes on, or in a deadlock that PostgreSQL ends; from `HoldersWork`: a row's holder is at work. If every drainer that waits waits for one of those that wait, these are the deadlock, so no induction over the chain of waiters is needed |
| none claimed | `SessionLockIsInUse` | the lock for which the flushes, submits and kicks of `RuntimeBuffer` wait is with a single answer on its way, never left behind |

The leaves of the proofs are small on purpose: all of them also pass with a fifth or
a third of the provers' default time, so the check does not depend on a fast machine.

## 5. Not modelled, and why

In modelled components: Redis markers, snapshots and broadcasts after a commit
(best effort, wrapped in try/except; where a modelled decision reads a snapshot,
as the admission of violation reports does, any stale content is allowed); rate
limits, SEB headers and question validation (they only reject: `Fail`, `Refuse`);
the shadow mirror of the buffer; backoff of the clients (it only delays); the
several sessions of one scheduler run in `SessionWrites` (they share a commit, but
rows of different sessions do not interact); matching questions and the emptying of
an answer on the web page; join and the emergency exit; the clearing of the native
journal after an exam; the synchronous violation endpoint, dead letters and
counters in Redis; the deletion of answers by a reset; the effect of a reopening on
the pause total.

Other components: the legacy queue (off by default, superseded by the buffer),
the runtime snapshots, essay grading and refresh tokens (see the plan); authoring,
media, users (one-row transactions), analytics, exports and documents (read only),
WebSocket notifications, header checks, account lockout and degrade mode (single
atomic Redis commands with an expiry), backup, metrics and host restarts.
`PROJECT.json` has a note for each.

Most lines of the repository are of these kinds: request parsing, listings,
analytics, PDF and DOCX generation, user interface, deployment and load scripts.
The modules cover a small share of all lines and most of those in which several
actors change the same examination.

## 6. Plan

What would be added next, in order of importance:

1. `RefreshTokens`: rotation, reuse detection and revocation of a family, with two
   rotations of one token.
2. `EssayGrading`: two graders of one session, metadata changed in place and the
   recalculated score.
3. `RuntimeSnapshot`: the writers of `exam_session:{id}`, composed with
   `ViolationQueue` and with what the student's page shows.
4. `AnswerJournal`: clearing the journal after an exam, and the resume state.
5. `SessionLifecycle`: join and the emergency exit; more than one desk with the
   mixtures of columns that overlapping requests leave.
