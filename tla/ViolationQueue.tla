--------------------------- MODULE ViolationQueue ---------------------------
(***************************************************************************)
(* The asynchronous path of violation events (on by default): a student's  *)
(* client reports, the request puts an event at the end of a Redis list    *)
(* and answers, and a loop in every server process drains the list in      *)
(* batches into PostgreSQL, one process at a time as long as the lock in   *)
(* Redis lasts.                                                            *)
(*                                                                         *)
(* Simplifications.  A request admits a report on the Redis snapshot of    *)
(* the session, which may be out of date: several writers store one that   *)
(* they have read before (the drain loop too, after it has committed), so  *)
(* a report is admitted at any time.  A report that is refused as a        *)
(* duplicate changes nothing.  The dead letters are left out, as nothing   *)
(* reads them; so are the five seconds before the end of a session, in     *)
(* which reports are ignored, and the counters in Redis.  The              *)
(* statements that decide whether an event counts read the log as it was   *)
(* committed (autoflush is off) and are one step with the SELECT of the    *)
(* session, which is read again by the UPDATE.                             *)
(***************************************************************************)
EXTENDS Naturals, SequencesExt

CONSTANTS
    Drainers,       \* server processes
    Sessions,
    MaxEvents,      \* bound: reports
    BatchSize,      \* DEFAULT_DRAIN_BATCH_SIZE
    BurstSize,      \* TAB_SWITCH_BURST_MIN_EVENTS
    SessionOf,      \* the session of each event
    Minor,          \* the tab switches among them, too short to count alone
    MaxKicks,       \* bound: kicks
    MaxFaults,      \* bound: crashes and failures of Redis or PostgreSQL
    Free            \* no lock

\* In the order of their reports.
Events == 1..MaxEvents

ASSUME QueueAssumption ==
    /\ BatchSize \in Nat \ {0} /\ BurstSize \in Nat /\ MaxFaults \in Nat
    /\ SessionOf \in [Events -> Sessions]
    /\ MaxEvents \in Nat /\ MaxKicks \in Nat
    /\ Free \notin Drainers /\ Free \notin Nat

VARIABLES
    ended,      \* sessions with a final status
    count,      \* exam_sessions.violation_count
    logged,     \* events in exam_logs
    counted,    \* those with counted_for_score
    holder,     \* who holds the lock of a session's row
    queue,      \* runtime:violation:pending
    lock,       \* runtime:violation:worker:lock
    reported,   \* how many so far
    at,         \* where each drainer is
    batch,      \* the events it has popped and not yet processed
    scores,     \* whether the first of these counts
    writes,     \* the log entries of its transaction
    points,     \* those that count
    aborted,    \* a statement of its transaction has failed
    kicks,      \* violation_count as a request to kick has loaded it
    asked,      \* such requests so far
    kicked,     \* sessions ended by a kick
    faults

table == <<ended, count, logged, counted>>
work == <<at, batch, scores, writes, points, aborted>>
kicking == <<kicks, asked, kicked>>
vars == <<table, holder, queue, lock, reported, work, kicking, faults>>

TypeOK ==
    /\ ended \subseteq Sessions /\ count \in [Sessions -> Nat]
    /\ counted \subseteq logged /\ logged \subseteq Events
    /\ holder \in [Sessions -> Drainers \union {Free}]
    /\ queue \in Seq(Events) /\ lock \in Drainers \union {Free}
    /\ reported \in 0..MaxEvents
    /\ at \in [Drainers -> {"idle", "popping", "work", "update", "release", "delete"}]
    /\ batch \in [Drainers -> Seq(Events)] /\ scores \in [Drainers -> BOOLEAN]
    /\ writes \in [Drainers -> SUBSET Events] /\ points \in [Drainers -> SUBSET Events]
    /\ \A d \in Drainers : /\ points[d] \subseteq writes[d]
                           /\ Len(batch[d]) <= BatchSize
                           /\ at[d] = "update" => batch[d] # <<>>
    /\ aborted \in [Drainers -> BOOLEAN]
    /\ kicks \in [Sessions -> Nat \union {Free}] /\ kicked \subseteq ended
    /\ asked \in 0..MaxKicks
    /\ faults \in Nat

NoEvents == [d \in Drainers |-> {}]

Init ==
    /\ ended = {} /\ count = [s \in Sessions |-> 0] /\ logged = {} /\ counted = {}
    /\ holder = [s \in Sessions |-> Free]
    /\ queue = <<>> /\ lock = Free
    /\ reported = 0
    /\ at = [d \in Drainers |-> "idle"] /\ batch = [d \in Drainers |-> <<>>]
    /\ scores = [d \in Drainers |-> FALSE] /\ writes = NoEvents /\ points = NoEvents
    /\ aborted = [d \in Drainers |-> FALSE]
    /\ kicks = [s \in Sessions |-> Free] /\ kicked = {} /\ asked = 0
    /\ faults = 0

-----------------------------------------------------------------------------
(* Requests.                                                               *)

\* enqueue_violation_event.
Report ==
    /\ reported < MaxEvents
    /\ reported' = reported + 1
    /\ queue' = Append(queue, reported')
    /\ UNCHANGED <<table, holder, lock, work, kicking, faults>>

\* Redis fails before the event is queued, or after it.
ReportDropped ==
    /\ reported < MaxEvents /\ faults < MaxFaults
    /\ reported' = reported + 1
    /\ queue' \in {queue, Append(queue, reported')}
    /\ faults' = faults + 1
    /\ UNCHANGED <<table, holder, lock, work, kicking>>

\* A submit and all else that ends a session locks its row to do so.
End(s) ==
    /\ s \notin ended
    /\ holder[s] = Free
    /\ ended' = ended \union {s}
    /\ UNCHANGED <<count, logged, counted, holder, queue, lock, reported, work,
                   kicking, faults>>

\* kick_student_from_exam reads the count and writes one more.
KickLoad(s) ==
    /\ asked < MaxKicks
    /\ s \notin kicked
    /\ kicks[s] = Free
    /\ kicks' = [kicks EXCEPT ![s] = count[s]]
    /\ asked' = asked + 1
    /\ UNCHANGED <<table, holder, queue, lock, reported, work, kicked, faults>>

KickCommit(s) ==
    /\ kicks[s] # Free
    /\ holder[s] = Free
    /\ ended' = ended \union {s}
    /\ count' = [count EXCEPT ![s] = kicks[s] + 1]
    /\ kicks' = [kicks EXCEPT ![s] = Free]
    /\ kicked' = kicked \union {s}
    /\ UNCHANGED <<logged, counted, holder, queue, lock, reported, work, asked, faults>>

-----------------------------------------------------------------------------
(* drain_violation_events_once.                                            *)

Acquire(d) ==
    /\ at[d] = "idle"
    /\ lock = Free
    /\ lock' = d
    /\ at' = [at EXCEPT ![d] = "popping"]
    /\ UNCHANGED <<table, holder, queue, reported, batch, scores, writes, points,
                   aborted, kicking, faults>>

\* Bug (mutant of LockExpires): the lock is stored without a time to live.
LockStays == FALSE /\ UNCHANGED vars

\* The lock lasts ten seconds, whatever its holder does.
LockExpires ==
    /\ lock # Free
    /\ lock' = Free
    /\ UNCHANGED <<table, holder, queue, reported, work, kicking, faults>>

\* Bug (mutant of Pop): the event is to be removed once it is stored.
PopAfterStore(d) ==
    /\ at[d] = "popping"
    /\ queue # <<>> /\ Len(batch[d]) < BatchSize
    /\ batch' = [batch EXCEPT ![d] = Append(@, Head(queue))]
    /\ UNCHANGED <<table, holder, queue, lock, reported, at, scores, writes, points,
                   aborted, kicking, faults>>

\* Bug (mutant of Pop): one more than the batch holds.
PopOneMore(d) ==
    /\ at[d] = "popping"
    /\ queue # <<>> /\ Len(batch[d]) <= BatchSize
    /\ queue' = Tail(queue)
    /\ batch' = [batch EXCEPT ![d] = Append(@, Head(queue))]
    /\ UNCHANGED <<table, holder, lock, reported, at, scores, writes, points,
                   aborted, kicking, faults>>

Pop(d) ==
    /\ at[d] = "popping"
    /\ queue # <<>> /\ Len(batch[d]) < BatchSize
    /\ queue' = Tail(queue)
    /\ batch' = [batch EXCEPT ![d] = Append(@, Head(queue))]
    /\ UNCHANGED <<table, holder, lock, reported, at, scores, writes, points,
                   aborted, kicking, faults>>

Popped(d) ==
    /\ at[d] = "popping"
    /\ queue = <<>> \/ Len(batch[d]) = BatchSize
    /\ at' = [at EXCEPT ![d] = IF batch[d] = <<>> THEN "release" ELSE "work"]
    /\ UNCHANGED <<table, holder, queue, lock, reported, batch, scores, writes, points,
                   aborted, kicking, faults>>

Current(d) == Head(batch[d])
Advance(d) == batch' = [batch EXCEPT ![d] = Tail(@)]

\* should_count_violation_for_score, of what is committed.
Counts(e) ==
    \/ e \notin Minor
    \/ Cardinality({f \in logged : f \in Minor /\ SessionOf[f] = SessionOf[e]}) + 1 >= BurstSize

\* The event of a session that has ended is dropped.
Examine(d) ==
    /\ at[d] = "work" /\ batch[d] # <<>> /\ ~aborted[d]
    /\ IF SessionOf[Current(d)] \in ended
       THEN Advance(d) /\ UNCHANGED <<at, scores>>
       ELSE /\ at' = [at EXCEPT ![d] = "update"]
            /\ scores' = [scores EXCEPT ![d] = Counts(Current(d))]
            /\ UNCHANGED batch
    /\ UNCHANGED <<table, holder, queue, lock, reported, writes, points, aborted,
                   kicking, faults>>

Write(d, s) ==
    /\ holder' = [holder EXCEPT ![s] = d]
    /\ writes' = [writes EXCEPT ![d] = @ \union {Current(d)}]
    /\ points' = [points EXCEPT ![d] = IF scores[d] THEN @ \union {Current(d)} ELSE @]
    /\ UNCHANGED <<table, queue, lock, reported, scores, aborted, kicking, faults>>

Drop(d) == UNCHANGED <<table, holder, queue, lock, reported, scores, writes, points,
                       aborted, kicking, faults>>

\* Bug (mutant of Update): the status was looked at before.
UpdateAnyway(d) ==
    LET s == SessionOf[Current(d)] IN
    /\ at[d] = "update" /\ holder[s] \in {Free, d}
    /\ Write(d, s)
    /\ at' = [at EXCEPT ![d] = "work"]
    /\ Advance(d)

\* Bug (mutant of Update): a row that another transaction has locked is skipped.
UpdateSkipsLocked(d) ==
    LET s == SessionOf[Current(d)] IN
    /\ at[d] = "update"
    /\ IF s \in ended \/ holder[s] \notin {Free, d} THEN Drop(d) ELSE Write(d, s)
    /\ at' = [at EXCEPT ![d] = "work"]
    /\ Advance(d)

\* The UPDATE waits for the row and looks at the status again.
Update(d) ==
    LET s == SessionOf[Current(d)] IN
    /\ at[d] = "update" /\ holder[s] \in {Free, d}
    /\ IF s \in ended THEN Drop(d) ELSE Write(d, s)
    /\ at' = [at EXCEPT ![d] = "work"]
    /\ Advance(d)

\* Drainers that wait for each other's rows.
Deadlocked(d) ==
    \E waiting \in SUBSET Drainers :
        /\ d \in waiting
        /\ \A x \in waiting : at[x] = "update" /\ holder[SessionOf[Current(x)]] \in waiting \ {x}

\* A statement fails, for a deadlock or otherwise, and with it the transaction:
\* every statement after it fails too.  Each event is put aside.
StatementFails(d) ==
    /\ at[d] \in {"work", "update"} /\ batch[d] # <<>>
    /\ aborted[d] \/ Deadlocked(d) \/ faults < MaxFaults
    /\ faults' = IF aborted[d] THEN faults ELSE faults + 1
    /\ aborted' = [aborted EXCEPT ![d] = TRUE]
    /\ at' = [at EXCEPT ![d] = "work"]
    /\ Advance(d)
    /\ UNCHANGED <<table, holder, queue, lock, reported, scores, writes, points, kicking>>

\* The transaction is over, and its locks are released.
Finish(d) ==
    /\ writes' = [writes EXCEPT ![d] = {}]
    /\ points' = [points EXCEPT ![d] = {}]
    /\ batch' = [batch EXCEPT ![d] = <<>>]
    /\ aborted' = [aborted EXCEPT ![d] = FALSE]
    /\ scores' = [scores EXCEPT ![d] = FALSE]
    /\ holder' = [s \in Sessions |-> IF holder[s] = d THEN Free ELSE holder[s]]

\* Bug (mutant of Store): an aborted transaction leaves its increments.
StoreCounts(d) ==
    /\ logged' = IF aborted[d] THEN logged ELSE logged \union writes[d]
    /\ counted' = IF aborted[d] THEN counted ELSE counted \union points[d]
    /\ count' = [s \in Sessions |-> count[s] + Cardinality({e \in points[d] : SessionOf[e] = s})]

Store(d) ==
    IF aborted[d]
    THEN UNCHANGED <<logged, counted, count>>
    ELSE /\ logged' = logged \union writes[d]
         /\ counted' = counted \union points[d]
         /\ count' = [s \in Sessions |-> count[s] + Cardinality({e \in points[d] : SessionOf[e] = s})]

\* Of an aborted transaction nothing is stored: the flush of its log entries fails,
\* or, if it has none, its COMMIT is a ROLLBACK and no error.
Commit(d) ==
    /\ at[d] = "work" /\ batch[d] = <<>>
    /\ Store(d)
    /\ Finish(d)
    /\ at' = [at EXCEPT ![d] = "release"]
    /\ UNCHANGED <<ended, queue, lock, reported, kicking, faults>>

\* The commit fails: the whole batch goes to the dead letters.
CommitFails(d) ==
    /\ at[d] = "work" /\ batch[d] = <<>> /\ faults < MaxFaults
    /\ Finish(d)
    /\ at' = [at EXCEPT ![d] = "release"]
    /\ faults' = faults + 1
    /\ UNCHANGED <<table, queue, lock, reported, kicking>>

\* The lock is released if it is the drainer's own: looked at, then deleted.
Release(d) ==
    /\ at[d] = "release"
    /\ at' = [at EXCEPT ![d] = IF lock = d THEN "delete" ELSE "idle"]
    /\ UNCHANGED <<table, holder, queue, lock, reported, batch, scores, writes, points,
                   aborted, kicking, faults>>

Delete(d) ==
    /\ at[d] = "delete"
    /\ lock' = Free
    /\ at' = [at EXCEPT ![d] = "idle"]
    /\ UNCHANGED <<table, holder, queue, reported, batch, scores, writes, points,
                   aborted, kicking, faults>>

\* The process dies and is started again.  Its transaction is rolled back.
Crash(d) ==
    /\ at[d] # "idle" /\ faults < MaxFaults
    /\ Finish(d)
    /\ at' = [at EXCEPT ![d] = "idle"]
    /\ faults' = faults + 1
    /\ UNCHANGED <<table, queue, lock, reported, kicking>>

Step(d) ==
    \/ Pop(d) \/ Popped(d) \/ Examine(d) \/ Update(d) \/ Commit(d)
    \/ Release(d) \/ Delete(d)
    \/ StatementFails(d) /\ (aborted[d] \/ Deadlocked(d))

Next ==
    \/ Report \/ ReportDropped
    \/ \E s \in Sessions : End(s) \/ KickLoad(s) \/ KickCommit(s)
    \/ \E d \in Drainers :
          \/ Acquire(d) \/ Pop(d) \/ Popped(d) \/ Examine(d) \/ Update(d) \/ StatementFails(d)
          \/ Commit(d) \/ CommitFails(d) \/ Release(d) \/ Delete(d) \/ Crash(d)
    \/ LockExpires

Spec == Init /\ [][Next]_vars

\* The loop drains again and again, PostgreSQL breaks deadlocks, and the lock
\* has a time to live.
Fairness ==
    /\ WF_vars(LockExpires)
    /\ \A d \in Drainers : WF_vars(Acquire(d)) /\ WF_vars(Step(d))

FairSpec == Spec /\ Fairness

-----------------------------------------------------------------------------
(* Properties.                                                             *)

Queued == ToSet(queue)
Held(d) == ToSet(batch[d])

\* However many drainers run at a time, an event is with one of them only, and
\* what is stored or waits is not with any.
HandledOnce ==
    /\ IsInjective(queue) /\ \A d \in Drainers : IsInjective(batch[d])
    /\ Queued \intersect logged = {}
    /\ \A d \in Drainers :
          /\ (Held(d) \union writes[d]) \intersect (Queued \union logged) = {}
          /\ Held(d) \intersect writes[d] = {}
          /\ \A x \in Drainers \ {d} :
                (Held(d) \union writes[d]) \intersect (Held(x) \union writes[x]) = {}

\* The count of a session is that of its log entries that count.  A kick adds
\* one to what it has read, and what drainers have added since is lost.
CountIsLogged ==
    \A s \in Sessions :
        LET scored == Cardinality({e \in counted : SessionOf[e] = s})
        IN  IF s \in kicked THEN count[s] <= scored + 1 ELSE count[s] = scored

\* Once a session has ended its log of violations is final, and so is its count,
\* unless it is kicked still: whatever was admitted on an old snapshot.
EndedStands ==
    [][\A s \in ended :
          /\ {e \in logged' : SessionOf[e] = s} = {e \in logged : SessionOf[e] = s}
          /\ s \notin kicked' => count'[s] = count[s]]_vars

\* Without a fault no report is lost, even if the lock expires under a drainer.
Kept ==
    faults = 0 =>
        \A e \in 1..reported :
            \/ e \in Queued \union logged
            \/ \E d \in Drainers : e \in Held(d) \union writes[d]
            \/ SessionOf[e] \in ended

\* The path from a report to the log implements the log: nothing is lost, logged
\* or counted twice, and nothing logged for a session that has ended, whatever
\* the drainers pop, abort and commit.  The events that wait are in the queue, in
\* a drainer's batch, or written by its transaction.
Waiting == Queued \union UNION {Held(d) \union writes[d] : d \in Drainers}

VLog == INSTANCE ViolationLog WITH
    fresh <- Events \ (1..reported),
    waiting <- Waiting,
    failed <- faults # 0

LogSpec == VLog!Spec

\* Once no more events are reported (their number is bounded), none waits for
\* ever: also if the drainer that holds the lock has crashed, if drainers wait
\* for each other's rows, and if one deletes the lock of another.
Handled == []<>(Waiting = {})
=============================================================================
