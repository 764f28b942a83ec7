----------------------------- MODULE PauseClock -----------------------------
(***************************************************************************)
(* Pauses and the clock of an exam: proctors pause and resume the exam as  *)
(* a whole, administrators all its sessions, the student's page asks how   *)
(* much time remains, and the scheduler closes sessions whose time is up.  *)
(*                                                                         *)
(* A request of staff loads the exam, selects sessions, and commits; none  *)
(* of it is locked, and the UPDATE of a row holds only the columns whose   *)
(* value differs from the one loaded (expire_on_commit is off, see         *)
(* SessionLifecycle).  A request of staff is served within one unit of the *)
(* clock; a beat of the scheduler may take any time.                       *)
(*                                                                         *)
(* Simplifications.  One exam, one attempt of each student.  The exam is   *)
(* published from time 0.  Closing loads the sessions again and commits in *)
(* one step: SessionWrites has what happens in between.  A beat that fails *)
(* changes nothing and is one that did not take place.  The Redis snapshot *)
(* repeats the pause total of the row, and the client is shown the larger  *)
(* of the two.  Reopening a session (SessionLifecycle) resets its pauses   *)
(* and is left out.                                                        *)
(***************************************************************************)
EXTENDS Integers, FiniteSets

CONSTANTS
    Desks,          \* clients of staff
    Sessions,       \* students' sessions
    Duration,       \* Exam.duration_minutes
    EndTime,        \* Exam.end_time
    Tolerance,      \* timeout_tolerance_seconds
    Grace,          \* stale_pause_grace_seconds
    LastCall,       \* bound: students and staff do nothing later
    MaxRequests,    \* bound: requests of staff
    MaxTime,        \* bound of the clock
    NoTime          \* NULL

Times == 0..MaxTime
Kinds == {"pause", "resume", "adminPause", "adminResume"}
Marks == [paused : BOOLEAN, since : Times \union {NoTime}]
Rows == [status : {"unused", "in_progress", "closed"}, start : Times,
         paused : BOOLEAN, since : Times \union {NoTime}, total : Nat]

ASSUME ClockAssumption ==
    /\ Duration \in Nat /\ EndTime \in Nat /\ Tolerance \in Nat /\ Grace \in Nat
    /\ LastCall \in Nat /\ MaxRequests \in Nat /\ MaxTime \in Nat
    /\ NoTime \notin Nat

VARIABLES
    now,
    exam,       \* is_globally_paused, globally_paused_at
    rows,       \* exam_sessions
    at,         \* where each request of staff is
    kind,       \* which it is
    loaded,     \* the exam as it has loaded it
    found,      \* the sessions it has selected
    mine,       \* these as it has loaded them
    asked,      \* requests of staff so far
    closing,    \* what a beat of the scheduler has found expired
    idle,       \* history: time for which a session was shown as paused
    mixed       \* history: sessions in which two pauses have overlapped

request == <<at, kind, loaded, found, mine, asked>>
vars == <<now, exam, rows, request, closing, idle, mixed>>

Open(s) == rows[s].status = "in_progress"

TypeOK ==
    /\ now \in Times
    /\ exam \in Marks
    /\ rows \in [Sessions -> Rows]
    /\ at \in [Desks -> {"idle", "loaded", "found"}]
    /\ kind \in [Desks -> Kinds]
    /\ loaded \in [Desks -> Marks]
    /\ \A h \in Desks : at[h] # "idle" /\ kind[h] = "resume" => loaded[h].since \in Times
    /\ found \in [Desks -> SUBSET Sessions]
    /\ mine \in [Desks -> [Sessions -> Rows]]
    /\ asked \in 0..MaxRequests
    /\ closing \subseteq Sessions
    /\ idle \in [Sessions -> Nat]
    /\ mixed \subseteq Sessions

NoPause == [paused |-> FALSE, since |-> NoTime]
Unused == [status |-> "unused", start |-> 0, paused |-> FALSE, since |-> NoTime, total |-> 0]
Nothing == [s \in Sessions |-> Unused]

Init ==
    /\ now = 0
    /\ exam = NoPause
    /\ rows = [s \in Sessions |-> Unused]
    /\ at = [h \in Desks |-> "idle"]
    /\ kind = [h \in Desks |-> "pause"]
    /\ loaded = [h \in Desks |-> NoPause]
    /\ found = [h \in Desks |-> {}]
    /\ mine = [h \in Desks |-> Nothing]
    /\ asked = 0
    /\ closing = {}
    /\ idle = [s \in Sessions |-> 0]
    /\ mixed = {}

-----------------------------------------------------------------------------
(* The clock.                                                              *)

\* What get_session_status answers for is_paused.
ShownPaused(s) == rows[s].paused \/ exam.paused

\* Open sessions that the exam's pause does not hold.
LeftOut == {s \in Sessions : Open(s) /\ exam.paused /\ ~rows[s].paused}

Tick ==
    /\ now < MaxTime
    /\ \A h \in Desks : at[h] = "idle"
    /\ now' = now + 1
    /\ idle' = [s \in Sessions |-> IF Open(s) /\ ShownPaused(s) THEN idle[s] + 1 ELSE idle[s]]
    /\ UNCHANGED <<exam, rows, request, closing, mixed>>

AtLeast(n, m) == IF n > m THEN n ELSE m
Since(mark) == IF mark.since = NoTime THEN 0 ELSE now - mark.since

\* resolve_timer_context: the pause that is under way counts.
TotalPaused(s) ==
    rows[s].total + AtLeast(IF rows[s].paused THEN Since(rows[s]) ELSE 0,
                            IF exam.paused THEN Since(exam) ELSE 0)

\* calculate_effective_timer.
Remaining(s) == AtLeast(0, Duration - AtLeast(0, now - rows[s].start - TotalPaused(s)))

-----------------------------------------------------------------------------
(* Students.                                                               *)

Start(s) ==
    /\ rows[s].status = "unused"
    /\ now <= EndTime /\ now <= LastCall
    /\ rows' = [rows EXCEPT ![s] = [status |-> "in_progress", start |-> now, paused |-> FALSE,
                                    since |-> NoTime, total |-> 0]]
    /\ UNCHANGED <<now, exam, request, closing, idle>>
    /\ mixed' = mixed \union LeftOut'

\* The final submit, a kick and all that ends a session otherwise.
Submit(s) ==
    /\ Open(s)
    /\ now <= LastCall
    /\ rows' = [rows EXCEPT ![s].status = "closed"]
    /\ UNCHANGED <<now, exam, request, closing, idle, mixed>>

-----------------------------------------------------------------------------
(* Staff.                                                                  *)

\* Bug (mutant of Load): resume does not ask whether the exam is paused.
LoadUnchecked(h, k) ==
    /\ now <= LastCall /\ asked < MaxRequests
    /\ at[h] = "idle"
    /\ k = "pause" => ~exam.paused
    /\ at' = [at EXCEPT ![h] = "loaded"]
    /\ kind' = [kind EXCEPT ![h] = k]
    /\ loaded' = [loaded EXCEPT ![h] = exam]
    /\ asked' = asked + 1
    /\ UNCHANGED <<now, exam, rows, found, mine, closing, idle, mixed>>

\* A request to pause or resume is admitted on the exam it has loaded.
Load(h, k) ==
    /\ now <= LastCall /\ asked < MaxRequests
    /\ at[h] = "idle"
    /\ IF k = "pause" THEN ~exam.paused ELSE exam.paused
    /\ at' = [at EXCEPT ![h] = "loaded"]
    /\ kind' = [kind EXCEPT ![h] = k]
    /\ loaded' = [loaded EXCEPT ![h] = exam]
    /\ asked' = asked + 1
    /\ UNCHANGED <<now, exam, rows, found, mine, closing, idle, mixed>>

Select(h, set) ==
    /\ at' = [at EXCEPT ![h] = "found"]
    /\ found' = [found EXCEPT ![h] = set]
    /\ mine' = [mine EXCEPT ![h] = [s \in Sessions |-> IF s \in set THEN rows[s] ELSE Unused]]
    /\ UNCHANGED <<now, exam, rows, loaded, closing, idle, mixed>>

InPause == {s \in Sessions : rows[s].paused}

Find(h) ==
    /\ at[h] = "loaded"
    /\ Select(h, IF kind[h] = "pause" THEN {s \in Sessions : Open(s)} ELSE InPause)
    /\ UNCHANGED <<kind, asked>>

\* The administrator's do not ask whether the exam is paused.
AdminFind(h, k) ==
    /\ now <= LastCall /\ asked < MaxRequests
    /\ at[h] = "idle"
    /\ Select(h, IF k = "adminPause" THEN {s \in Sessions : Open(s)} \ InPause ELSE InPause)
    /\ kind' = [kind EXCEPT ![h] = k]
    /\ asked' = asked + 1

\* The columns that an UPDATE writes are those that differ from what was loaded.
Merge(old, new, current) ==
    [c \in DOMAIN current |-> IF new[c] # old[c] THEN new[c] ELSE current[c]]

\* The rows after the request of h has changed its sessions to new.
Updated(h, new) ==
    [s \in Sessions |-> IF s \in found[h] THEN Merge(mine[h][s], new[s], rows[s]) ELSE rows[s]]

PausedRow(row) ==
    [status |-> row.status, start |-> row.start, paused |-> TRUE, since |-> now, total |-> row.total]
ResumedRow(row, credit) ==
    [status |-> row.status, start |-> row.start, paused |-> FALSE, since |-> NoTime,
     total |-> row.total + credit]
AllPaused(h) == [s \in Sessions |-> PausedRow(mine[h][s])]
Credited(h, credit) == [s \in Sessions |-> ResumedRow(mine[h][s], credit[s])]

Done(h) ==
    /\ at' = [at EXCEPT ![h] = "idle"]
    /\ found' = [found EXCEPT ![h] = {}]
    /\ mine' = [mine EXCEPT ![h] = Nothing]
    /\ kind' = [kind EXCEPT ![h] = "pause"]
    /\ loaded' = [loaded EXCEPT ![h] = NoPause]

Commits(h, k) ==
    /\ at[h] = "found" /\ kind[h] = k
    /\ Done(h)
    /\ UNCHANGED <<now, asked, closing, idle>>

\* pause_exam_globally.
Pause(h) ==
    /\ Commits(h, "pause")
    /\ exam' = Merge(loaded[h], [paused |-> TRUE, since |-> now], exam)
    /\ rows' = Updated(h, AllPaused(h))
    /\ mixed' = mixed \union LeftOut' \union InPause

\* Bug (mutant of Resume): the pause is forgotten before it is credited.
ResumeUncredited(h) ==
    /\ Commits(h, "resume")
    /\ exam' = Merge(loaded[h], NoPause, exam)
    /\ rows' = Updated(h, Credited(h, [s \in Sessions |-> 0]))
    /\ UNCHANGED mixed

\* resume_exam_globally: the duration of the exam's pause for every session.
Resume(h) ==
    /\ Commits(h, "resume")
    /\ exam' = Merge(loaded[h], NoPause, exam)
    /\ rows' = Updated(h, Credited(h, [s \in Sessions |-> Since(loaded[h])]))
    /\ UNCHANGED mixed

\* pause_all_sessions.
AdminPause(h) ==
    /\ Commits(h, "adminPause")
    /\ rows' = Updated(h, AllPaused(h))
    /\ UNCHANGED exam
    /\ mixed' = mixed \union LeftOut'

\* resume_all_sessions: each session's own pause.
AdminResume(h) ==
    /\ Commits(h, "adminResume")
    /\ rows' = Updated(h, Credited(h, [s \in Sessions |-> Since(mine[h][s])]))
    /\ UNCHANGED exam
    /\ mixed' = mixed \union LeftOut'

-----------------------------------------------------------------------------
(* The scheduler: _close_expired_sessions_async.                           *)

\* A pause holds the session open, until the exam has been over for long.
StalePause(s) == ShownPaused(s) /\ now > EndTime + Grace

Credit(s) ==
    rows[s].total + IF StalePause(s) THEN 0 ELSE AtLeast(Since(rows[s]), Since(exam))

\* Bug (mutant of Expired): a pause holds the session open for ever.
ExpiredUnlessPaused(s) ==
    /\ Open(s)
    /\ ~ShownPaused(s)
    /\ \/ now - rows[s].start - Credit(s) > Duration + Tolerance
       \/ now > EndTime + Credit(s) + Tolerance

\* Bug (mutant of Expired): only the end of the exam is put off by pauses.
ExpiredUncredited(s) ==
    /\ Open(s)
    /\ ShownPaused(s) => StalePause(s)
    /\ \/ now - rows[s].start > Duration + Tolerance
       \/ StalePause(s)
       \/ now > EndTime + Credit(s) + Tolerance

Expired(s) ==
    /\ Open(s)
    /\ ShownPaused(s) => StalePause(s)
    /\ \/ AtLeast(0, now - rows[s].start - Credit(s)) > Duration + Tolerance
       \/ StalePause(s)
       \/ now > EndTime + Credit(s) + Tolerance

Scan ==
    /\ closing = {}
    /\ closing' = {s \in Sessions : Expired(s)}
    /\ closing' # {}
    /\ UNCHANGED <<now, exam, rows, request, idle, mixed>>

\* Only the status is looked at again.
Close ==
    /\ closing # {}
    /\ rows' = [s \in Sessions |->
                   IF s \in closing /\ Open(s) THEN [rows[s] EXCEPT !.status = "closed"] ELSE rows[s]]
    /\ closing' = {}
    /\ UNCHANGED <<now, exam, request, idle, mixed>>

StaffStep(h) ==
    \/ \E k \in {"pause", "resume"} : Load(h, k)
    \/ Find(h)
    \/ \E k \in {"adminPause", "adminResume"} : AdminFind(h, k)
    \/ Pause(h) \/ Resume(h) \/ AdminPause(h) \/ AdminResume(h)

Next ==
    \/ Tick
    \/ \E s \in Sessions : Start(s) \/ Submit(s)
    \/ \E h \in Desks : StaffStep(h)
    \/ Scan \/ Close

Spec == Init /\ [][Next]_vars

\* Requests of staff end, the clock goes on, and the scheduler is called again
\* and again.
Fairness ==
    /\ WF_vars(Tick) /\ WF_vars(Scan) /\ WF_vars(Close)
    /\ \A h \in Desks : WF_vars(Find(h)) /\ WF_vars(at[h] = "found" /\ StaffStep(h))

FairSpec == Spec /\ Fairness

-----------------------------------------------------------------------------
(* Properties.  The first two are of sessions in which no two pauses have  *)
(* overlapped: none was paused when the exam's pause began, or was resumed *)
(* during it, or started in it.                                            *)

Unmixed(s) == Open(s) /\ s \notin mixed
Worked(s) == now - rows[s].start - idle[s]

\* However requests of staff overlap, the time in which a student was shown a
\* pause is never taken from the time that the student is shown as remaining.
TimeShownIsDue ==
    \A s \in Sessions : Unmixed(s) => Remaining(s) >= Duration - Worked(s)

\* What the scheduler closes has had its time and the tolerance, or the exam is
\* over: whatever is paused and resumed between its two reads.
HadTime(s) ==
    \/ Worked(s) > Duration + Tolerance
    \/ now > EndTime + idle[s] + Tolerance
    \/ now > EndTime + Grace

NotClosedEarly ==
    [][\A s \in closing : Unmixed(s) /\ ~Open(s)' => HadTime(s)]_vars

\* An open session is closed in the end, even if nobody lifts the pause: unless
\* a pause and a resume have overlapped in a way that leaves the time of a pause
\* on a session that is not paused, which the scheduler then credits for ever.
Stranded(s) == ~rows[s].paused /\ rows[s].since # NoTime

SessionsEnd == \A s \in Sessions : Open(s) ~> ~Open(s) \/ Stranded(s)

-----------------------------------------------------------------------------
(* The inductive invariant behind them.                                    *)

MarksFit(mark) == mark.paused <=> mark.since # NoTime

\* Staff reads and writes both columns of a mark together.
ExamFits ==
    /\ MarksFit(exam)
    /\ \A h \in Desks : at[h] = "loaded" => kind[h] \in {"pause", "resume"}
    /\ \A h \in Desks : at[h] # "idle" /\ kind[h] = "pause" => loaded[h] = NoPause
    /\ \A h \in Desks : at[h] # "idle" /\ kind[h] = "resume" =>
          loaded[h].paused /\ loaded[h].since # NoTime

\* The pauses of an unmixed session are credited in full.
RowFits(s) ==
    LET row == rows[s] IN
    /\ MarksFit(row)
    /\ exam.paused => row.paused /\ row.since >= exam.since
    /\ row.total + (IF row.paused THEN now - row.since ELSE 0) >= idle[s]
    /\ \A h \in Desks : at[h] # "idle" /\ kind[h] = "resume" /\ row.paused =>
          row.since >= loaded[h].since

\* So they are by an entity of the session, as the clock stands still.
EntityFits(h, s) ==
    LET row == rows[s]
        entity == mine[h][s]
    IN
    /\ MarksFit(entity)
    /\ kind[h] = "adminPause" => ~entity.paused
    /\ kind[h] \in {"resume", "adminResume"} => entity.paused
    /\ kind[h] = "resume" => entity.since >= loaded[h].since
    /\ entity.total + (IF entity.paused THEN now - entity.since ELSE 0) >= idle[s]
    /\ row.paused => row.since = now \/ (entity.paused /\ row.since = entity.since)

\* All times are of the past.
Past(mark) == mark.since # NoTime => mark.since <= now

PastTimes ==
    /\ Past(exam)
    /\ \A s \in Sessions : Past(rows[s]) /\ rows[s].start <= now
    /\ \A h \in Desks : Past(loaded[h]) /\ \A s \in Sessions : Past(mine[h][s])

SessionFits(s) ==
    /\ rows[s].status = "unused" =>
          /\ ~rows[s].paused /\ idle[s] = 0
          /\ s \notin closing /\ \A h \in Desks : s \notin found[h]
    /\ Open(s) => idle[s] <= now - rows[s].start
    /\ Unmixed(s) =>
          /\ RowFits(s)
          /\ \A h \in Desks : at[h] = "found" /\ s \in found[h] => EntityFits(h, s)
          /\ s \in closing => HadTime(s)

ClockInv == TypeOK /\ PastTimes /\ ExamFits /\ \A s \in Sessions : SessionFits(s)
=============================================================================
