-------------------------- MODULE PauseClockProofs --------------------------
(***************************************************************************)
(* Theorems about PauseClock, for all sessions, clients of staff, lengths  *)
(* and bounds.                                                             *)
(***************************************************************************)
EXTENDS PauseClock, TLAPS

-----------------------------------------------------------------------------
(* Columns.                                                                *)

LEMMA MergeMark ==
    ASSUME NEW old \in Marks, NEW new \in Marks, NEW current \in Marks
    PROVE  Merge(old, new, current) =
              [paused |-> IF new.paused # old.paused THEN new.paused ELSE current.paused,
               since |-> IF new.since # old.since THEN new.since ELSE current.since]
  BY DEF Merge, Marks

LEMMA MergeRow ==
    ASSUME NEW old \in Rows, NEW new \in Rows, NEW current \in Rows
    PROVE  Merge(old, new, current) =
              [status |-> IF new.status # old.status THEN new.status ELSE current.status,
               start |-> IF new.start # old.start THEN new.start ELSE current.start,
               paused |-> IF new.paused # old.paused THEN new.paused ELSE current.paused,
               since |-> IF new.since # old.since THEN new.since ELSE current.since,
               total |-> IF new.total # old.total THEN new.total ELSE current.total]
  BY DEF Merge, Rows

\* The columns of a row after a request that changes its pause has committed.
LEMMA MergedPause ==
    ASSUME NEW old \in Rows, NEW new \in Rows, NEW current \in Rows,
           new.status = old.status, new.start = old.start
    PROVE  LET row == Merge(old, new, current) IN
           /\ row \in Rows
           /\ row.status = current.status
           /\ row.start = current.start
           /\ row.paused = IF new.paused # old.paused THEN new.paused ELSE current.paused
           /\ row.since = IF new.since # old.since THEN new.since ELSE current.since
           /\ row.total = IF new.total # old.total THEN new.total ELSE current.total
<1> DEFINE row == [status |-> current.status, start |-> current.start,
                   paused |-> IF new.paused # old.paused THEN new.paused ELSE current.paused,
                   since |-> IF new.since # old.since THEN new.since ELSE current.since,
                   total |-> IF new.total # old.total THEN new.total ELSE current.total]
<1>1. Merge(old, new, current) = row
  BY MergeRow
<1>2. row \in Rows
  BY DEF Rows
<1> QED
  BY <1>1, <1>2

LEMMA NewRows ==
    ASSUME NEW row \in Rows, now \in Times, NEW credit \in Nat
    PROVE  /\ PausedRow(row) \in Rows
           /\ PausedRow(row).status = row.status /\ PausedRow(row).start = row.start
           /\ PausedRow(row).paused = TRUE /\ PausedRow(row).since = now
           /\ PausedRow(row).total = row.total
           /\ ResumedRow(row, credit) \in Rows
           /\ ResumedRow(row, credit).status = row.status
           /\ ResumedRow(row, credit).start = row.start
           /\ ResumedRow(row, credit).paused = FALSE
           /\ ResumedRow(row, credit).since = NoTime
           /\ ResumedRow(row, credit).total = row.total + credit
<1>1. PausedRow(row) = [status |-> row.status, start |-> row.start, paused |-> TRUE,
                        since |-> now, total |-> row.total]
  BY DEF PausedRow
<1>2. ResumedRow(row, credit) = [status |-> row.status, start |-> row.start, paused |-> FALSE,
                                 since |-> NoTime, total |-> row.total + credit]
  BY DEF ResumedRow
<1>3. [status |-> row.status, start |-> row.start, paused |-> TRUE,
       since |-> now, total |-> row.total] \in Rows
  <2>1. /\ row.status \in {"unused", "in_progress", "closed"} /\ row.start \in Times
        /\ row.total \in Nat
    BY DEF Rows
  <2> QED
    BY <2>1 DEF Rows
<1>4. [status |-> row.status, start |-> row.start, paused |-> FALSE,
       since |-> NoTime, total |-> row.total + credit] \in Rows
  <2>1. /\ row.status \in {"unused", "in_progress", "closed"} /\ row.start \in Times
        /\ row.total \in Nat
    BY DEF Rows
  <2>2. row.total + credit \in Nat
    BY <2>1
  <2> DEFINE total == row.total + credit
  <2> HIDE DEF total
  <2>3. total \in Nat
    BY <2>2 DEF total
  <2>4. [status |-> row.status, start |-> row.start, paused |-> FALSE,
         since |-> NoTime, total |-> total] \in Rows
    BY <2>1, <2>3 DEF Rows
  <2> QED
    BY <2>4 DEF total
<1> QED
  BY <1>1, <1>2, <1>3, <1>4

LEMMA ConstantRows ==
    /\ Unused \in Rows /\ Unused.status = "unused" /\ Unused.since = NoTime
    /\ Nothing \in [Sessions -> Rows] /\ \A s \in Sessions : Nothing[s] = Unused
    /\ NoPause \in Marks /\ NoPause.since = NoTime /\ ~NoPause.paused
    /\ 0 \in Times /\ NoTime \notin Times
<1>1. 0 \in Times /\ NoTime \notin Times
  BY ClockAssumption DEF ClockAssumption, Times
<1>2. Unused \in Rows
  BY <1>1 DEF Unused, Rows
<1> QED
  BY <1>1, <1>2 DEF Unused, Nothing, NoPause, Marks

-----------------------------------------------------------------------------
(* Types.                                                                  *)

TypeInv == TypeOK /\ PastTimes /\ ExamFits

LEMMA SinceIsNat ==
    ASSUME now \in Times, NEW mark, mark.since \in Times \union {NoTime}, Past(mark)
    PROVE  /\ Since(mark) \in Nat
           /\ mark.since = NoTime => Since(mark) = 0
           /\ mark.since # NoTime => Since(mark) = now - mark.since
  BY ConstantRows DEF Since, Past, Times

\* What a commit does to each session: new values, column by column.
PauseLike(h, s) ==
    /\ rows'[s].paused = IF mine[h][s].paused THEN rows[s].paused ELSE TRUE
    /\ rows'[s].since = IF now # mine[h][s].since THEN now ELSE rows[s].since
    /\ rows'[s].total = rows[s].total

ResumeLike(h, s, credit) ==
    /\ rows'[s].paused = IF mine[h][s].paused THEN FALSE ELSE rows[s].paused
    /\ rows'[s].since = IF mine[h][s].since # NoTime THEN NoTime ELSE rows[s].since
    /\ rows'[s].total = IF credit # 0 THEN mine[h][s].total + credit ELSE rows[s].total

CommitOf(h) == Pause(h) \/ Resume(h) \/ AdminPause(h) \/ AdminResume(h)

\* The row that a pause of what was loaded as old leaves of the current row.
IsPaused(old, current, row) ==
    /\ row \in Rows
    /\ row.status = current.status /\ row.start = current.start
    /\ row.paused = IF old.paused THEN current.paused ELSE TRUE
    /\ row.since = IF now # old.since THEN now ELSE current.since
    /\ row.total = current.total

LEMMA PausedMerge ==
    ASSUME NEW old \in Rows, NEW current \in Rows, now \in Times
    PROVE  IsPaused(old, current, Merge(old, PausedRow(old), current))
<1> DEFINE new == PausedRow(old)
           row == Merge(old, PausedRow(old), current)
<1>1. /\ new \in Rows /\ new.status = old.status /\ new.start = old.start
      /\ new.paused = TRUE /\ new.since = now /\ new.total = old.total
  BY NewRows
<1> HIDE DEF new
<1>2. /\ row \in Rows /\ row.status = current.status /\ row.start = current.start
      /\ row.paused = IF new.paused # old.paused THEN new.paused ELSE current.paused
      /\ row.since = IF new.since # old.since THEN new.since ELSE current.since
      /\ row.total = IF new.total # old.total THEN new.total ELSE current.total
  <2> DEFINE merged == Merge(old, new, current)
  <2>1. /\ merged \in Rows /\ merged.status = current.status /\ merged.start = current.start
        /\ merged.paused = IF new.paused # old.paused THEN new.paused ELSE current.paused
        /\ merged.since = IF new.since # old.since THEN new.since ELSE current.since
        /\ merged.total = IF new.total # old.total THEN new.total ELSE current.total
    BY <1>1, MergedPause
  <2>2. row = merged
    BY DEF new
  <2> HIDE DEF merged, row
  <2> QED
    BY <2>1, <2>2
<1> HIDE DEF row
<1>3. old.paused \in BOOLEAN
  BY DEF Rows
<1>4. row.paused = IF old.paused THEN current.paused ELSE TRUE
  BY <1>1, <1>2, <1>3
<1>5. /\ row.since = IF now # old.since THEN now ELSE current.since
      /\ row.total = current.total
  BY <1>1, <1>2
<1>6. /\ row \in Rows /\ row.status = current.status /\ row.start = current.start
      /\ row.paused = IF old.paused THEN current.paused ELSE TRUE
      /\ row.since = IF now # old.since THEN now ELSE current.since
      /\ row.total = current.total
  BY <1>2, <1>4, <1>5
<1> QED
  BY <1>6 DEF row, IsPaused

LEMMA ResumedMerge ==
    ASSUME NEW old \in Rows, NEW current \in Rows, now \in Times, NEW credit \in Nat
    PROVE  LET row == Merge(old, ResumedRow(old, credit), current) IN
           /\ row \in Rows
           /\ row.status = current.status /\ row.start = current.start
           /\ row.paused = IF old.paused THEN FALSE ELSE current.paused
           /\ row.since = IF old.since # NoTime THEN NoTime ELSE current.since
           /\ row.total = IF credit # 0 THEN old.total + credit ELSE current.total
<1> DEFINE new == ResumedRow(old, credit)
           row == Merge(old, new, current)
<1>1. /\ new \in Rows /\ new.status = old.status /\ new.start = old.start
      /\ new.paused = FALSE /\ new.since = NoTime /\ new.total = old.total + credit
  BY NewRows
<1> HIDE DEF new
<1>2. /\ row \in Rows /\ row.status = current.status /\ row.start = current.start
      /\ row.paused = IF new.paused # old.paused THEN new.paused ELSE current.paused
      /\ row.since = IF new.since # old.since THEN new.since ELSE current.since
      /\ row.total = IF new.total # old.total THEN new.total ELSE current.total
  BY <1>1, MergedPause
<1> HIDE DEF row
<1>3. old.paused \in BOOLEAN /\ old.total \in Nat
  BY DEF Rows
<1>4. row.paused = IF old.paused THEN FALSE ELSE current.paused
  BY <1>1, <1>2, <1>3
<1>5. /\ row.since = IF old.since # NoTime THEN NoTime ELSE current.since
      /\ row.total = IF credit # 0 THEN old.total + credit ELSE current.total
  BY <1>1, <1>2, <1>3
<1>6. /\ row \in Rows /\ row.status = current.status /\ row.start = current.start
      /\ row.paused = IF old.paused THEN FALSE ELSE current.paused
      /\ row.since = IF old.since # NoTime THEN NoTime ELSE current.since
      /\ row.total = IF credit # 0 THEN old.total + credit ELSE current.total
  BY <1>2, <1>4, <1>5
<1> QED
  BY <1>6 DEF row, new

LEMMA CommitRows ==
    ASSUME TypeInv, NEW h \in Desks, CommitOf(h)
    PROVE  /\ rows' \in [Sessions -> Rows]
           /\ \A s \in Sessions :
                /\ rows'[s].status = rows[s].status /\ rows'[s].start = rows[s].start
                /\ s \notin found[h] => rows'[s] = rows[s]
                /\ s \in found[h] =>
                      /\ Pause(h) \/ AdminPause(h) => PauseLike(h, s)
                      /\ Resume(h) => ResumeLike(h, s, Since(loaded[h]))
                      /\ AdminResume(h) => ResumeLike(h, s, Since(mine[h][s]))
<1>0. /\ now \in Times /\ loaded[h] \in Marks /\ Past(loaded[h])
      /\ \A s \in Sessions : rows[s] \in Rows /\ mine[h][s] \in Rows /\ Past(mine[h][s])
  BY DEF TypeInv, TypeOK, PastTimes
<1>1. Since(loaded[h]) \in Nat /\ \A s \in Sessions : Since(mine[h][s]) \in Nat
  BY <1>0, SinceIsNat DEF Marks, Rows
<1>2. CASE Pause(h) \/ AdminPause(h)
  <2>1. rows' = Updated(h, AllPaused(h))
    BY <1>2 DEF Pause, AdminPause
  <2>2. ASSUME NEW s \in Sessions
        PROVE  /\ rows'[s] \in Rows
               /\ rows'[s].status = rows[s].status /\ rows'[s].start = rows[s].start
               /\ s \notin found[h] => rows'[s] = rows[s]
               /\ s \in found[h] => PauseLike(h, s)
    <3>1. CASE s \notin found[h]
      BY <1>0, <2>1, <3>1 DEF Updated
    <3>2. CASE s \in found[h]
      <4>1. rows'[s] = Merge(mine[h][s], PausedRow(mine[h][s]), rows[s])
        BY <2>1, <3>2 DEF Updated, AllPaused
      <4>2. mine[h][s] \in Rows /\ rows[s] \in Rows /\ now \in Times
        BY <1>0
      <4>3. IsPaused(mine[h][s], rows[s], rows'[s])
        BY <4>1, <4>2, PausedMerge
      <4> QED
        BY <3>2, <4>3 DEF PauseLike, IsPaused
    <3> QED
      BY <3>1, <3>2
  <2>3. rows' \in [Sessions -> Rows]
    BY <2>1, <2>2 DEF Updated
  <2>4. ~Resume(h) /\ ~AdminResume(h)
    BY <1>2 DEF Pause, AdminPause, Resume, AdminResume, Commits
  <2> QED
    BY <2>2, <2>3, <2>4
<1>3. ASSUME NEW credit \in [Sessions -> Nat], rows' = Updated(h, Credited(h, credit))
      PROVE  /\ rows' \in [Sessions -> Rows]
             /\ \A s \in Sessions :
                /\ rows'[s].status = rows[s].status /\ rows'[s].start = rows[s].start
                /\ s \notin found[h] => rows'[s] = rows[s]
                /\ s \in found[h] => ResumeLike(h, s, credit[s])
  <2>1. ASSUME NEW s \in Sessions
        PROVE  /\ rows'[s] \in Rows
               /\ rows'[s].status = rows[s].status /\ rows'[s].start = rows[s].start
               /\ s \notin found[h] => rows'[s] = rows[s]
               /\ s \in found[h] => ResumeLike(h, s, credit[s])
    <3>1. CASE s \notin found[h]
      BY <1>0, <1>3, <3>1 DEF Updated
    <3>2. CASE s \in found[h]
      <4>1. rows'[s] = Merge(mine[h][s], ResumedRow(mine[h][s], credit[s]), rows[s])
        BY <1>3, <3>2 DEF Updated, Credited
      <4>2. credit[s] \in Nat
        OBVIOUS
      <4> DEFINE old == mine[h][s]
                 current == rows[s]
                 c == credit[s]
                 row == Merge(old, ResumedRow(old, c), current)
      <4>3. old \in Rows /\ current \in Rows
        BY <1>0
      <4>4. /\ row \in Rows /\ row.status = current.status /\ row.start = current.start
            /\ row.paused = IF old.paused THEN FALSE ELSE current.paused
            /\ row.since = IF old.since # NoTime THEN NoTime ELSE current.since
            /\ row.total = IF c # 0 THEN old.total + c ELSE current.total
        <5> HIDE DEF old, current
        <5>1. c \in Nat
          BY <4>2
        <5> HIDE DEF c
        <5> QED
          BY <1>0, <4>3, <5>1, ResumedMerge
      <4>5. rows'[s] = row
        BY <4>1
      <4> HIDE DEF row
      <4> QED
        BY <3>2, <4>4, <4>5 DEF ResumeLike
    <3> QED
      BY <3>1, <3>2
  <2>2. rows' \in [Sessions -> Rows]
    BY <1>3, <2>1 DEF Updated
  <2> QED
    BY <2>1, <2>2
<1>4. CASE Resume(h)
  <2> DEFINE credit == [s \in Sessions |-> Since(loaded[h])]
  <2>1. rows' = Updated(h, Credited(h, credit)) /\ credit \in [Sessions -> Nat]
    BY <1>1, <1>4 DEF Resume
  <2>2. ~Pause(h) /\ ~AdminPause(h) /\ ~AdminResume(h)
    BY <1>4 DEF Pause, AdminPause, Resume, AdminResume, Commits
  <2>3. \A s \in Sessions : credit[s] = Since(loaded[h])
    OBVIOUS
  <2> HIDE DEF credit
  <2> QED
    BY <1>3, <2>1, <2>2, <2>3
<1>5. CASE AdminResume(h)
  <2> DEFINE credit == [s \in Sessions |-> Since(mine[h][s])]
  <2>1. rows' = Updated(h, Credited(h, credit)) /\ credit \in [Sessions -> Nat]
    BY <1>1, <1>5 DEF AdminResume
  <2>2. ~Pause(h) /\ ~AdminPause(h) /\ ~Resume(h)
    BY <1>5 DEF Pause, AdminPause, Resume, AdminResume, Commits
  <2>3. \A s \in Sessions : credit[s] = Since(mine[h][s])
    OBVIOUS
  <2> HIDE DEF credit
  <2> QED
    BY <1>3, <2>1, <2>2, <2>3
<1> QED
  BY <1>2, <1>4, <1>5 DEF CommitOf

LEMMA InitFits == Init => TypeInv
<1> SUFFICES ASSUME Init PROVE TypeInv
  OBVIOUS
<1>1. now \in Times /\ now = 0 /\ 0 \in Nat
  BY ConstantRows DEF Init
<1>2. TypeOK
  BY <1>1, ConstantRows, ClockAssumption DEF Init, TypeOK, Kinds, ClockAssumption
<1>3. PastTimes
  BY <1>1, ConstantRows DEF Init, PastTimes, Past, Unused, NoPause, Nothing
<1>4. ExamFits
  BY ConstantRows DEF Init, ExamFits, MarksFit
<1> QED
  BY <1>2, <1>3, <1>4 DEF TypeInv

LEMMA PastLater ==
    ASSUME now \in Times, now' = now + 1, NEW mark, mark.since \in Times \union {NoTime},
           Past(mark)
    PROVE  mark.since # NoTime => mark.since <= now'
  BY ConstantRows DEF Past, Times

LEMMA TypesTick ==
    ASSUME TypeInv, Tick PROVE TypeInv'
<1>1. now \in Times /\ now' = now + 1 /\ now' \in Times /\ now \in Int /\ now' \in Int
  BY ClockAssumption DEF TypeInv, TypeOK, Tick, Times, ClockAssumption
<1>2. idle' \in [Sessions -> Nat]
  BY DEF TypeInv, TypeOK, Tick
<1>3. UNCHANGED <<exam, rows, at, kind, loaded, found, mine, asked, closing, mixed>>
  BY DEF Tick, request
<1>4. TypeOK'
  BY <1>1, <1>2, <1>3 DEF TypeInv, TypeOK
<1>5. \A mark : mark.since \in Times \union {NoTime} /\ Past(mark) => (mark.since # NoTime => mark.since <= now')
  BY <1>1, PastLater
<1>6. /\ exam.since \in Times \union {NoTime}
      /\ \A s \in Sessions : rows[s].since \in Times \union {NoTime} /\ rows[s].start \in Times
      /\ \A h \in Desks : /\ loaded[h].since \in Times \union {NoTime}
                          /\ \A s \in Sessions : mine[h][s].since \in Times \union {NoTime}
  BY DEF TypeInv, TypeOK, Marks, Rows
<1>7. \A s \in Sessions : rows[s].start <= now'
  <2>1. \A n \in Times : n <= now => n <= now'
    BY <1>1 DEF Times
  <2> QED
    BY <1>6, <2>1 DEF TypeInv, PastTimes
<1>8. PastTimes'
  BY <1>3, <1>5, <1>6, <1>7 DEF TypeInv, PastTimes, Past
<1>9. ExamFits'
  BY <1>3 DEF TypeInv, ExamFits, MarksFit
<1> QED
  BY <1>4, <1>8, <1>9 DEF TypeInv

LEMMA TypesStudents ==
    ASSUME TypeInv, NEW s \in Sessions, Start(s) \/ Submit(s) PROVE TypeInv'
<1>1. UNCHANGED <<now, exam, at, kind, loaded, found, mine, asked, closing, idle>>
  BY DEF Start, Submit, request
<1>2. now \in Times
  BY DEF TypeInv, TypeOK
<1>3. /\ rows' \in [Sessions -> Rows]
      /\ \A t \in Sessions : Past(rows'[t]) /\ rows'[t].start <= now
  <2>1. CASE Start(s)
    <3>1. [status |-> "in_progress", start |-> now, paused |-> FALSE,
           since |-> NoTime, total |-> 0] \in Rows
      BY <1>2 DEF Rows
    <3>2. now <= now
      BY <1>2 DEF Times
    <3> QED
      BY <2>1, <3>1, <3>2 DEF Start, TypeInv, TypeOK, PastTimes, Past
  <2>2. CASE Submit(s)
    <3>1. rows[s] \in Rows
      BY DEF TypeInv, TypeOK
    <3>2. /\ [rows[s] EXCEPT !.status = "closed"] \in Rows
          /\ [rows[s] EXCEPT !.status = "closed"].since = rows[s].since
          /\ [rows[s] EXCEPT !.status = "closed"].start = rows[s].start
      BY <3>1 DEF Rows
    <3> QED
      BY <2>2, <3>2 DEF Submit, TypeInv, TypeOK, PastTimes, Past
  <2> QED
    BY <2>1, <2>2
<1>4. mixed' \subseteq Sessions
  BY DEF Start, Submit, LeftOut, TypeInv, TypeOK
<1>5. TypeOK'
  BY <1>1, <1>3, <1>4 DEF TypeInv, TypeOK
<1>6. PastTimes'
  BY <1>1, <1>3 DEF TypeInv, PastTimes, Past
<1>7. ExamFits'
  BY <1>1 DEF TypeInv, ExamFits, MarksFit
<1> QED
  BY <1>5, <1>6, <1>7 DEF TypeInv

LEMMA TypesLoad ==
    ASSUME TypeInv, NEW h \in Desks, NEW k \in {"pause", "resume"}, Load(h, k) PROVE TypeInv'
<1>1. /\ at' = [at EXCEPT ![h] = "loaded"] /\ kind' = [kind EXCEPT ![h] = k]
      /\ loaded' = [loaded EXCEPT ![h] = exam] /\ asked' = asked + 1 /\ asked < MaxRequests
      /\ UNCHANGED <<now, exam, rows, found, mine, closing, idle, mixed>>
  BY DEF Load
<1>2. exam \in Marks /\ MarksFit(exam) /\ Past(exam)
  BY DEF TypeInv, TypeOK, ExamFits, PastTimes
<1>3. /\ k = "pause" => exam = NoPause
      /\ k = "resume" => exam.paused /\ exam.since # NoTime /\ exam.since \in Times
  <2>1. exam = [paused |-> exam.paused, since |-> exam.since]
    BY <1>2 DEF Marks
  <2> QED
    BY <1>2, <2>1 DEF Load, MarksFit, NoPause, Marks
<1>4. asked' \in 0..MaxRequests
  BY <1>1, ClockAssumption DEF TypeInv, TypeOK, ClockAssumption
<1>5. \A g \in Desks : /\ kind'[g] \in Kinds
                       /\ at'[g] # "idle" /\ kind'[g] = "resume" =>
                             loaded'[g].paused /\ loaded'[g].since # NoTime /\ loaded'[g].since \in Times
                       /\ at'[g] # "idle" /\ kind'[g] = "pause" => loaded'[g] = NoPause
                       /\ Past(loaded'[g])
  BY <1>1, <1>2, <1>3 DEF TypeInv, TypeOK, ExamFits, PastTimes, Kinds
<1>6. TypeOK'
  BY <1>1, <1>2, <1>4, <1>5 DEF TypeInv, TypeOK, Kinds
<1>7. PastTimes'
  BY <1>1, <1>5 DEF TypeInv, PastTimes, Past
<1>8. \A g \in Desks : at'[g] = "loaded" => kind'[g] \in {"pause", "resume"}
  BY <1>1 DEF TypeInv, TypeOK, ExamFits
<1>9. ExamFits'
  BY <1>1, <1>2, <1>5, <1>8 DEF ExamFits, MarksFit
<1> QED
  BY <1>6, <1>7, <1>9 DEF TypeInv

LEMMA TypesSelect ==
    ASSUME TypeInv, NEW h \in Desks, NEW k \in {"adminPause", "adminResume"},
           Find(h) \/ AdminFind(h, k)
    PROVE  TypeInv'
<1>1. PICK set \in SUBSET Sessions : Select(h, set)
  BY DEF Find, AdminFind, InPause
<1>2. /\ at' = [at EXCEPT ![h] = "found"] /\ found' = [found EXCEPT ![h] = set]
      /\ mine' = [mine EXCEPT ![h] = [s \in Sessions |-> IF s \in set THEN rows[s] ELSE Unused]]
      /\ UNCHANGED <<now, exam, rows, loaded, closing, idle, mixed>>
  BY <1>1 DEF Select
<1>3. /\ kind' \in [Desks -> Kinds] /\ asked' \in 0..MaxRequests
      /\ \A g \in Desks : at'[g] # "idle" /\ kind'[g] \in {"pause", "resume"} =>
                            kind[g] = kind'[g] /\ at[g] # "idle"
      /\ \A g \in Desks : at'[g] = "loaded" => at[g] = "loaded" /\ kind'[g] = kind[g]
  <2>1. CASE Find(h)
    BY <1>2, <2>1 DEF Find, TypeInv, TypeOK
  <2>2. CASE AdminFind(h, k)
    <3>1. asked' \in 0..MaxRequests
      BY <2>2, ClockAssumption DEF AdminFind, TypeInv, TypeOK, ClockAssumption
    <3> QED
      BY <1>2, <2>2, <3>1 DEF AdminFind, TypeInv, TypeOK, Kinds
  <2> QED
    BY <2>1, <2>2
<1>4. /\ mine' \in [Desks -> [Sessions -> Rows]]
      /\ \A g \in Desks, s \in Sessions : Past(mine'[g][s])
  <2> DEFINE entities == [s \in Sessions |-> IF s \in set THEN rows[s] ELSE Unused]
  <2>1. entities \in [Sessions -> Rows] /\ \A s \in Sessions : Past(entities[s])
    BY ConstantRows DEF TypeInv, TypeOK, PastTimes, Past
  <2>2. mine' = [mine EXCEPT ![h] = entities]
    BY <1>2
  <2> HIDE DEF entities
  <2> QED
    BY <2>1, <2>2 DEF TypeInv, TypeOK, PastTimes
<1>5. TypeOK'
  BY <1>2, <1>3, <1>4 DEF TypeInv, TypeOK
<1>6. PastTimes'
  BY <1>2, <1>4 DEF TypeInv, PastTimes, Past
<1>7. ExamFits'
  BY <1>2, <1>3 DEF TypeInv, ExamFits, MarksFit
<1> QED
  BY <1>5, <1>6, <1>7 DEF TypeInv

\* The exam after a commit: paused from now on, not paused, or as it was.
LEMMA CommitExam ==
    ASSUME TypeInv, NEW h \in Desks, CommitOf(h)
    PROVE  /\ Pause(h) => exam' = [paused |-> TRUE, since |-> now]
           /\ Resume(h) => exam' = NoPause
           /\ AdminPause(h) \/ AdminResume(h) => exam' = exam
           /\ exam' \in Marks /\ MarksFit(exam') /\ (exam'.since # NoTime => exam'.since <= now)
<1>1. /\ loaded[h] \in Marks /\ exam \in Marks /\ NoPause \in Marks /\ now \in Times
      /\ [paused |-> TRUE, since |-> now] \in Marks
      /\ now <= now /\ now # NoTime /\ MarksFit(exam) /\ Past(exam)
  BY ConstantRows DEF TypeInv, TypeOK, Marks, ExamFits, PastTimes, Times
<1>2. CASE Pause(h)
  <2>1. loaded[h] = NoPause /\ exam' = Merge(loaded[h], [paused |-> TRUE, since |-> now], exam)
    BY <1>2 DEF Pause, Commits, TypeInv, ExamFits
  <2>2. exam' = [paused |-> TRUE, since |-> now]
    BY <1>1, <2>1, MergeMark DEF NoPause
  <2>3. ~Resume(h) /\ ~AdminPause(h) /\ ~AdminResume(h)
    BY <1>2 DEF Pause, AdminPause, Resume, AdminResume, Commits
  <2> QED
    BY <1>1, <2>2, <2>3 DEF MarksFit
<1>3. CASE Resume(h)
  <2>1. /\ loaded[h].paused /\ loaded[h].since # NoTime
        /\ exam' = Merge(loaded[h], NoPause, exam)
    BY <1>3 DEF Resume, Commits, TypeInv, ExamFits
  <2>2. exam' = NoPause
    BY <1>1, <2>1, MergeMark DEF NoPause
  <2>3. ~Pause(h) /\ ~AdminPause(h) /\ ~AdminResume(h)
    BY <1>3 DEF Pause, AdminPause, Resume, AdminResume, Commits
  <2> QED
    BY <1>1, <2>2, <2>3, ConstantRows DEF MarksFit
<1>4. CASE AdminPause(h) \/ AdminResume(h)
  <2>1. exam' = exam /\ ~Pause(h) /\ ~Resume(h)
    BY <1>4 DEF Pause, AdminPause, Resume, AdminResume, Commits
  <2> QED
    BY <1>1, <2>1 DEF Past
<1> QED
  BY <1>2, <1>3, <1>4 DEF CommitOf

\* What every commit does besides.
LEMMA CommitFrame ==
    ASSUME NEW h \in Desks, CommitOf(h)
    PROVE  /\ at[h] = "found" /\ at' = [at EXCEPT ![h] = "idle"]
           /\ found' = [found EXCEPT ![h] = {}] /\ mine' = [mine EXCEPT ![h] = Nothing]
           /\ kind' = [kind EXCEPT ![h] = "pause"] /\ loaded' = [loaded EXCEPT ![h] = NoPause]
           /\ UNCHANGED <<now, asked, closing, idle>>
           /\ LeftOut \subseteq Sessions /\ LeftOut' \subseteq Sessions
           /\ mixed \subseteq mixed'
           /\ mixed' \subseteq mixed \union Sessions
           /\ ~Resume(h) => LeftOut' \subseteq mixed'
           /\ Pause(h) => InPause \subseteq mixed'
<1>1. /\ at[h] = "found" /\ Done(h)
      /\ UNCHANGED <<now, asked, closing, idle>>
  BY DEF CommitOf, Pause, Resume, AdminPause, AdminResume, Commits
<1>2. LeftOut \subseteq Sessions /\ LeftOut' \subseteq Sessions /\ InPause \subseteq Sessions
  BY DEF LeftOut, InPause
<1> QED
  BY <1>1, <1>2 DEF Done, CommitOf, Pause, Resume, AdminPause, AdminResume

LEMMA TypesCommit ==
    ASSUME TypeInv, NEW h \in Desks, CommitOf(h) PROVE TypeInv'
<1>1. \A s \in Sessions : Past(rows'[s]) /\ rows'[s].start <= now
  <2>1. ASSUME NEW s \in Sessions PROVE rows'[s].since \in {rows[s].since, now, NoTime}
    <3>1. s \notin found[h] => rows'[s] = rows[s]
      BY CommitRows
    <3>2. s \in found[h] => PauseLike(h, s) \/ (\E c \in {Since(loaded[h]), Since(mine[h][s])} : ResumeLike(h, s, c))
      BY CommitRows DEF CommitOf
    <3> QED
      BY <3>1, <3>2 DEF PauseLike, ResumeLike
  <2>2. \A s \in Sessions : Past(rows[s]) /\ rows[s].start <= now /\ rows'[s].start = rows[s].start
    BY CommitRows DEF TypeInv, PastTimes
  <2>3. now <= now
    BY DEF TypeInv, TypeOK, Times
  <2> QED
    BY <2>1, <2>2, <2>3 DEF Past
<1>2. /\ at[h] = "found" /\ at' = [at EXCEPT ![h] = "idle"]
      /\ found' = [found EXCEPT ![h] = {}] /\ mine' = [mine EXCEPT ![h] = Nothing]
      /\ kind' = [kind EXCEPT ![h] = "pause"] /\ loaded' = [loaded EXCEPT ![h] = NoPause]
      /\ UNCHANGED <<now, asked, closing, idle>>
      /\ mixed' \subseteq mixed \union Sessions
  BY CommitFrame
<1>3. /\ exam' \in Marks /\ MarksFit(exam') /\ (exam'.since # NoTime => exam'.since <= now)
  BY CommitExam
<1>4. rows' \in [Sessions -> Rows]
  BY CommitRows
<1>5. TypeOK'
  BY <1>2, <1>3, <1>4, ConstantRows DEF TypeInv, TypeOK, Kinds
<1>6. PastTimes'
  <2>1. Past(exam)'
    BY <1>2, <1>3 DEF Past
  <2>2. \A s \in Sessions : Past(rows[s])' /\ rows'[s].start <= now'
    BY <1>1, <1>2 DEF Past
  <2>3. \A g \in Desks : Past(loaded[g])' /\ \A s \in Sessions : Past(mine[g][s])'
    BY <1>2, ConstantRows DEF Past, TypeInv, TypeOK, PastTimes
  <2> QED
    BY <2>1, <2>2, <2>3 DEF PastTimes
<1>7. ExamFits'
  BY <1>2, <1>3 DEF TypeInv, TypeOK, ExamFits, MarksFit
<1> QED
  BY <1>5, <1>6, <1>7 DEF TypeInv

LEMMA TypesScheduler ==
    ASSUME TypeInv, Scan \/ Close PROVE TypeInv'
<1>1. UNCHANGED <<now, exam, at, kind, loaded, found, mine, asked, idle, mixed>>
  BY DEF Scan, Close, request
<1>2. closing' \subseteq Sessions
  BY DEF Scan, Close
<1>3. /\ rows' \in [Sessions -> Rows]
      /\ \A s \in Sessions : Past(rows'[s]) /\ rows'[s].start <= now
  <2>1. CASE Scan
    BY <2>1 DEF Scan, TypeInv, TypeOK, PastTimes
  <2>2. CASE Close
    <3>1. \A s \in Sessions : rows'[s] = rows[s] \/ rows'[s] = [rows[s] EXCEPT !.status = "closed"]
      BY <2>2 DEF Close
    <3>2. ASSUME NEW s \in Sessions
          PROVE  /\ rows'[s] \in Rows /\ rows'[s].since = rows[s].since
                 /\ rows'[s].start = rows[s].start
      <4>1. rows[s] \in Rows
        BY DEF TypeInv, TypeOK
      <4>2. CASE rows'[s] = rows[s]
        BY <4>1, <4>2
      <4>3. CASE rows'[s] = [rows[s] EXCEPT !.status = "closed"]
        BY <4>1, <4>3 DEF Rows
      <4> QED
        BY <3>1, <4>2, <4>3
    <3>3. rows' \in [Sessions -> Rows]
      BY <2>2, <3>2 DEF Close
    <3> QED
      BY <3>2, <3>3 DEF TypeInv, PastTimes, Past
  <2> QED
    BY <2>1, <2>2
<1>4. TypeOK'
  BY <1>1, <1>2, <1>3 DEF TypeInv, TypeOK
<1>5. PastTimes'
  BY <1>1, <1>3 DEF TypeInv, PastTimes, Past
<1>6. ExamFits'
  BY <1>1 DEF TypeInv, ExamFits, MarksFit
<1> QED
  BY <1>4, <1>5, <1>6 DEF TypeInv

LEMMA TypesStep == TypeInv /\ [Next]_vars => TypeInv'
<1> SUFFICES ASSUME TypeInv, [Next]_vars PROVE TypeInv'
  OBVIOUS
<1>1. CASE UNCHANGED vars
  BY <1>1 DEF vars, request, TypeInv, TypeOK, PastTimes, Past, ExamFits, MarksFit
<1>2. CASE Tick
  BY <1>2, TypesTick
<1>3. CASE \E s \in Sessions : Start(s) \/ Submit(s)
  BY <1>3, TypesStudents
<1>4. ASSUME NEW h \in Desks, StaffStep(h) PROVE TypeInv'
  <2>1. CASE \E k \in {"pause", "resume"} : Load(h, k)
    BY <2>1, TypesLoad
  <2>2. CASE Find(h) \/ \E k \in {"adminPause", "adminResume"} : AdminFind(h, k)
    BY <2>2, TypesSelect
  <2>3. CASE CommitOf(h)
    BY <2>3, TypesCommit
  <2> QED
    BY <1>4, <2>1, <2>2, <2>3 DEF StaffStep, CommitOf
<1>5. CASE Scan \/ Close
  BY <1>5, TypesScheduler
<1> QED
  BY <1>1, <1>2, <1>3, <1>4, <1>5 DEF Next

\* Times and marks have their types, no time is of the future, and a request to
\* resume was admitted while the exam was paused.
THEOREM TypeCorrect == Spec => [](TypeOK /\ PastTimes)
<1>1. Init => TypeInv
  BY InitFits
<1>2. TypeInv /\ [Next]_vars => TypeInv'
  BY TypesStep
<1>3. TypeInv => TypeOK /\ PastTimes
  BY DEF TypeInv
<1> QED
  BY <1>1, <1>2, <1>3, PTL DEF Spec

-----------------------------------------------------------------------------
(* The time of pauses.                                                     *)

LEMMA Facts ==
    ASSUME TypeInv, NEW s \in Sessions
    PROVE  /\ now \in Nat /\ NoTime \notin Nat
           /\ rows[s].paused \in BOOLEAN /\ rows[s].since \in Nat \union {NoTime}
           /\ rows[s].start \in Nat /\ rows[s].start <= now /\ rows[s].total \in Nat
           /\ exam.paused \in BOOLEAN /\ exam.since \in Nat \union {NoTime}
           /\ idle[s] \in Nat
           /\ MarksFit(exam) /\ Past(exam) /\ Past(rows[s])
<1>1. rows[s] \in Rows /\ exam \in Marks
  BY DEF TypeInv, TypeOK
<1> QED
  BY <1>1, ClockAssumption
  DEF TypeInv, TypeOK, PastTimes, ExamFits, Rows, Marks, Times, ClockAssumption

LEMMA EntityFacts ==
    ASSUME TypeInv, NEW s \in Sessions, NEW h \in Desks
    PROVE  /\ mine[h][s].paused \in BOOLEAN /\ mine[h][s].since \in Nat \union {NoTime}
           /\ mine[h][s].total \in Nat /\ Past(mine[h][s])
           /\ loaded[h].paused \in BOOLEAN /\ loaded[h].since \in Nat \union {NoTime}
           /\ Past(loaded[h])
<1>1. mine[h][s] \in Rows /\ loaded[h] \in Marks
  BY DEF TypeInv, TypeOK
<1> QED
  BY <1>1 DEF TypeInv, PastTimes, Rows, Marks, Times

\* A step that leaves a session, the exam and the clock alone.
LEMMA SessionSame ==
    ASSUME NEW s \in Sessions, SessionFits(s), rows'[s] = rows[s], mixed \subseteq mixed',
           UNCHANGED <<now, exam, at, kind, loaded, found, mine, closing, idle>>
    PROVE  SessionFits(s)'
  BY DEF SessionFits, Open, Unmixed, RowFits, EntityFits, HadTime, Worked, MarksFit

LEMMA SessionStart ==
    ASSUME TypeInv, NEW t \in Sessions, Start(t), NEW s \in Sessions, SessionFits(s)
    PROVE  SessionFits(s)'
<1>1. UNCHANGED <<now, exam, at, kind, loaded, found, mine, closing, idle>>
  BY DEF Start, request
<1>2. mixed' = mixed \union LeftOut'
  BY DEF Start
<1>3. rows \in [Sessions -> Rows]
  BY DEF TypeInv, TypeOK
<1>4. CASE s # t
  <2>1. rows'[s] = rows[s]
    BY <1>3, <1>4 DEF Start
  <2> QED
    BY <1>1, <1>2, <2>1, SessionSame
<1>5. CASE s = t
  <2>1. /\ rows'[s].status = "in_progress" /\ rows'[s].start = now /\ rows'[s].paused = FALSE
        /\ rows'[s].since = NoTime /\ rows'[s].total = 0
    BY <1>3, <1>5 DEF Start
  <2>2. s \notin closing /\ idle[s] = 0 /\ \A h \in Desks : s \notin found[h]
    BY <1>5 DEF Start, SessionFits
  <2>3. s \notin mixed' => ~exam.paused
    BY <1>1, <1>2, <2>1 DEF LeftOut, Open
  <2>4. now \in Nat
    BY Facts
  <2> QED
    BY <1>1, <2>1, <2>2, <2>3, <2>4 DEF SessionFits, Open, Unmixed, RowFits, MarksFit
<1> QED
  BY <1>4, <1>5

LEMMA SessionClosed ==
    ASSUME NEW s \in Sessions, rows'[s].status = "closed"
    PROVE  SessionFits(s)'
  BY DEF SessionFits, Open, Unmixed

LEMMA SessionSubmit ==
    ASSUME TypeInv, NEW t \in Sessions, Submit(t), NEW s \in Sessions, SessionFits(s)
    PROVE  SessionFits(s)'
<1>1. /\ UNCHANGED <<now, exam, at, kind, loaded, found, mine, closing, idle, mixed>>
      /\ rows' = [rows EXCEPT ![t] = [rows[t] EXCEPT !.status = "closed"]]
  BY DEF Submit, request
<1>2. rows \in [Sessions -> Rows] /\ rows[t] \in Rows
  BY DEF TypeInv, TypeOK
<1>3. s = t => rows'[s].status = "closed"
  BY <1>1, <1>2 DEF Rows
<1>4. s # t => rows'[s] = rows[s]
  BY <1>1, <1>2
<1> QED
  BY <1>1, <1>3, <1>4, SessionSame, SessionClosed

LEMMA SessionTick ==
    ASSUME TypeInv, Tick, NEW s \in Sessions, SessionFits(s)
    PROVE  SessionFits(s)'
<1>1. /\ now' = now + 1 /\ \A h \in Desks : at[h] = "idle"
      /\ UNCHANGED <<exam, rows, at, kind, loaded, found, mine, closing, mixed>>
      /\ idle'[s] = IF Open(s) /\ ShownPaused(s) THEN idle[s] + 1 ELSE idle[s]
  BY DEF Tick, request
<1> DEFINE i == idle[s]
           j == idle'[s]
           start == rows[s].start
<1>2. /\ now \in Nat /\ start \in Nat /\ i \in Nat /\ rows[s].total \in Nat
      /\ rows[s].since \in Nat \union {NoTime}
  BY Facts
<1>3. j \in Nat /\ i <= j /\ j <= i + 1
  BY <1>1, <1>2
<1>4. Open(s) => j <= now' - start
  <2>1. Open(s) => i <= now - start
    BY DEF SessionFits
  <2> HIDE DEF i, j, start
  <2> QED
    BY <1>1, <1>2, <1>3, <2>1
<1>5. ASSUME Unmixed(s) PROVE RowFits(s)'
  <2>1. RowFits(s)
    BY <1>5 DEF SessionFits
  <2>2. rows[s].total + (IF rows[s].paused THEN now' - rows[s].since ELSE 0) >= j
    <3>1. rows[s].total + (IF rows[s].paused THEN now - rows[s].since ELSE 0) >= i
      BY <2>1 DEF RowFits
    <3>2. CASE rows[s].paused
      <4>1. rows[s].since \in Nat
        BY <1>2, <2>1, <3>2 DEF RowFits, MarksFit
      <4> DEFINE since == rows[s].since
                 total == rows[s].total
      <4> HIDE DEF since, total, i, j
      <4>2. total + (now - since) >= i
        BY <3>1, <3>2 DEF since, total
      <4>3. total + (now' - since) >= j
        BY <1>1, <1>2, <1>3, <4>1, <4>2 DEF since, total
      <4> QED
        BY <3>2, <4>3 DEF since, total
    <3>3. CASE ~rows[s].paused
      <4>1. ~ShownPaused(s)
        BY <2>1, <3>3 DEF ShownPaused, RowFits
      <4>2. j = i
        BY <1>1, <4>1
      <4> QED
        BY <3>1, <3>3, <4>2
    <3> QED
      BY <3>2, <3>3
  <2> QED
    BY <1>1, <2>1, <2>2 DEF RowFits, MarksFit
<1>6. ASSUME HadTime(s) PROVE HadTime(s)'
  <2> HIDE DEF i, j, start
  <2>1. \/ now - start - i > Duration + Tolerance
        \/ now > EndTime + i + Tolerance
        \/ now > EndTime + Grace
    BY <1>6 DEF HadTime, Worked, start, i
  <2>2. \/ now' - start - j > Duration + Tolerance
        \/ now' > EndTime + j + Tolerance
        \/ now' > EndTime + Grace
    BY <1>1, <1>2, <1>3, <2>1, ClockAssumption DEF ClockAssumption
  <2> QED
    BY <1>1, <2>2 DEF HadTime, Worked, start, j
<1>7. rows[s].status = "unused" => idle'[s] = 0
  BY <1>1 DEF SessionFits, Open
<1> QED
  BY <1>1, <1>4, <1>5, <1>6, <1>7 DEF SessionFits, Open, Unmixed

LEMMA SessionLoad ==
    ASSUME TypeInv, NEW g \in Desks, NEW k \in {"pause", "resume"}, Load(g, k),
           NEW s \in Sessions, SessionFits(s)
    PROVE  SessionFits(s)'
<1>1. /\ at' = [at EXCEPT ![g] = "loaded"] /\ kind' = [kind EXCEPT ![g] = k]
      /\ loaded' = [loaded EXCEPT ![g] = exam] /\ (k = "resume" => exam.paused)
      /\ UNCHANGED <<now, exam, rows, found, mine, closing, idle, mixed>>
  BY DEF Load
<1>2. /\ at'[g] = "loaded" /\ kind'[g] = k /\ loaded'[g] = exam
      /\ \A h \in Desks : h # g => at'[h] = at[h] /\ kind'[h] = kind[h] /\ loaded'[h] = loaded[h]
  BY <1>1 DEF TypeInv, TypeOK
<1>3. ASSUME Unmixed(s) PROVE RowFits(s)'
  <2>1. RowFits(s)
    BY <1>3 DEF SessionFits
  <2>2. ASSUME NEW h \in Desks, at'[h] # "idle", kind'[h] = "resume", rows[s].paused
        PROVE  rows[s].since >= loaded'[h].since
    <3>1. CASE h = g
      BY <1>1, <1>2, <2>1, <2>2, <3>1 DEF RowFits
    <3>2. CASE h # g
      BY <1>2, <2>1, <2>2, <3>2 DEF RowFits
    <3> QED
      BY <3>1, <3>2
  <2> QED
    BY <1>1, <2>1, <2>2 DEF RowFits, MarksFit
<1>4. ASSUME Unmixed(s), NEW h \in Desks, at'[h] = "found", s \in found[h]
      PROVE  EntityFits(h, s)'
  <2>1. h # g
    BY <1>2, <1>4
  <2>2. EntityFits(h, s)
    BY <1>2, <1>4, <2>1 DEF SessionFits
  <2> QED
    BY <1>1, <1>2, <2>1, <2>2 DEF EntityFits, MarksFit
<1> QED
  BY <1>1, <1>3, <1>4 DEF SessionFits, Open, Unmixed, HadTime, Worked

LEMMA SessionSelect ==
    ASSUME TypeInv, NEW g \in Desks, NEW k \in {"adminPause", "adminResume"},
           Find(g) \/ AdminFind(g, k), NEW s \in Sessions, SessionFits(s)
    PROVE  SessionFits(s)'
<1>1. PICK set \in SUBSET Sessions :
         /\ Select(g, set)
         /\ s \in set => Open(s) \/ rows[s].paused
         /\ kind'[g] = "adminPause" => set \intersect InPause = {}
         /\ kind'[g] \in {"resume", "adminResume"} => set \subseteq InPause
         /\ kind'[g] = "resume" => kind[g] = "resume" /\ at[g] # "idle"
         /\ \A h \in Desks : h # g => kind'[h] = kind[h]
  <2>1. CASE Find(g)
    <3> DEFINE set == IF kind[g] = "pause" THEN {t \in Sessions : Open(t)} ELSE InPause
    <3>1. Select(g, set) /\ kind' = kind /\ at[g] = "loaded"
      BY <2>1 DEF Find
    <3>2. set \subseteq Sessions
      BY DEF InPause
    <3>3. kind[g] \in {"pause", "resume"}
      BY <3>1 DEF TypeInv, ExamFits
    <3> QED
      BY <3>1, <3>2, <3>3 DEF InPause
  <2>2. CASE AdminFind(g, k)
    <3> DEFINE set == IF k = "adminPause" THEN {t \in Sessions : Open(t)} \ InPause ELSE InPause
    <3>1. Select(g, set) /\ kind' = [kind EXCEPT ![g] = k]
      BY <2>2 DEF AdminFind
    <3>2. set \subseteq Sessions
      BY DEF InPause
    <3>3. kind'[g] = k /\ \A h \in Desks : h # g => kind'[h] = kind[h]
      BY <3>1 DEF TypeInv, TypeOK
    <3> QED
      BY <3>1, <3>2, <3>3 DEF InPause
  <2> QED
    BY <2>1, <2>2
<1>2. /\ at' = [at EXCEPT ![g] = "found"] /\ found' = [found EXCEPT ![g] = set]
      /\ mine' = [mine EXCEPT ![g] = [t \in Sessions |-> IF t \in set THEN rows[t] ELSE Unused]]
      /\ UNCHANGED <<now, exam, rows, loaded, closing, idle, mixed>>
  BY <1>1 DEF Select
<1>3. /\ at'[g] = "found" /\ found'[g] = set /\ (s \in set => mine'[g][s] = rows[s])
      /\ \A h \in Desks : h # g => at'[h] = at[h] /\ found'[h] = found[h] /\ mine'[h] = mine[h]
  BY <1>2 DEF TypeInv, TypeOK
<1>4. ASSUME Unmixed(s) PROVE RowFits(s)'
  <2>1. RowFits(s)
    BY <1>4 DEF SessionFits
  <2>2. \A h \in Desks : at'[h] # "idle" /\ kind'[h] = "resume" => at[h] # "idle" /\ kind[h] = "resume"
    BY <1>1, <1>3
  <2> QED
    BY <1>2, <2>1, <2>2 DEF RowFits, MarksFit
<1>5. ASSUME Unmixed(s), NEW h \in Desks, at'[h] = "found", s \in found'[h]
      PROVE  EntityFits(h, s)'
  <2>1. CASE h # g
    <3>1. EntityFits(h, s)
      BY <1>3, <1>5, <2>1 DEF SessionFits
    <3> QED
      BY <1>1, <1>2, <1>3, <2>1, <3>1 DEF EntityFits, MarksFit
  <2>2. CASE h = g
    <3>1. s \in set /\ mine'[h][s] = rows[s] /\ RowFits(s)
      BY <1>3, <1>5, <2>2 DEF SessionFits
    <3>2. /\ kind'[h] = "adminPause" => ~rows[s].paused
          /\ kind'[h] \in {"resume", "adminResume"} => rows[s].paused
      BY <1>1, <2>2, <3>1 DEF InPause
    <3>3. kind'[h] = "resume" => rows[s].since >= loaded'[h].since
      BY <1>1, <1>2, <2>2, <3>1, <3>2 DEF RowFits
    <3> QED
      BY <1>2, <3>1, <3>2, <3>3 DEF EntityFits, RowFits, MarksFit
  <2> QED
    BY <2>1, <2>2
<1>6. rows[s].status = "unused" => \A h \in Desks : s \notin found'[h]
  <2>1. rows[s].status = "unused" => s \notin set
    BY <1>1 DEF SessionFits, Open
  <2> QED
    BY <1>3, <2>1 DEF SessionFits
<1> QED
  BY <1>2, <1>4, <1>5, <1>6 DEF SessionFits, Open, Unmixed, HadTime, Worked

LEMMA SessionScheduler ==
    ASSUME TypeInv, Scan \/ Close, NEW s \in Sessions, SessionFits(s)
    PROVE  SessionFits(s)'
<1>1. CASE Scan
  <2>1. /\ UNCHANGED <<now, exam, rows, at, kind, loaded, found, mine, idle, mixed>>
        /\ closing' = {t \in Sessions : Expired(t)}
    BY <1>1 DEF Scan, request
  <2>2. ASSUME Unmixed(s), Expired(s) PROVE HadTime(s)
    <3>1. RowFits(s)
      BY <2>2 DEF SessionFits
    <3>2. CASE StalePause(s)
      BY <3>2 DEF StalePause, HadTime
    <3>3. CASE ~StalePause(s)
      <4>1. ~ShownPaused(s)
        BY <2>2, <3>3 DEF Expired
      <4> DEFINE credit == Credit(s)
                 start == rows[s].start
                 i == idle[s]
      <4>2. rows[s].since = NoTime /\ exam.since = NoTime
        BY <3>1, <4>1, Facts DEF ShownPaused, RowFits, MarksFit
      <4>3. credit = rows[s].total
        <5>1. Since(rows[s]) = 0 /\ Since(exam) = 0
          BY <4>2 DEF Since
        <5>2. rows[s].total \in Nat
          BY Facts
        <5> QED
          BY <3>3, <5>1, <5>2 DEF Credit, AtLeast
      <4>4. credit \in Nat /\ i \in Nat /\ now \in Nat /\ start \in Nat
        BY <4>3, Facts
      <4>5. credit >= i
        BY <3>1, <4>1, <4>3, <4>4 DEF RowFits, ShownPaused
      <4>6. \/ AtLeast(0, now - start - credit) > Duration + Tolerance
            \/ now > EndTime + credit + Tolerance
        BY <2>2, <3>3 DEF Expired
      <4> HIDE DEF credit, start, i
      <4>7. \/ now - start - i > Duration + Tolerance
            \/ now > EndTime + i + Tolerance
        BY <4>4, <4>5, <4>6, ClockAssumption DEF AtLeast, ClockAssumption
      <4> QED
        BY <4>7 DEF HadTime, Worked, start, i
    <3> QED
      BY <3>2, <3>3
  <2>3. rows[s].status = "unused" => s \notin closing'
    BY <2>1 DEF Expired, Open
  <2> QED
    BY <2>1, <2>2, <2>3 DEF SessionFits, Open, Unmixed, RowFits, EntityFits, HadTime, Worked, MarksFit
<1>2. CASE Close
  <2>1. /\ UNCHANGED <<now, exam, at, kind, loaded, found, mine, idle, mixed>>
        /\ closing' = {}
        /\ rows'[s] = IF s \in closing /\ Open(s) THEN [rows[s] EXCEPT !.status = "closed"] ELSE rows[s]
    BY <1>2 DEF Close, request
  <2>2. CASE s \in closing /\ Open(s)
    <3>1. rows[s] \in Rows
      BY DEF TypeInv, TypeOK
    <3>2. rows'[s].status = "closed"
      BY <2>1, <2>2, <3>1 DEF Rows
    <3> QED
      BY <3>2, SessionClosed
  <2>3. CASE ~(s \in closing /\ Open(s))
    <3>1. rows'[s] = rows[s]
      BY <2>1, <2>3
    <3> QED
      BY <2>1, <3>1 DEF SessionFits, Open, Unmixed, RowFits, EntityFits, HadTime, Worked, MarksFit
  <2> QED
    BY <2>2, <2>3
<1> QED
  BY <1>1, <1>2

\* What a commit leaves of a session in which pauses do not overlap: the row as
\* it was, a pause that begins now, or a pause that is credited.
LEMMA CommitUnmixed ==
    ASSUME TypeInv, NEW g \in Desks, CommitOf(g), NEW s \in Sessions, SessionFits(s),
           Open(s), s \notin mixed'
    PROVE  /\ rows'[s] # rows[s] =>
                 /\ rows'[s].total >= idle[s]
                 /\ rows'[s].since = IF rows'[s].paused THEN now ELSE NoTime
           /\ exam'.paused => rows'[s].paused /\ rows'[s].since >= exam'.since
<1>1. s \notin mixed /\ RowFits(s)
  BY CommitFrame DEF SessionFits, Unmixed
<1>2. /\ (~Resume(g) => s \notin LeftOut')
      /\ (Pause(g) => s \notin InPause)
  BY CommitFrame
<1>3. exam'.paused /\ ~Resume(g) => rows'[s].paused
  <2>1. Open(s)'
    BY CommitRows DEF Open
  <2> QED
    BY <1>2, <2>1 DEF LeftOut
<1>4. s \in found[g] => EntityFits(g, s)
  BY <1>1, CommitFrame DEF SessionFits, Unmixed
<1>5. /\ now \in Nat /\ NoTime \notin Nat /\ now >= now
      /\ rows[s].paused \in BOOLEAN /\ rows[s].since \in Nat \union {NoTime}
      /\ rows[s].total \in Nat /\ idle[s] \in Nat
      /\ mine[g][s].paused \in BOOLEAN /\ mine[g][s].since \in Nat \union {NoTime}
      /\ mine[g][s].total \in Nat /\ Past(mine[g][s]) /\ Past(exam)
      /\ loaded[g].since \in Nat \union {NoTime} /\ Past(loaded[g])
      /\ exam.since \in Nat \union {NoTime} /\ MarksFit(exam)
  BY Facts, EntityFacts
<1>6. CASE s \notin found[g]
  <2>1. rows'[s] = rows[s]
    BY <1>6, CommitRows
  <2>2. ~Pause(g) \/ ~exam'.paused
    BY <1>2, <1>3, <2>1 DEF InPause, Pause, Resume, Commits
  <2>3. Resume(g) => ~exam'.paused
    BY CommitExam, ConstantRows
  <2>4. ~Pause(g) /\ ~Resume(g) => exam' = exam
    BY CommitExam DEF CommitOf
  <2>5. exam.paused => rows[s].paused /\ rows[s].since >= exam.since
    BY <1>1 DEF RowFits
  <2> QED
    BY <2>1, <2>2, <2>3, <2>4, <2>5
<1>7. CASE s \in found[g] /\ Pause(g)
  <2>1. PauseLike(g, s) /\ exam' = [paused |-> TRUE, since |-> now]
    BY <1>7, CommitRows, CommitExam
  <2>2. ~rows[s].paused /\ rows[s].since = NoTime
    BY <1>1, <1>2, <1>5, <1>7 DEF InPause, RowFits, MarksFit
  <2>3. rows'[s].paused
    BY <1>3, <1>7, <2>1 DEF Pause, Resume, Commits
  <2>4. ~mine[g][s].paused
    BY <1>5, <2>1, <2>2, <2>3 DEF PauseLike
  <2>5. mine[g][s].since = NoTime
    BY <1>4, <1>5, <1>7, <2>4 DEF EntityFits, MarksFit
  <2>6. rows'[s].since = now /\ rows'[s].total = rows[s].total
    BY <1>5, <2>1, <2>5 DEF PauseLike
  <2>7. rows[s].total >= idle[s]
    BY <1>1, <1>5, <2>2 DEF RowFits
  <2> QED
    BY <1>5, <2>1, <2>3, <2>6, <2>7
<1>8. CASE s \in found[g] /\ AdminPause(g)
  <2>1. PauseLike(g, s) /\ exam' = exam /\ kind[g] = "adminPause"
    BY <1>8, CommitRows, CommitExam DEF AdminPause, Commits
  <2>2. ~mine[g][s].paused /\ mine[g][s].since = NoTime
    BY <1>4, <1>5, <1>8, <2>1 DEF EntityFits, MarksFit
  <2>3. /\ rows'[s].since = now /\ rows'[s].paused /\ rows'[s].total = rows[s].total
    BY <1>5, <2>1, <2>2 DEF PauseLike
  <2>4. rows[s].paused => rows[s].since = now
    BY <1>4, <1>8, <2>2 DEF EntityFits
  <2>5. rows[s].total >= idle[s]
    BY <1>1, <1>5, <2>4 DEF RowFits
  <2>6. exam.paused => now >= exam.since
    BY <1>5 DEF Past, MarksFit
  <2> QED
    BY <2>1, <2>3, <2>5, <2>6
<1>9. ASSUME s \in found[g], NEW credit \in Nat, ResumeLike(g, s, credit),
             mine[g][s].paused, mine[g][s].since \in Nat,
             mine[g][s].total + credit >= idle[s],
             credit = 0 => mine[g][s].since = now
      PROVE  /\ rows'[s].total >= idle[s] /\ ~rows'[s].paused /\ rows'[s].since = NoTime
  <2>1. rows'[s].paused = FALSE /\ rows'[s].since = NoTime
    BY <1>5, <1>9 DEF ResumeLike
  <2>2. CASE credit # 0
    BY <1>9, <2>1, <2>2 DEF ResumeLike
  <2>3. CASE credit = 0
    <3>1. rows'[s].total = rows[s].total
      BY <1>9, <2>3 DEF ResumeLike
    <3>2. rows[s].paused => rows[s].since = now
      BY <1>4, <1>9, <2>3 DEF EntityFits
    <3>3. rows[s].total >= idle[s]
      BY <1>1, <1>5, <3>2 DEF RowFits
    <3> QED
      BY <2>1, <3>1, <3>3
  <2> QED
    BY <2>1, <2>2, <2>3
<1>10. CASE s \in found[g] /\ Resume(g)
  <2> DEFINE credit == Since(loaded[g])
             since == mine[g][s].since
             total == mine[g][s].total
             begun == loaded[g].since
             i == idle[s]
  <2>1. ResumeLike(g, s, credit) /\ exam' = NoPause /\ kind[g] = "resume"
    BY <1>10, CommitRows, CommitExam DEF Resume, Commits
  <2>2. begun # NoTime
    BY <1>10, CommitFrame DEF Resume, Commits, TypeInv, ExamFits
  <2>3. begun \in Nat /\ begun <= now /\ credit = now - begun
    BY <1>5, <2>2 DEF Past, Since
  <2>4. mine[g][s].paused /\ since \in Nat /\ since >= begun /\ since <= now
    BY <1>4, <1>5, <1>10, <2>1 DEF EntityFits, MarksFit, Past
  <2>5. total + (now - since) >= i
    BY <1>4, <1>10, <2>4 DEF EntityFits
  <2> HIDE DEF credit, since, total, begun, i
  <2>6. total \in Nat /\ i \in Nat
    BY <1>5 DEF total, i
  <2>7. credit \in Nat /\ total + credit >= i /\ (credit = 0 => since = now)
    BY <1>5, <2>3, <2>4, <2>5, <2>6
  <2>8. /\ rows'[s].total >= idle[s] /\ ~rows'[s].paused /\ rows'[s].since = NoTime
    BY <1>9, <1>10, <2>1, <2>4, <2>7 DEF since, total, i
  <2> QED
    BY <2>1, <2>8, ConstantRows
<1>11. CASE s \in found[g] /\ AdminResume(g)
  <2> DEFINE credit == Since(mine[g][s])
             since == mine[g][s].since
             total == mine[g][s].total
             i == idle[s]
  <2>1. ResumeLike(g, s, credit) /\ exam' = exam /\ kind[g] = "adminResume"
    BY <1>11, CommitRows, CommitExam DEF AdminResume, Commits
  <2>2. mine[g][s].paused /\ since \in Nat /\ since <= now
    BY <1>4, <1>5, <1>11, <2>1 DEF EntityFits, MarksFit, Past
  <2>3. credit = now - since
    BY <1>5, <2>2 DEF Since
  <2>4. total + (now - since) >= i
    BY <1>4, <1>11, <2>2 DEF EntityFits
  <2> HIDE DEF credit, since, total, i
  <2>5. total \in Nat /\ i \in Nat
    BY <1>5 DEF total, i
  <2>6. credit \in Nat /\ total + credit >= i /\ (credit = 0 => since = now)
    BY <1>5, <2>2, <2>3, <2>4, <2>5
  <2>7. /\ rows'[s].total >= idle[s] /\ ~rows'[s].paused /\ rows'[s].since = NoTime
    BY <1>9, <1>11, <2>1, <2>2, <2>6 DEF since, total, i
  <2>8. ~exam'.paused
    BY <1>3, <1>11, <2>7 DEF AdminResume, Resume, Commits
  <2> QED
    BY <2>7, <2>8
<1> QED
  BY <1>6, <1>7, <1>8, <1>10, <1>11 DEF CommitOf

LEMMA SessionCommit ==
    ASSUME TypeInv, TypeInv', NEW g \in Desks, CommitOf(g), NEW s \in Sessions, SessionFits(s)
    PROVE  SessionFits(s)'
<1>1. /\ at' = [at EXCEPT ![g] = "idle"]
      /\ found' = [found EXCEPT ![g] = {}] /\ mine' = [mine EXCEPT ![g] = Nothing]
      /\ kind' = [kind EXCEPT ![g] = "pause"] /\ loaded' = [loaded EXCEPT ![g] = NoPause]
      /\ UNCHANGED <<now, closing, idle>> /\ mixed \subseteq mixed'
  BY CommitFrame
<1>2. /\ at'[g] = "idle" /\ found'[g] = {}
      /\ \A h \in Desks : h # g => /\ at'[h] = at[h] /\ found'[h] = found[h] /\ mine'[h] = mine[h]
                                   /\ kind'[h] = kind[h] /\ loaded'[h] = loaded[h]
  BY <1>1 DEF TypeInv, TypeOK
<1>3. /\ rows'[s].status = rows[s].status /\ rows'[s].start = rows[s].start
      /\ s \notin found[g] => rows'[s] = rows[s]
  BY CommitRows
<1>4. ASSUME Unmixed(s)' PROVE Unmixed(s) /\ RowFits(s) /\ Open(s) /\ s \notin mixed'
  BY <1>1, <1>3, <1>4 DEF Unmixed, Open, SessionFits
<1>5. ASSUME Unmixed(s)'
      PROVE  /\ rows'[s] # rows[s] =>
                   /\ rows'[s].total >= idle[s]
                   /\ rows'[s].since = IF rows'[s].paused THEN now ELSE NoTime
             /\ exam'.paused => rows'[s].paused /\ rows'[s].since >= exam'.since
  BY <1>4, <1>5, CommitUnmixed
<1>6. /\ now \in Nat /\ NoTime \notin Nat
      /\ rows'[s].paused \in BOOLEAN
      /\ rows'[s].total \in Nat /\ idle[s] \in Nat
  <2>1. (rows[s].paused \in BOOLEAN /\ rows[s].total \in Nat)'
    <3>1. (rows[s] \in Rows)'
      BY DEF TypeInv, TypeOK
    <3> QED
      BY <3>1 DEF Rows
  <2> QED
    BY <2>1, Facts
<1>7. ASSUME Unmixed(s)' PROVE RowFits(s)'
  <2>1. CASE rows'[s] = rows[s]
    BY <1>1, <1>2, <1>4, <1>5, <1>7, <2>1 DEF RowFits, MarksFit
  <2>2. CASE rows'[s] # rows[s]
    <3>1. /\ rows'[s].total >= idle[s]
          /\ rows'[s].since = IF rows'[s].paused THEN now ELSE NoTime
      BY <1>5, <1>7, <2>2
    <3>2. MarksFit(rows'[s])
      BY <1>6, <3>1 DEF MarksFit
    <3>3. rows'[s].total + (IF rows'[s].paused THEN now - rows'[s].since ELSE 0) >= idle[s]
      BY <1>6, <3>1
    <3>4. ASSUME NEW h \in Desks, at'[h] # "idle", kind'[h] = "resume", rows'[s].paused
          PROVE  rows'[s].since >= loaded'[h].since
      <4>1. h # g /\ at[h] # "idle" /\ kind[h] = "resume" /\ loaded'[h] = loaded[h]
        BY <1>2, <3>4
      <4>2. loaded[h].since # NoTime /\ Past(loaded[h]) /\ loaded[h].since \in Nat \union {NoTime}
        BY <4>1, EntityFacts DEF TypeInv, ExamFits
      <4> QED
        BY <1>6, <3>1, <3>4, <4>1, <4>2 DEF Past
    <3> QED
      BY <1>1, <1>5, <1>7, <3>2, <3>3, <3>4 DEF RowFits, MarksFit
  <2> QED
    BY <2>1, <2>2
<1>8. ASSUME Unmixed(s)', NEW h \in Desks, at'[h] = "found", s \in found'[h]
      PROVE  EntityFits(h, s)'
  <2>1. h # g
    BY <1>2, <1>8
  <2>2. EntityFits(h, s)
    BY <1>2, <1>4, <1>8, <2>1 DEF SessionFits
  <2>3. rows'[s].paused => rows'[s].since = now \/ (mine[h][s].paused /\ rows'[s].since = mine[h][s].since)
    BY <1>5, <1>8, <2>2 DEF EntityFits
  <2>4. /\ mine'[h][s] = mine[h][s] /\ kind'[h] = kind[h] /\ loaded'[h] = loaded[h]
        /\ now' = now /\ idle'[s] = idle[s]
    BY <1>1, <1>2, <2>1
  <2> QED
    BY <2>2, <2>3, <2>4 DEF EntityFits, MarksFit
<1>9. ASSUME Unmixed(s)', s \in closing' PROVE HadTime(s)'
  BY <1>1, <1>3, <1>4, <1>9 DEF SessionFits, HadTime, Worked
<1>10. rows[s].status = "unused" => rows'[s] = rows[s] /\ \A h \in Desks : s \notin found'[h]
  BY <1>2, <1>3 DEF SessionFits
<1> QED
  BY <1>1, <1>3, <1>7, <1>8, <1>9, <1>10 DEF SessionFits, Open

LEMMA ClockStep == ClockInv /\ [Next]_vars => ClockInv'
<1> SUFFICES ASSUME ClockInv, [Next]_vars PROVE ClockInv'
  OBVIOUS
<1>1. TypeInv /\ TypeInv'
  BY TypesStep DEF ClockInv, TypeInv
<1>2. ASSUME NEW s \in Sessions PROVE SessionFits(s)'
  <2>1. SessionFits(s)
    BY DEF ClockInv
  <2>2. CASE UNCHANGED vars
    BY <2>1, <2>2 DEF vars, request, SessionFits, Open, Unmixed, RowFits, EntityFits, HadTime,
                      Worked, MarksFit
  <2>3. CASE Tick
    BY <1>1, <2>1, <2>3, SessionTick
  <2>4. CASE \E t \in Sessions : Start(t) \/ Submit(t)
    BY <1>1, <2>1, <2>4, SessionStart, SessionSubmit
  <2>5. ASSUME NEW h \in Desks, StaffStep(h) PROVE SessionFits(s)'
    <3>1. CASE \E k \in {"pause", "resume"} : Load(h, k)
      BY <1>1, <2>1, <3>1, SessionLoad
    <3>2. CASE Find(h) \/ \E k \in {"adminPause", "adminResume"} : AdminFind(h, k)
      BY <1>1, <2>1, <3>2, SessionSelect
    <3>3. CASE CommitOf(h)
      BY <1>1, <2>1, <3>3, SessionCommit
    <3> QED
      BY <2>5, <3>1, <3>2, <3>3 DEF StaffStep, CommitOf
  <2>6. CASE Scan \/ Close
    BY <1>1, <2>1, <2>6, SessionScheduler
  <2> QED
    BY <2>2, <2>3, <2>4, <2>5, <2>6 DEF Next
<1> QED
  BY <1>1, <1>2 DEF ClockInv, TypeInv

LEMMA ClockStarts == Init => ClockInv
<1> SUFFICES ASSUME Init PROVE ClockInv
  OBVIOUS
<1>1. TypeInv
  BY InitFits
<1>2. ASSUME NEW s \in Sessions PROVE SessionFits(s)
  BY ConstantRows DEF Init, SessionFits, Unused, Open, Unmixed
<1> QED
  BY <1>1, <1>2 DEF ClockInv, TypeInv

LEMMA DueTime ==
    ASSUME ClockInv PROVE TimeShownIsDue
<1> SUFFICES ASSUME NEW s \in Sessions, Unmixed(s)
             PROVE  Remaining(s) >= Duration - Worked(s)
  BY DEF TimeShownIsDue
<1>1. TypeInv
  BY DEF ClockInv, TypeInv
<1>2. RowFits(s) /\ idle[s] <= now - rows[s].start
  BY DEF ClockInv, SessionFits, Unmixed
<1> DEFINE p == IF rows[s].paused THEN Since(rows[s]) ELSE 0
           q == IF exam.paused THEN Since(exam) ELSE 0
           total == rows[s].total
           start == rows[s].start
           i == idle[s]
<1>3. now \in Nat /\ total \in Nat /\ start \in Nat /\ i \in Nat
  BY <1>1, Facts
<1>4. p \in Nat /\ q \in Nat
  <2>1. /\ rows[s].since \in Times \union {NoTime} /\ exam.since \in Times \union {NoTime}
        /\ now \in Times /\ Past(rows[s]) /\ Past(exam)
    BY <1>1 DEF TypeInv, TypeOK, PastTimes, Rows, Marks
  <2>2. Since(rows[s]) \in Nat /\ Since(exam) \in Nat
    BY <2>1, SinceIsNat
  <2> QED
    BY <2>2
<1>5. p = IF rows[s].paused THEN now - rows[s].since ELSE 0
  BY <1>2 DEF Since, RowFits, MarksFit
<1>6. total + p >= i
  BY <1>2, <1>5 DEF RowFits
<1>7. i <= now - start
  BY <1>2
<1>8. /\ TotalPaused(s) = total + AtLeast(p, q)
      /\ Remaining(s) = AtLeast(0, Duration - AtLeast(0, now - start - TotalPaused(s)))
      /\ Worked(s) = now - start - i
  BY DEF TotalPaused, Remaining, Worked
<1> DEFINE paused == TotalPaused(s)
<1>9. paused \in Nat /\ paused >= i
  <2> HIDE DEF p, q, total, i
  <2> QED
    BY <1>3, <1>4, <1>6, <1>8 DEF AtLeast
<1> HIDE DEF p, q, total, start, i, paused
<1>10. AtLeast(0, Duration - AtLeast(0, now - start - paused)) >= Duration - (now - start - i)
  BY <1>3, <1>7, <1>9, ClockAssumption DEF AtLeast, ClockAssumption
<1> QED
  BY <1>8, <1>10 DEF paused, start, i

\* For any number of sessions and clients of staff, however their requests
\* overlap: the time in which a student was shown a pause is never taken from the
\* time shown as remaining, if no two pauses of the session have overlapped
\* (resume_exam_globally and resume_all_sessions credit, resolve_timer_context
\* counts the pause under way).
THEOREM PausesAreCredited == Spec => []TimeShownIsDue
<1>1. Init => ClockInv
  BY ClockStarts
<1>2. ClockInv /\ [Next]_vars => ClockInv'
  BY ClockStep
<1>3. ClockInv => TimeShownIsDue
  BY DueTime
<1> QED
  BY <1>1, <1>2, <1>3, PTL DEF Spec

\* And the scheduler closes none of these sessions before its time, whatever
\* staff does between the scheduler's two reads.
THEOREM ClosedHadTheirTime == Spec => NotClosedEarly
<1>1. Init => ClockInv
  BY ClockStarts
<1>2. ClockInv /\ [Next]_vars => ClockInv'
  BY ClockStep
<1>3. ClockInv => [\A s \in closing : Unmixed(s) /\ ~Open(s)' => HadTime(s)]_vars
  BY DEF ClockInv, SessionFits, TypeOK
<1> QED
  BY <1>1, <1>2, <1>3, PTL DEF Spec, NotClosedEarly

\* What SessionsEnd asks of the states.  The exam is over for long, also counting
\* what the session was credited.
OverForLong(s) == now > EndTime + Grace + Tolerance + rows[s].total

\* Then a scan of the scheduler finds an open session expired, whether it is shown
\* as paused or not and whoever has paused it: only a stranded one is not closed,
\* and stranded is none in which no two pauses have overlapped.
LateIsExpired(s) ==
    Open(s) /\ OverForLong(s) /\ (s \notin mixed \/ ~Stranded(s)) => Expired(s)

THEOREM LateSessionsExpire == Spec => [](\A s \in Sessions : LateIsExpired(s))
<1>1. Init => ClockInv
  BY ClockStarts
<1>2. ClockInv /\ [Next]_vars => ClockInv'
  BY ClockStep
<1>3. ASSUME ClockInv, NEW s \in Sessions,
             Open(s), OverForLong(s), s \notin mixed \/ ~Stranded(s)
      PROVE  Expired(s)
  <2>1. rows[s].total \in Nat /\ now \in Nat
    BY <1>3, ClockAssumption DEF ClockInv, TypeOK, Times, Rows
  <2>2. CASE ShownPaused(s)
    BY <1>3, <2>1, <2>2, ClockAssumption DEF OverForLong, Expired, StalePause
  <2>3. CASE ~ShownPaused(s)
    <3>1. ~rows[s].paused /\ ~exam.paused
      BY <2>3 DEF ShownPaused
    <3>2. rows[s].since = NoTime
      BY <1>3, <3>1 DEF ClockInv, SessionFits, Unmixed, RowFits, MarksFit, Stranded
    <3>3. exam.since = NoTime
      BY <1>3, <3>1 DEF ClockInv, ExamFits, MarksFit
    <3>4. Credit(s) = rows[s].total
      BY <2>1, <2>3, <3>2, <3>3 DEF Credit, StalePause, Since, AtLeast
    <3>5. now > EndTime + Credit(s) + Tolerance
      BY <1>3, <2>1, <3>4, ClockAssumption DEF OverForLong
    <3> QED
      BY <1>3, <2>3, <3>5 DEF Expired
  <2> QED BY <2>2, <2>3
<1>4. ClockInv => \A s \in Sessions : LateIsExpired(s)
  BY <1>3 DEF LateIsExpired
<1> QED
  BY <1>1, <1>2, <1>4, PTL DEF Spec
=============================================================================
