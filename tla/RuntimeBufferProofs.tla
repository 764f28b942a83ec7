------------------------ MODULE RuntimeBufferProofs ------------------------
(***************************************************************************)
(* Proofs about RuntimeBuffer, for any number of writers, submits, drain   *)
(* loops and questions.  IInv is inductive: TypeOK by itself, the other    *)
(* conjuncts because rows and the buffer only ever gain answers            *)
(* (StepKeeps) and a mark of the dirty set goes only once its question has *)
(* a row (StoredBeforeCleared).                                            *)
(***************************************************************************)
EXTENDS RuntimeBuffer, TLAPS

LEMMA InitTypeOK == Init => TypeOK
<1> SUFFICES ASSUME Init PROVE TypeOK
  OBVIOUS
<1>1. NoPayload \in Sheets
  BY DEF NoPayload, Sheets
<1>2. pc \in [Processes -> Stages]
  BY DEF Init, Stages
<1>3. taken \in [Flushers -> Sheets] /\ claimed \in [Drainers -> Nat]
  BY <1>1 DEF Init
<1>4. known \in [Submits -> SUBSET Questions] /\ accepted \in [Questions -> SUBSET Values]
  BY DEF Init
<1> QED
  BY <1>1, <1>2, <1>3, <1>4 DEF Init, TypeOK

\* Types are kept by every step, first those of the writers.
LEMMA WriterTypeOK ==
    ASSUME TypeOK, NEW w \in Writers, WriterStep(w)
    PROVE  TypeOK'
<1> USE DEF TypeOK, Go, database, redis, lists, locks, local, Stages, FlushStages, Processes, Flushers, Sheets
<1>1. CASE SingleCheck(w) BY <1>1 DEF SingleCheck
<1>2. CASE BatchCheck(w) BY <1>2 DEF BatchCheck
<1>3. CASE WriterRefused(w) BY <1>3 DEF WriterRefused
<1>4. ASSUME NEW q \in Questions, NEW v \in Values, BufferAnswer(w, q, v)
      PROVE  TypeOK'
  BY <1>4 DEF BufferAnswer
<1>5. CASE MarkQueued(w) BY <1>5 DEF MarkQueued
<1>6. CASE PushPending(w) BY <1>6 DEF PushPending
<1>7. CASE ReplySaved(w) BY <1>7 DEF ReplySaved, Unlocked
<1> QED BY <1>1, <1>2, <1>3, <1>4, <1>5, <1>6, <1>7 DEF WriterStep

\* ... then those of a flush ...
LEMMA FlushTypeOK ==
    ASSUME TypeOK, NEW f \in Flushers, FlushStep(f)
    PROVE  TypeOK'
<1> USE DEF TypeOK, Go, database, redis, lists, locks, local, Stages, FlushStages, Processes, Flushers, Sheets
<1>1. CASE FlushRead(f) BY <1>1 DEF FlushRead
<1>2. CASE FlushStore(f) BY <1>2 DEF FlushStore, Over
<1>3. CASE FlushClear(f) BY <1>3 DEF FlushClear, Forget, NoPayload
<1>4. CASE FlushCount(f) BY <1>4 DEF FlushCount
<1>5. CASE AckLists(f) BY <1>5 DEF AckLists
<1>6. CASE AckMark(f) BY <1>6 DEF AckMark
<1>7. CASE RestoreProcessing(f) BY <1>7 DEF RestoreProcessing
<1>8. CASE RestorePending(f) BY <1>8 DEF RestorePending
<1>9. CASE FlushFails(f) BY <1>9 DEF FlushFails, Forget, NoPayload
<1> QED BY <1>1, <1>2, <1>3, <1>4, <1>5, <1>6, <1>7, <1>8, <1>9 DEF FlushStep

\* ... of the drain loops ...
LEMMA DrainTypeOK ==
    ASSUME TypeOK, NEW d \in Drainers, DrainStep(d)
    PROVE  TypeOK'
<1> USE DEF TypeOK, Go, database, redis, lists, locks, local, Stages, FlushStages, Processes, Flushers
<1>1. CASE DrainStart(d) BY <1>1 DEF DrainStart
<1>2. CASE DrainClaim(d) BY <1>2 DEF DrainClaim
<1>3. CASE DrainClaimed(d) BY <1>3 DEF DrainClaimed
<1>4. CASE DrainNext(d) BY <1>4 DEF DrainNext
<1>5. CASE DrainEnd(d) BY <1>5 DEF DrainEnd
<1>6. CASE DrainRelease(d) BY <1>6 DEF DrainRelease
<1> QED BY <1>1, <1>2, <1>3, <1>4, <1>5, <1>6 DEF DrainStep

\* ... and all the others.
LEMMA StepTypeOK == TypeOK /\ [Next]_vars => TypeOK'
<1> SUFFICES ASSUME TypeOK, [Next]_vars PROVE TypeOK'
  OBVIOUS
<1>1. ASSUME NEW s \in Submits, SubmitStep(s) PROVE TypeOK'
  <2> USE DEF TypeOK, Go, database, redis, lists, locks, local, Stages, FlushStages, Processes, Flushers, Sheets
  <2>1. CASE SubmitProbe(s) BY <2>1 DEF SubmitProbe, Answered
  <2>2. CASE SubmitRefused(s) BY <2>2 DEF SubmitRefused
  <2>3. CASE SubmitGrade(s) BY <2>3 DEF SubmitGrade
  <2> QED BY <1>1, <2>1, <2>2, <2>3 DEF SubmitStep
<1>2. ASSUME NEW p \in Processes, Crash(p) PROVE TypeOK'
  BY <1>2 DEF TypeOK, Crash, Unlocked, NoPayload, database, redis, lists, locks, local, Stages, FlushStages, Processes, Flushers, Sheets
<1>3. CASE FlushLockExpires
  BY <1>3 DEF TypeOK, FlushLockExpires, database, redis, lists, locks, local
<1>4. CASE Kick
  BY <1>4 DEF TypeOK, Kick, database, redis, lists, locks, local
<1>5. CASE UNCHANGED vars
  BY <1>5 DEF TypeOK, vars, database, redis, lists, locks, local
<1> QED BY <1>1, <1>2, <1>3, <1>4, <1>5, WriterTypeOK, FlushTypeOK, DrainTypeOK DEF Next

\* Every reachable state is well typed.
THEOREM TypeCorrect == Spec => []TypeOK
  BY InitTypeOK, StepTypeOK, PTL DEF Spec

-----------------------------------------------------------------------------
\* Nothing in the buffer or the table is ever forgotten.
Keeps == /\ Answered(rows) \subseteq Answered(rows')
         /\ Answered(buffer) \subseteq Answered(buffer')

\* A step that stores the payloads of a flush adds their questions.
LEMMA OverAnswered ==
    ASSUME NEW top, NEW sheet
    PROVE  Answered(Over(top, sheet)) = Answered(top) \union Answered(sheet)
  BY DEF Answered, Over

LEMMA StepKeeps == TypeOK /\ [Next]_vars => Keeps
<1> SUFFICES ASSUME TypeOK, [Next]_vars PROVE Keeps
  OBVIOUS
<1>1. ASSUME NEW w \in Writers, WriterStep(w) PROVE Keeps
  <2>1. ASSUME NEW q \in Questions, NEW v \in Values, BufferAnswer(w, q, v)
        PROVE  Keeps
    BY <2>1, ConstantsAssumption DEF BufferAnswer, Keeps, Answered, TypeOK, Sheets, database
  <2>2. CASE UNCHANGED <<rows, buffer>>
    BY <2>2 DEF Keeps, Answered
  <2> QED
    BY <1>1, <2>1, <2>2 DEF WriterStep, SingleCheck, BatchCheck, WriterRefused, MarkQueued,
       PushPending, ReplySaved, database, redis
<1>2. ASSUME NEW f \in Flushers, FlushStep(f) PROVE Keeps
  <2>1. CASE FlushStore(f)
    BY <2>1, OverAnswered DEF FlushStore, Keeps, redis
  <2>2. CASE UNCHANGED <<rows, buffer>>
    BY <2>2 DEF Keeps, Answered
  <2> QED
    BY <1>2, <2>1, <2>2 DEF FlushStep, FlushRead, FlushClear, FlushCount, AckLists, AckMark,
       RestoreProcessing, RestorePending, FlushFails, database, redis
<1>3. CASE UNCHANGED <<rows, buffer>>
  BY <1>3 DEF Keeps, Answered
<1> QED
  BY <1>1, <1>2, <1>3 DEF Next, vars, DrainStep, DrainStart, DrainClaim, DrainClaimed, DrainNext,
     DrainEnd, DrainRelease, SubmitStep, SubmitProbe, SubmitRefused, SubmitGrade, Crash,
     FlushLockExpires, Kick, database, redis

-----------------------------------------------------------------------------
\* A process moves by its own steps only.
LEMMA Frame ==
    ASSUME TypeOK, [Next]_vars, NEW f \in Flushers
    PROVE  \/ pc'[f] = pc[f] /\ taken'[f] = taken[f]
           \/ FlushStep(f) \/ Crash(f)
           \/ f \in Drainers /\ DrainStep(f)
           \/ f \in Submits /\ SubmitStep(f)
<1> DEFINE Still == pc'[f] = pc[f] /\ taken'[f] = taken[f]
<1> USE DEF TypeOK, Go, local, Processes, Flushers
<1>1. ASSUME NEW w \in Writers, WriterStep(w) PROVE Still
  BY <1>1, ConstantsAssumption DEF WriterStep, SingleCheck, BatchCheck, WriterRefused, BufferAnswer,
     MarkQueued, PushPending, ReplySaved
<1>2. ASSUME NEW g \in Flushers, FlushStep(g), g # f PROVE Still
  BY <1>2 DEF FlushStep, FlushRead, FlushStore, FlushClear, FlushCount, AckLists, AckMark,
     RestoreProcessing, RestorePending, FlushFails, Forget
<1>3. ASSUME NEW d \in Drainers, DrainStep(d), d # f PROVE Still
  BY <1>3 DEF DrainStep, DrainStart, DrainClaim, DrainClaimed, DrainNext, DrainEnd, DrainRelease
<1>4. ASSUME NEW s \in Submits, SubmitStep(s), s # f PROVE Still
  BY <1>4 DEF SubmitStep, SubmitProbe, SubmitRefused, SubmitGrade
<1>5. ASSUME NEW p \in Processes, Crash(p), p # f PROVE Still
  BY <1>5 DEF Crash
<1>6. CASE FlushLockExpires \/ Kick \/ UNCHANGED vars
  BY <1>6 DEF FlushLockExpires, Kick, vars
<1> QED
  BY <1>1, <1>2, <1>3, <1>4, <1>5, <1>6 DEF Next

\* A flush about to clear its marks has stored its payloads, now or before.
LEMMA StepStored == TypeOK /\ StoredBeforeCleared /\ [Next]_vars => StoredBeforeCleared'
<1> SUFFICES ASSUME TypeOK, StoredBeforeCleared, [Next]_vars,
                    NEW f \in Flushers, pc'[f] = "clear"
             PROVE  Answered(taken[f])' \subseteq Answered(rows)'
  BY DEF StoredBeforeCleared
<1>0. Keeps
  BY StepKeeps
<1>1. CASE pc'[f] = pc[f] /\ taken'[f] = taken[f]
  BY <1>0, <1>1 DEF StoredBeforeCleared, Keeps, Answered
<1>2. CASE FlushStore(f)
  BY <1>2, OverAnswered DEF FlushStore, local, Answered
<1>3. CASE FlushStep(f) /\ ~FlushStore(f)
  BY <1>3 DEF FlushStep, FlushRead, FlushClear, FlushCount, AckLists, AckMark, RestoreProcessing,
     RestorePending, FlushFails, Go, TypeOK, Processes, Flushers
<1>4. CASE Crash(f)
  BY <1>4 DEF Crash, TypeOK, Processes, Flushers
<1>5. CASE f \in Drainers /\ DrainStep(f)
  BY <1>0, <1>5 DEF DrainStep, DrainStart, DrainClaim, DrainClaimed, DrainNext, DrainEnd,
     DrainRelease, Go, TypeOK, Processes, Flushers
<1>6. CASE f \in Submits /\ SubmitStep(f)
  BY <1>6 DEF SubmitStep, SubmitProbe, SubmitRefused, SubmitGrade, Go, TypeOK, Processes, Flushers
<1> QED
  BY Frame, <1>1, <1>2, <1>3, <1>4, <1>5, <1>6

\* Only accepting an answer adds to the buffer and only FlushClear unmarks.
LEMMA StepKept ==
    TypeOK /\ StoredBeforeCleared /\ AnsweredIsKept /\ [Next]_vars => AnsweredIsKept'
<1> SUFFICES ASSUME TypeOK, StoredBeforeCleared, AnsweredIsKept, [Next]_vars
             PROVE  AnsweredIsKept'
  OBVIOUS
<1>0. Keeps
  BY StepKeeps
<1>1. ASSUME NEW w \in Writers, NEW q \in Questions, NEW v \in Values, BufferAnswer(w, q, v)
      PROVE  AnsweredIsKept'
  <2>1. Answered(buffer)' \subseteq Answered(buffer) \union {q}
    BY <1>1 DEF BufferAnswer, Answered, TypeOK, Sheets
  <2> QED
    BY <1>0, <1>1, <2>1 DEF BufferAnswer, AnsweredIsKept, Keeps
<1>2. ASSUME NEW f \in Flushers, FlushClear(f) PROVE AnsweredIsKept'
  <2>1. Answered(taken[f]) \subseteq Answered(rows)
    BY <1>2 DEF FlushClear, Go, StoredBeforeCleared
  <2>2. rows' = rows /\ buffer' = buffer /\ dirty' = dirty \ Answered(taken[f])
    BY <1>2 DEF FlushClear, database
  <2> QED
    BY <2>1, <2>2 DEF AnsweredIsKept, Answered
<1>3. CASE UNCHANGED <<buffer, dirty>>
  BY <1>0, <1>3 DEF AnsweredIsKept, Keeps, Answered
<1> QED
  BY <1>1, <1>2, <1>3 DEF Next, vars, WriterStep, SingleCheck, BatchCheck, WriterRefused, MarkQueued,
     PushPending, ReplySaved, FlushStep, FlushRead, FlushStore, FlushCount, AckLists, AckMark,
     RestoreProcessing, RestorePending, FlushFails, DrainStep, DrainStart, DrainClaim, DrainClaimed,
     DrainNext, DrainEnd, DrainRelease, SubmitStep, SubmitProbe, SubmitRefused, SubmitGrade, Crash,
     FlushLockExpires, Kick, redis

\* No crash, failure or race makes the server forget an answered question.
THEOREM AnswersAreKept == Spec => []AnsweredIsKept
<1>1. Init => StoredBeforeCleared /\ AnsweredIsKept
  BY DEF Init, StoredBeforeCleared, AnsweredIsKept, Answered, NoPayload, Processes, Flushers
<1> QED
  BY <1>1, TypeCorrect, StepStored, StepKept, PTL DEF Spec

-----------------------------------------------------------------------------
\* A closed session is not opened again and keeps its score.
StaysClosed == status # "in_progress" => status' # "in_progress" /\ score' = score

LEMMA StepClosed == TypeOK /\ [Next]_vars => StaysClosed
  BY DEF StaysClosed, Next, vars, WriterStep, SingleCheck, BatchCheck, WriterRefused, BufferAnswer,
     MarkQueued, PushPending, ReplySaved, FlushStep, FlushRead, FlushStore, FlushClear, FlushCount,
     AckLists, AckMark, RestoreProcessing, RestorePending, FlushFails, DrainStep, DrainStart,
     DrainClaim, DrainClaimed, DrainNext, DrainEnd, DrainRelease, SubmitStep, SubmitProbe,
     SubmitRefused, SubmitGrade, Crash, FlushLockExpires, Kick, database

\* A submit learns what it knows when it arrives, and never afterwards.
LEMMA KnownFrame ==
    ASSUME TypeOK, [Next]_vars, NEW s \in Submits
    PROVE  known'[s] = known[s] \/ SubmitProbe(s)
  BY DEF TypeOK, Next, vars, WriterStep, SingleCheck, BatchCheck, WriterRefused, BufferAnswer,
     MarkQueued, PushPending, ReplySaved, FlushStep, FlushRead, FlushStore, FlushClear, FlushCount,
     AckLists, AckMark, RestoreProcessing, RestorePending, FlushFails, DrainStep, DrainStart,
     DrainClaim, DrainClaimed, DrainNext, DrainEnd, DrainRelease, SubmitStep, SubmitProbe,
     SubmitRefused, SubmitGrade, Crash, FlushLockExpires, Kick, local

\* What a submit knows moves from the buffer to its payloads to the rows.
LEMMA StepKnown ==
    TypeOK /\ AnsweredIsKept /\ KnownIsPending /\ [Next]_vars => KnownIsPending'
<1> SUFFICES ASSUME TypeOK, AnsweredIsKept, KnownIsPending, [Next]_vars, NEW s \in Submits
             PROVE  KnownOf(s)'
  BY DEF KnownIsPending
<1>0. KnownOf(s) /\ Keeps /\ StaysClosed
  BY StepKeeps, StepClosed DEF KnownIsPending
<1> USE DEF TypeOK, Processes, Flushers
<1>1. CASE SubmitProbe(s)
  BY <1>1 DEF SubmitProbe, Go, KnownOf, Answered, redis
<1> SUFFICES ASSUME known'[s] = known[s] PROVE KnownOf(s)'
  BY <1>1, KnownFrame
<1>2. CASE pc'[s] = pc[s] /\ taken'[s] = taken[s]
  BY <1>0, <1>2 DEF KnownOf, Keeps, StaysClosed, Answered
<1>3. CASE FlushRead(s)
  <2>1. dirty \subseteq Answered(buffer) => Answered(taken[s])' = dirty
    BY <1>3 DEF FlushRead, Answered
  <2>2. Answered(buffer) \intersect dirty \subseteq Answered(taken[s])'
    BY <1>3 DEF FlushRead, Answered
  <2>3. pc[s] = "read" /\ UNCHANGED <<buffer, dirty, rows, status>>
    BY <1>3 DEF FlushRead, Go, redis, database
  <2>4. CASE dirty # {} /\ status = "in_progress"
    BY <1>0, <1>3, <2>2, <2>3, <2>4 DEF FlushRead, Go, KnownOf, AnsweredIsKept, Answered
  <2>5. CASE ~(dirty # {} /\ status = "in_progress")
    BY <1>0, <1>3, <2>3, <2>5 DEF FlushRead, Go, KnownOf, AnsweredIsKept, Answered
  <2> QED BY <2>4, <2>5
<1>4. CASE FlushStore(s)
  <2>1. Answered(rows)' = Answered(taken[s]) \union Answered(rows)
    BY <1>4, OverAnswered DEF FlushStore, Answered
  <2>2. pc'[s] = "clear" /\ pc[s] = "store"
    BY <1>4 DEF FlushStore, Go
  <2> QED
    BY <1>0, <2>1, <2>2 DEF KnownOf, Keeps
<1>5. CASE FlushStep(s) /\ ~FlushRead(s) /\ ~FlushStore(s)
  BY <1>0, <1>5, ConstantsAssumption DEF FlushStep, FlushClear, FlushCount, AckLists, AckMark, RestoreProcessing,
     RestorePending, FlushFails, Go, KnownOf, Keeps, StaysClosed
<1>6. CASE Crash(s)
  BY <1>0, <1>6 DEF Crash, KnownOf, Keeps
<1>7. CASE SubmitStep(s)
  <2>1. CASE SubmitRefused(s) \/ SubmitGrade(s)
    <3>1. pc'[s] \in {"done", "submitted"}
      BY <2>1 DEF SubmitRefused, SubmitGrade, Go
    <3> QED
      BY <1>0, <3>1 DEF KnownOf, Keeps
  <2> QED BY <1>1, <1>7, <2>1 DEF SubmitStep
<1> QED
  BY <1>2, <1>3, <1>4, <1>5, <1>6, <1>7, Frame, ConstantsAssumption

\* The submit that closes the session counts all it knew, and only one does.
LEMMA StepCounted ==
    TypeOK /\ KnownIsPending /\ SubmittedIsClosed /\ NoAcceptedAnswerIsBlank /\ [Next]_vars
        => SubmittedIsClosed' /\ NoAcceptedAnswerIsBlank'
<1> SUFFICES ASSUME TypeOK, KnownIsPending, SubmittedIsClosed, NoAcceptedAnswerIsBlank,
                    [Next]_vars, NEW s \in Submits, pc'[s] = "submitted"
             PROVE  status' # "in_progress" /\ known'[s] \subseteq Answered(score)'
  BY DEF SubmittedIsClosed, NoAcceptedAnswerIsBlank
<1> USE DEF TypeOK, Processes, Flushers
<1>1. CASE pc[s] = "submitted"
  <2>1. ~SubmitProbe(s)
    BY <1>1 DEF SubmitProbe, Go
  <2> QED
    BY <1>1, <2>1, KnownFrame, StepClosed
    DEF StaysClosed, SubmittedIsClosed, NoAcceptedAnswerIsBlank, Answered
<1>2. CASE SubmitGrade(s)
  BY <1>2 DEF SubmitGrade, Go, KnownIsPending, KnownOf, Answered, local
<1>3. pc[s] = "submitted" \/ SubmitGrade(s)
  BY Frame, ConstantsAssumption DEF FlushStep, FlushRead, FlushStore, FlushClear, FlushCount,
     AckLists, AckMark, RestoreProcessing, RestorePending, FlushFails, Crash, SubmitStep,
     SubmitProbe, SubmitRefused, Go
<1> QED
  BY <1>1, <1>2, <1>3

\* A paper is handed in without a blank where an answer had been accepted.
THEOREM SubmitHasNoBlank == Spec => []NoAcceptedAnswerIsBlank
<1>1. Init => KnownIsPending /\ SubmittedIsClosed /\ NoAcceptedAnswerIsBlank
  BY DEF Init, KnownIsPending, KnownOf, SubmittedIsClosed, NoAcceptedAnswerIsBlank, Processes, Flushers
<1> QED
  BY <1>1, TypeCorrect, AnswersAreKept, StepKnown, StepCounted, PTL DEF Spec

-----------------------------------------------------------------------------
\* What was accepted stays accepted, and nothing is after the end.
LEMMA StepAccepted ==
    ASSUME TypeOK, [Next]_vars, NEW q \in Questions
    PROVE  /\ accepted[q] \subseteq accepted'[q]
           /\ status # "in_progress" => accepted'[q] = accepted[q]
<1>1. ASSUME NEW w \in Writers, NEW p \in Questions, NEW v \in Values, BufferAnswer(w, p, v)
      PROVE  /\ accepted[q] \subseteq accepted'[q]
             /\ status # "in_progress" => accepted'[q] = accepted[q]
  BY <1>1 DEF BufferAnswer, TypeOK
<1>2. CASE accepted' = accepted
  BY <1>2
<1> QED
  BY <1>1, <1>2 DEF Next, vars, WriterStep, SingleCheck, BatchCheck, WriterRefused, MarkQueued,
     PushPending, ReplySaved, FlushStep, FlushRead, FlushStore, FlushClear, FlushCount, AckLists,
     AckMark, RestoreProcessing, RestorePending, FlushFails, DrainStep, DrainStart, DrainClaim,
     DrainClaimed, DrainNext, DrainEnd, DrainRelease, SubmitStep, SubmitProbe, SubmitRefused,
     SubmitGrade, Crash, FlushLockExpires, Kick, database

\* So a sheet that was heard stays heard.
LEMMA HeardStays ==
    ASSUME TypeOK, [Next]_vars, NEW sheet, Heard(sheet)
    PROVE  \A q \in Questions : sheet[q] \in accepted'[q] \union {NoAnswer}
  BY StepAccepted DEF Heard

\* Only a flush that stores changes the rows.
LEMMA StepRows ==
    ASSUME [Next]_vars
    PROVE  rows' = rows \/ \E f \in Flushers : FlushStore(f)
  BY DEF Next, vars, WriterStep, SingleCheck, BatchCheck, WriterRefused, BufferAnswer, MarkQueued,
     PushPending, ReplySaved, FlushStep, FlushRead, FlushClear, FlushCount, AckLists, AckMark,
     RestoreProcessing, RestorePending, FlushFails, DrainStep, DrainStart, DrainClaim, DrainClaimed,
     DrainNext, DrainEnd, DrainRelease, SubmitStep, SubmitProbe, SubmitRefused, SubmitGrade, Crash,
     FlushLockExpires, Kick, database

\* Only accepting an answer changes the buffer.
LEMMA StepBuffer ==
    ASSUME [Next]_vars
    PROVE  \/ buffer' = buffer
           \/ \E w \in Writers, q \in Questions, v \in Values : BufferAnswer(w, q, v)
  BY DEF Next, vars, WriterStep, SingleCheck, BatchCheck, WriterRefused, MarkQueued, PushPending,
     ReplySaved, FlushStep, FlushRead, FlushStore, FlushClear, FlushCount, AckLists, AckMark,
     RestoreProcessing, RestorePending, FlushFails, DrainStep, DrainStart, DrainClaim, DrainClaimed,
     DrainNext, DrainEnd, DrainRelease, SubmitStep, SubmitProbe, SubmitRefused, SubmitGrade, Crash,
     FlushLockExpires, Kick, redis

\* The status is read after the buffer, and what is buffered later than the end
\* of the session is in nobody's payloads.
LEMMA StepHeard == TypeOK /\ OnlyHeard /\ [Next]_vars => OnlyHeard'
<1> SUFFICES ASSUME TypeOK, OnlyHeard, [Next]_vars PROVE OnlyHeard'
  OBVIOUS
<1>1. Heard(rows)'
  <2>1. CASE rows' = rows
    BY <2>1, HeardStays DEF OnlyHeard, Heard
  <2>2. ASSUME NEW f \in Flushers, FlushStore(f) PROVE Heard(rows)'
    <3>1. Heard(taken[f]) /\ Heard(rows)
      BY <2>2 DEF FlushStore, Go, OnlyHeard
    <3> QED
      BY <2>2, <3>1 DEF FlushStore, Over, Heard
  <2> QED BY <2>1, <2>2, StepRows
<1>2. ASSUME status' = "in_progress" PROVE Heard(buffer)'
  <2>1. status = "in_progress" /\ Heard(buffer)
    BY <1>2, StepClosed DEF StaysClosed, OnlyHeard
  <2>2. CASE buffer' = buffer
    BY <2>1, <2>2, HeardStays DEF Heard
  <2>3. ASSUME NEW w \in Writers, NEW q \in Questions, NEW v \in Values, BufferAnswer(w, q, v)
        PROVE  Heard(buffer)'
    BY <2>1, <2>3 DEF BufferAnswer, Heard, TypeOK, Sheets
  <2> QED BY <2>2, <2>3, StepBuffer
<1>3. ASSUME NEW f \in Flushers, pc'[f] = "store" PROVE Heard(taken[f])'
  <2>1. CASE pc'[f] = pc[f] /\ taken'[f] = taken[f]
    BY <1>3, <2>1, HeardStays DEF OnlyHeard, Heard
  <2>2. CASE FlushRead(f)
    <3>1. status = "in_progress"
      BY <1>3, <2>2 DEF FlushRead, Go, TypeOK, Processes, Flushers
    <3>2. taken'[f] = [q \in Questions |-> IF q \in dirty THEN buffer[q] ELSE NoAnswer]
      BY <2>2 DEF FlushRead, TypeOK
    <3>3. Heard(buffer) /\ accepted' = accepted
      BY <2>2, <3>1 DEF FlushRead, OnlyHeard, database
    <3> QED BY <3>2, <3>3 DEF Heard
  <2>3. CASE FlushStep(f) /\ ~FlushRead(f)
    BY <1>3, <2>3 DEF FlushStep, FlushStore, FlushClear, FlushCount, AckLists, AckMark,
       RestoreProcessing, RestorePending, FlushFails, Go, TypeOK, Processes, Flushers
  <2>4. CASE Crash(f)
    BY <1>3, <2>4 DEF Crash, TypeOK, Processes, Flushers
  <2>5. CASE f \in Drainers /\ DrainStep(f)
    BY <1>3, <2>1, <2>5 DEF DrainStep, DrainStart, DrainClaim, DrainClaimed, DrainNext, DrainEnd,
       DrainRelease, Go, TypeOK, Processes, Flushers
  <2>6. CASE f \in Submits /\ SubmitStep(f)
    BY <1>3, <2>6 DEF SubmitStep, SubmitProbe, SubmitRefused, SubmitGrade, Go, TypeOK, Processes,
       Flushers
  <2> QED BY Frame, <2>1, <2>2, <2>3, <2>4, <2>5, <2>6
<1> QED
  BY <1>1, <1>2, <1>3 DEF OnlyHeard

\* Only answers that were buffered while the session was open are in the table,
\* in an open session's buffer, or on their way from the one to the other.
LEMMA HeardInvariant == Spec => []OnlyHeard
<1>1. Init => OnlyHeard
  BY DEF Init, OnlyHeard, Heard, NoPayload, Processes, Flushers
<1> QED
  BY <1>1, TypeCorrect, StepHeard, PTL DEF Spec

\* Every step of the buffer is a step of the abstract paper, or none.
LEMMA PaperStep ==
    TypeOK /\ TypeOK' /\ OnlyHeard /\ [Next]_vars => [Paper!Next]_(Paper!vars)
<1> SUFFICES ASSUME TypeOK, TypeOK', OnlyHeard, [Next]_vars
             PROVE  Paper!Next \/ UNCHANGED <<PaperOf[status], accepted, rows, score>>
  BY DEF Paper!vars
<1>1. ASSUME NEW w \in Writers, NEW q \in Questions, NEW v \in Values, BufferAnswer(w, q, v)
      PROVE  Paper!Hear(q, v) \/ UNCHANGED database
  BY <1>1 DEF BufferAnswer, Paper!Hear, PaperOf, database
<1>2. ASSUME NEW f \in Flushers, FlushStore(f) PROVE Paper!Store
  <2>1. rows' \in Paper!Sheets
    BY DEF TypeOK, Sheets, Paper!Sheets
  <2>2. Heard(taken[f])
    BY <1>2 DEF FlushStore, Go, OnlyHeard
  <2>3. \A q \in Questions : rows'[q] \in accepted[q] \union {rows[q]}
    BY <1>2, <2>2 DEF FlushStore, Over, Heard
  <2> QED
    BY <1>2, <2>1, <2>3 DEF FlushStore, Paper!Store
<1>3. ASSUME NEW s \in Submits, SubmitGrade(s) PROVE Paper!HandIn \/ UNCHANGED database
  BY <1>3 DEF SubmitGrade, Paper!HandIn, PaperOf, database
<1>4. CASE Kick
  BY <1>4 DEF Kick, Paper!Close, Paper!Next, PaperOf
<1>5. CASE UNCHANGED database
  BY <1>5 DEF database
<1> QED
  <2>1. \/ \E w \in Writers, q \in Questions, v \in Values : BufferAnswer(w, q, v)
        \/ \E f \in Flushers : FlushStore(f)
        \/ \E s \in Submits : SubmitGrade(s)
        \/ Kick
        \/ UNCHANGED database
    BY DEF Next, vars, WriterStep, SingleCheck, BatchCheck, WriterRefused, MarkQueued, PushPending,
       ReplySaved, FlushStep, FlushRead, FlushClear, FlushCount, AckLists, AckMark,
       RestoreProcessing, RestorePending, FlushFails, DrainStep, DrainStart, DrainClaim,
       DrainClaimed, DrainNext, DrainEnd, DrainRelease, SubmitStep, SubmitProbe, SubmitRefused,
       Crash, FlushLockExpires
  <2> QED
    BY <2>1, <1>1, <1>2, <1>3, <1>4, <1>5 DEF Paper!Next

\* However requests, flushes, drain loops and submits interleave, crash or fail,
\* what is stored and counted is what was buffered while the session was open.
THEOREM Refinement == Spec => BufferedSpec
<1>1. Init => Paper!Init
  BY DEF Init, Paper!Init, PaperOf, NoPayload
<1> QED
  BY <1>1, TypeCorrect, HeardInvariant, PaperStep, PTL DEF Spec, BufferedSpec, Paper!Spec

-----------------------------------------------------------------------------
\* Where a single answer is between taking the session's lock and its reply.
UnderLock == {"checked", "written", "marked", "enqueued"}

\* Every flush, final submit, kick and single answer waits for the session's lock.
\* It is never left behind: it is with a single answer that has steps to take, none
\* of which waits for anything, also after crashes and refused or failed requests.
LockIsInUse == sessionLock # NoHolder => sessionLock \in Writers /\ pc[sessionLock] \in UnderLock

THEOREM SessionLockIsInUse == Spec => []LockIsInUse
<1>1. Init => LockIsInUse
  BY DEF Init, LockIsInUse
<1>2. TypeOK /\ LockIsInUse /\ [Next]_vars => LockIsInUse'
  <2> SUFFICES ASSUME TypeOK, LockIsInUse, [Next]_vars PROVE LockIsInUse'
    OBVIOUS
  <2> USE DEF TypeOK, Go, Processes, Flushers, UnderLock, LockIsInUse
  <2>1. ASSUME NEW w \in Writers, WriterStep(w) PROVE LockIsInUse'
    <3>1. CASE SingleCheck(w)
      BY <3>1 DEF SingleCheck
    <3>2. CASE BatchCheck(w) \/ WriterRefused(w)
      BY <3>2 DEF BatchCheck, WriterRefused, locks
    <3>3. ASSUME NEW q \in Questions, NEW v \in Values, BufferAnswer(w, q, v)
          PROVE  LockIsInUse'
      BY <3>3 DEF BufferAnswer, locks
    <3>4. CASE MarkQueued(w) \/ PushPending(w)
      BY <3>4 DEF MarkQueued, PushPending, locks
    <3>5. CASE ReplySaved(w)
      BY <3>5 DEF ReplySaved, Unlocked
    <3> QED BY <2>1, <3>1, <3>2, <3>3, <3>4, <3>5 DEF WriterStep
  \* No step of a flusher is a step of the writer that holds the lock.
  <2>2. ASSUME sessionLock' = sessionLock, NEW f \in Flushers,
               \A p \in Processes \ {f} : pc'[p] = pc[p]
        PROVE  LockIsInUse'
    BY <2>2, ConstantsAssumption
  <2>3. ASSUME NEW f \in Flushers, FlushStep(f) PROVE LockIsInUse'
    BY <2>2, <2>3 DEF FlushStep, FlushRead, FlushStore, FlushClear, FlushCount, AckLists, AckMark,
       RestoreProcessing, RestorePending, FlushFails, locks
  <2>4. ASSUME NEW d \in Drainers, DrainStep(d) PROVE LockIsInUse'
    BY <2>2, <2>4 DEF DrainStep, DrainStart, DrainClaim, DrainClaimed, DrainNext, DrainEnd,
       DrainRelease, locks
  <2>5. ASSUME NEW s \in Submits, SubmitStep(s) PROVE LockIsInUse'
    BY <2>2, <2>5 DEF SubmitStep, SubmitProbe, SubmitRefused, SubmitGrade, locks
  <2>6. ASSUME NEW p \in Processes, Crash(p) PROVE LockIsInUse'
    BY <2>6 DEF Crash, Unlocked
  <2>7. CASE FlushLockExpires \/ Kick \/ UNCHANGED vars
    BY <2>7 DEF FlushLockExpires, Kick, vars, locks
  <2> QED
    BY <2>1, <2>3, <2>4, <2>5, <2>6, <2>7 DEF Next
<1> QED
  BY <1>1, <1>2, TypeCorrect, PTL DEF Spec
=============================================================================
