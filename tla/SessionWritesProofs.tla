------------------------ MODULE SessionWritesProofs ------------------------
(***************************************************************************)
(* Proofs about SessionWrites, for any set of requests, questions and      *)
(* values: type correctness, the inductive invariant IInv, the properties  *)
(* of the students' requests, and the refinement of ExamPaper.             *)
(***************************************************************************)
EXTENDS SessionWrites, TLAPS

-----------------------------------------------------------------------------
(* Types of the helpers.                                                   *)

\* The initial row and the empty payload are well typed.
LEMMA NoRowType == NoRow \in Rows /\ NoWork \in Payloads
BY DEF NoRow, NoWork, Rows, Grades, Payloads

\* Grading maps rows to rows and never changes a payload.
LEMMA GradedType ==
    ASSUME NEW rows \in [Questions -> Rows]
    PROVE  /\ Graded(rows) \in [Questions -> Rows]
           /\ Counted(rows) \in Scores
           /\ \A q \in Questions : Graded(rows)[q].val = rows[q].val
BY DEF Graded, Counted, Rows, Grades, Scores

\* What a request reads is a snapshot.
LEMMA SnapshotType == ASSUME TypeOK PROVE Snapshot \in Snapshots
BY DEF TypeOK, Snapshot, Snapshots

\* Reading the answers again yields rows.
LEMMA RereadType ==
    ASSUME TypeOK, NEW rows \in [Questions -> Rows]
    PROVE  Reread(rows) \in [Questions -> Rows]
BY DEF TypeOK, Reread

\* Autosave leaves a well-typed row.
LEMMA AutosavedType ==
    ASSUME NEW loaded \in Rows, NEW v \in Values, NEW stored \in Rows
    PROVE  Autosaved(loaded, v, stored) \in Rows
BY DEF Autosaved, Column, Rows, Grades

\* A snapshot with other rows, or with another score, is still a snapshot.
LEMMA SnapshotUpdate ==
    ASSUME NEW s \in Snapshots, NEW rows \in [Questions -> Rows],
           NEW sc \in Scores \union {NoScore}
    PROVE  /\ [s EXCEPT !.rows = rows] \in Snapshots
           /\ [s EXCEPT !.score = sc, !.rows = rows] \in Snapshots
BY DEF Snapshots

-----------------------------------------------------------------------------
(* The three shapes a step has: it receives a request, it answers one, or  *)
(* it takes the lock.  What each keeps of IInv is stated once.             *)

\* Everything that IInv says of requests and of the lock.
RequestInv ==
    /\ lock \in Requests \union {NoRequest}
    /\ pc \in [Requests -> Stages]
    /\ op \in [Requests -> AllOps \union {"none"}]
    /\ work \in [Requests -> Payloads]
    /\ cache \in [Requests -> Snapshots \union {NoSnapshot}]
    /\ reply \in [Requests -> Replies]
    /\ EntitiesLoaded
    /\ LockIsExclusive

\* The part of the invariant that is about requests and the lock.
LEMMA IInvGivesRequestInv == IInv => RequestInv
BY DEF IInv, TypeOK, RequestInv

\* Receiving a request keeps the invariant.
LEMMA ArriveKeepsIInv ==
    ASSUME IInv, NEW r \in Requests, NEW kind \in AllOps, NEW payload \in Payloads,
           NEW stage \in {"probed", "loaded", "done"},
           NEW snapshot \in Snapshots \union {NoSnapshot},
           NEW answer \in Replies \ {"submitted"},
           stage = "loaded" => snapshot \in Snapshots,
           Arrive(r, kind, payload, stage, snapshot, answer)
    PROVE  IInv'
<1> USE DEF Arrive, session, IInv, TypeOK
<1>1. TypeOK'
  BY DEF Stages
<1>2. EntitiesLoaded'
  BY DEF EntitiesLoaded
<1>3. LockIsExclusive'
  BY DEF LockIsExclusive, HoldsLock
<1>4. LockedIsOpen'
  BY DEF LockedIsOpen, HoldsLock, At
<1>5. FinalSeesAll'
  BY DEF FinalSeesAll, At, Snapshot
<1>6. SubmittedIsClosed' /\ FinalizedOnceByStudent'
  BY DEF SubmittedIsClosed, FinalizedOnceByStudent
<1>7. QED
  BY <1>1, <1>2, <1>3, <1>4, <1>5, <1>6

\* Answering a request frees its lock and nobody else's.
LEMMA FinishKeepsRequestInv ==
    ASSUME IInv, NEW r \in Requests, NEW answer \in Replies, Finish(r, answer)
    PROVE  /\ RequestInv'
           /\ \A s \in Requests \ {r} :
                 pc'[s] = pc[s] /\ op'[s] = op[s] /\ cache'[s] = cache[s] /\ reply'[s] = reply[s]
           /\ pc'[r] = "done" /\ reply'[r] = answer /\ op'[r] = op[r]
<1> USE DEF Finish, IInv, TypeOK
<1>1. /\ lock' \in Requests \union {NoRequest}
      /\ pc' \in [Requests -> Stages]
      /\ op' \in [Requests -> AllOps \union {"none"}]
      /\ work' \in [Requests -> Payloads]
      /\ cache' \in [Requests -> Snapshots \union {NoSnapshot}]
      /\ reply' \in [Requests -> Replies]
  BY DEF Stages
<1>2. EntitiesLoaded'
  BY DEF EntitiesLoaded
<1>3. LockIsExclusive'
  BY ConstantsAssumption DEF LockIsExclusive, HoldsLock
<1>4. QED
  BY <1>1, <1>2, <1>3 DEF RequestInv

\* Whoever commits finds the lock free or holds it.
Commits(r) == lock = NoRequest \/ HoldsLock(r)

\* Nobody else holds the lock when a request commits.
LEMMA OnlyCommitterHolds ==
    ASSUME IInv, NEW r \in Requests, Commits(r)
    PROVE  \A s \in Requests \ {r} : ~HoldsLock(s)
BY ConstantsAssumption DEF IInv, LockIsExclusive, Commits

\* A commit that answers its request, types its columns and does not reopen the
\* session keeps the invariant; a final submit commits on an open session.
LEMMA CommitKeepsIInv ==
    ASSUME IInv, NEW r \in Requests, NEW answer \in Replies, Finish(r, answer),
           Commits(r),
           status' \in Statuses, byAdmin' \in BOOLEAN,
           score' \in Scores \union {NoScore}, answers' \in [Questions -> Rows],
           status # "in_progress" => status' # "in_progress",
           op[r] = "final" /\ answer = "submitted" =>
               status = "in_progress" /\ status' # "in_progress"
    PROVE  IInv'
<1>1. RequestInv'
  BY FinishKeepsRequestInv
<1>2. TypeOK' /\ EntitiesLoaded' /\ LockIsExclusive'
  BY <1>1 DEF RequestInv, TypeOK
<1>3. \A s \in Requests : ~HoldsLock(s)'
  BY OnlyCommitterHolds, FinishKeepsRequestInv DEF HoldsLock
<1>4. LockedIsOpen' /\ FinalSeesAll'
  BY <1>3 DEF LockedIsOpen, FinalSeesAll, HoldsLock, At
<1>5. SubmittedIsClosed'
  BY FinishKeepsRequestInv DEF SubmittedIsClosed, IInv
<1>6. FinalizedOnceByStudent'
  BY FinishKeepsRequestInv DEF FinalizedOnceByStudent, SubmittedIsClosed, IInv
<1>7. QED
  BY <1>2, <1>4, <1>5, <1>6 DEF IInv

\* Answering without a commit keeps the invariant, lock or no lock.
LEMMA GiveUpKeepsIInv ==
    ASSUME IInv, NEW r \in Requests, NEW answer \in Replies \ {"submitted"},
           Finish(r, answer), UNCHANGED <<session, answers>>
    PROVE  IInv'
<1>1. RequestInv'
  BY FinishKeepsRequestInv
<1>2. TypeOK' /\ EntitiesLoaded' /\ LockIsExclusive'
  BY <1>1 DEF RequestInv, TypeOK, IInv, session
<1>3. LockedIsOpen' /\ FinalSeesAll'
  BY FinishKeepsRequestInv
     DEF LockedIsOpen, FinalSeesAll, HoldsLock, At, Snapshot, IInv, session
<1>4. SubmittedIsClosed' /\ FinalizedOnceByStudent'
  BY FinishKeepsRequestInv DEF SubmittedIsClosed, FinalizedOnceByStudent, IInv, session
<1>5. QED
  BY <1>2, <1>3, <1>4 DEF IInv

\* Taking the free lock keeps the invariant if the new holder has what its
\* stage needs.
LEMMA TakeLockKeepsIInv ==
    ASSUME IInv, NEW r \in Requests, NEW stage \in {"locked", "relocked"},
           TakeLock(r, stage), pc[r] # "done",
           cache' \in [Requests -> Snapshots \union {NoSnapshot}],
           \A s \in Requests \ {r} : cache'[s] = cache[s],
           stage = "locked" /\ op[r] \in {"batch", "final"} => cache'[r] \in Snapshots,
           op[r] = "final" => cache'[r] = Snapshot,
           (op[r] = "batch" /\ stage = "locked") \/ status = "in_progress"
    PROVE  IInv'
<1> USE DEF TakeLock, session, IInv, TypeOK
<1>1. TypeOK'
  BY DEF Stages
<1>2. EntitiesLoaded'
  BY DEF EntitiesLoaded
<1>3. LockIsExclusive'
  BY ConstantsAssumption DEF LockIsExclusive, HoldsLock
<1>4. LockedIsOpen'
  BY DEF LockedIsOpen, HoldsLock, At
<1>5. FinalSeesAll'
  BY DEF FinalSeesAll, At, Snapshot
<1>6. SubmittedIsClosed' /\ FinalizedOnceByStudent'
  BY DEF SubmittedIsClosed, FinalizedOnceByStudent
<1>7. QED
  BY <1>1, <1>2, <1>3, <1>4, <1>5, <1>6

-----------------------------------------------------------------------------
(* The steps, one lemma per kind of request.                               *)

\* Every step of submit-answer keeps the invariant.
LEMMA SingleKeepsIInv ==
    ASSUME IInv, NEW r \in Requests, SingleStep(r)
    PROVE  IInv'
<1>1. CASE SingleProbe(r)
  <2>1. PICK q \in Questions, v \in Values, stage \in {"probed", "done"},
             answer \in Replies \ {"submitted"} :
             Arrive(r, "single", [NoWork EXCEPT ![q] = v], stage, NoSnapshot, answer)
    BY <1>1 DEF SingleProbe, Reject, Replies
  <2>2. [NoWork EXCEPT ![q] = v] \in Payloads
    BY NoRowType DEF Payloads
  <2>3. QED
    BY <2>1, <2>2, ArriveKeepsIInv DEF AllOps, LockedOps
<1>2. CASE SingleLock(r)
  <2>1. CASE status = "in_progress" /\ TakeLock(r, "locked") /\ UNCHANGED cache
    BY <1>2, <2>1, TakeLockKeepsIInv DEF SingleLock, At, IInv, TypeOK
  <2>2. CASE \E answer \in {"ignored", "ended"} :
                 Finish(r, answer) /\ UNCHANGED <<session, answers>>
    BY <2>2, GiveUpKeepsIInv DEF Replies
  <2>3. QED
    BY <1>2, <2>1, <2>2 DEF SingleLock
<1>3. CASE SingleCommit(r)
  <2>1. answers' \in [Questions -> Rows]
    BY <1>3 DEF SingleCommit, InPayload, IInv, TypeOK, Payloads, Rows, Grades
  <2>2. Commits(r)
    BY <1>3 DEF SingleCommit, At, Commits, HoldsLock
  <2>3. QED
    BY <1>3, <2>1, <2>2, CommitKeepsIInv DEF SingleCommit, session, Replies, IInv, TypeOK
<1>4. QED
  BY <1>1, <1>2, <1>3 DEF SingleStep

\* Every step of autosave keeps the invariant, its retry included.
LEMMA BatchKeepsIInv ==
    ASSUME IInv, NEW r \in Requests, BatchStep(r)
    PROVE  IInv'
<1>1. CASE BatchLoad(r)
  BY <1>1, SnapshotType, ArriveKeepsIInv
     DEF BatchLoad, Reject, IInv, AllOps, LockedOps, Replies
<1>2. CASE BatchLock(r)
  <2>1. cache[r] \in Snapshots
    BY <1>2 DEF BatchLock, At, IInv, EntitiesLoaded
  <2>2. [cache[r] EXCEPT !.rows = Reread(@)] \in Snapshots
    BY <2>1, RereadType, SnapshotUpdate DEF IInv, Snapshots
  <2>3. /\ cache' \in [Requests -> Snapshots \union {NoSnapshot}]
        /\ cache'[r] \in Snapshots
        /\ \A s \in Requests \ {r} : cache'[s] = cache[s]
    BY <1>2, <2>2 DEF BatchLock, IInv, TypeOK
  <2>4. QED
    BY <1>2, <2>3, TakeLockKeepsIInv DEF BatchLock, At
<1>3. CASE BatchCommit(r)
  <2>1. cache[r] \in Snapshots
    BY <1>3 DEF BatchCommit, At, IInv, EntitiesLoaded
  <2>2. ASSUME NEW q \in Questions, InPayload(r, q)
        PROVE  Autosaved(cache[r].rows[q], work[r][q], answers[q]) \in Rows
    BY <2>1, <2>2, AutosavedType DEF InPayload, IInv, TypeOK, Payloads, Snapshots
  <2>3. answers' \in [Questions -> Rows]
    BY <1>3, <2>2 DEF BatchCommit, IInv, TypeOK
  <2>4. Commits(r)
    BY <1>3 DEF BatchCommit, At, Commits, HoldsLock
  <2>5. QED
    BY <1>3, <2>3, <2>4, CommitKeepsIInv DEF BatchCommit, session, Replies, IInv, TypeOK
<1>4. CASE BatchCommitFails(r)
  <2> USE <1>4 DEF BatchCommitFails, At, session, IInv, TypeOK
  <2>1. TypeOK' /\ EntitiesLoaded'
    BY DEF Stages, EntitiesLoaded
  <2>2. LockIsExclusive' /\ LockedIsOpen'
    BY ConstantsAssumption DEF LockIsExclusive, LockedIsOpen, HoldsLock
  <2>3. FinalSeesAll' /\ SubmittedIsClosed' /\ FinalizedOnceByStudent'
    BY DEF FinalSeesAll, Snapshot, SubmittedIsClosed, FinalizedOnceByStudent
  <2>4. QED
    BY <2>1, <2>2, <2>3
<1>5. CASE BatchRetryLock(r)
  <2>1. CASE status = "in_progress" /\ TakeLock(r, "relocked") /\ UNCHANGED cache
    BY <1>5, <2>1, TakeLockKeepsIInv DEF BatchRetryLock, At, IInv, TypeOK
  <2>2. CASE Finish(r, "ended") /\ UNCHANGED <<session, answers>>
    BY <2>2, GiveUpKeepsIInv DEF Replies
  <2>3. QED
    BY <1>5, <2>1, <2>2 DEF BatchRetryLock
<1>6. CASE BatchRetryCommit(r)
  <2>1. answers' \in [Questions -> Rows]
    BY <1>6 DEF BatchRetryCommit, InPayload, IInv, TypeOK, Payloads, Rows, Grades
  <2>2. Commits(r)
    BY <1>6 DEF BatchRetryCommit, At, Commits, HoldsLock
  <2>3. QED
    BY <1>6, <2>1, <2>2, CommitKeepsIInv
       DEF BatchRetryCommit, session, Replies, IInv, TypeOK
<1>7. QED
  BY <1>1, <1>2, <1>3, <1>4, <1>5, <1>6 DEF BatchStep

\* What finalizing stores is well typed and leaves no session open.
LEMMA StoreFinalizedType ==
    ASSUME IInv, NEW r \in Requests, cache[r] \in Snapshots, StoreFinalized(r)
    PROVE  /\ answers' \in [Questions -> Rows]
           /\ score' \in Scores \union {NoScore}
           /\ status' \in {status, "submitted"}
           /\ byAdmin' = byAdmin
<1>1. cache[r].rows \in [Questions -> Rows]
  BY DEF Snapshots
<1>2. Graded(cache[r].rows) \in [Questions -> Rows]
  BY <1>1, GradedType
<1>3. Counted(Graded(cache[r].rows)) \in Scores
  BY <1>2, GradedType
<1>4. answers' \in [Questions -> Rows]
  <2> DEFINE graded == Graded(cache[r].rows)
             Stored(q) == Column(cache[r].rows[q].grade, graded[q].grade, answers[q].grade)
  <2>1. answers \in [Questions -> Rows]
    BY DEF IInv, TypeOK
  <2>2. answers' = [q \in Questions |-> [answers[q] EXCEPT !.grade = Stored(q)]]
    BY DEF StoreFinalized
  <2> HIDE DEF graded
  <2>3. ASSUME NEW q \in Questions
        PROVE  graded[q].grade \in Grades /\ answers[q].grade \in Grades
    BY <1>2, <2>1 DEF graded, Rows
  <2>4. ASSUME NEW q \in Questions PROVE Stored(q) \in Grades
    BY <2>3 DEF Column
  <2> HIDE DEF Stored
  <2> QED
    BY <2>1, <2>2, <2>4 DEF Rows
<1>5. QED
  BY <1>3, <1>4 DEF StoreFinalized, Column, IInv, TypeOK

\* Every step of the final submit keeps the invariant.
LEMMA FinalKeepsIInv ==
    ASSUME IInv, NEW r \in Requests, FinalStep(r)
    PROVE  IInv'
<1>1. CASE FinalProbe(r)
  BY <1>1, NoRowType, ArriveKeepsIInv DEF FinalProbe, Reject, AllOps, LockedOps, Replies
<1>2. CASE FinalLock(r)
  <2>1. CASE /\ status = "in_progress"
             /\ TakeLock(r, "locked")
             /\ cache' = [cache EXCEPT ![r] = Snapshot]
    <3>1. /\ cache' \in [Requests -> Snapshots \union {NoSnapshot}]
          /\ cache'[r] = Snapshot /\ Snapshot \in Snapshots
          /\ \A s \in Requests \ {r} : cache'[s] = cache[s]
      BY <2>1, SnapshotType DEF IInv, TypeOK
    <3>2. QED
      BY <1>2, <2>1, <3>1, TakeLockKeepsIInv DEF FinalLock, At
  <2>2. CASE \E answer \in {"already", "ended"} :
                 Finish(r, answer) /\ UNCHANGED <<session, answers>>
    BY <2>2, GiveUpKeepsIInv DEF Replies
  <2>3. QED
    BY <1>2, <2>1, <2>2 DEF FinalLock
<1>3. CASE FinalCommit(r)
  <2>1. /\ cache[r] \in Snapshots /\ cache[r] = Snapshot
        /\ status = "in_progress" /\ Commits(r)
    BY <1>3 DEF FinalCommit, At, IInv, EntitiesLoaded, FinalSeesAll, LockedIsOpen,
                HoldsLock, Commits
  <2>2. status' = "submitted"
    BY <1>3, <2>1 DEF FinalCommit, StoreFinalized, Column, Snapshot
  <2>3. QED
    BY <1>3, <2>1, <2>2, StoreFinalizedType, CommitKeepsIInv
       DEF FinalCommit, Replies, Statuses, IInv, TypeOK
<1>4. QED
  BY <1>1, <1>2, <1>3 DEF FinalStep

\* Both steps of the teacher's force-submit keep the invariant.
LEMMA ForceKeepsIInv ==
    ASSUME IInv, NEW r \in Requests, ForceStep(r)
    PROVE  IInv'
<1>1. CASE ForceLoad(r)
  BY <1>1, NoRowType, SnapshotType, ArriveKeepsIInv
     DEF ForceLoad, Reject, IInv, AllOps, LockedOps, Replies
<1>2. CASE ForceCommit(r)
  <2>1. cache[r] \in Snapshots /\ Commits(r) /\ op[r] = "force"
    BY <1>2 DEF ForceCommit, At, IInv, EntitiesLoaded, Commits
  <2>2. QED
    BY <1>2, <2>1, StoreFinalizedType, CommitKeepsIInv
       DEF ForceCommit, Replies, Statuses, IInv, TypeOK
<1>3. QED
  BY <1>1, <1>2 DEF ForceStep

\* Both steps of the scheduler's expiry keep the invariant.
LEMMA ExpireKeepsIInv ==
    ASSUME IInv, NEW r \in Requests, ExpireStep(r)
    PROVE  IInv'
<1>1. CASE ExpireLoad(r)
  BY <1>1, NoRowType, SnapshotType, ArriveKeepsIInv
     DEF ExpireLoad, IInv, AllOps, LockedOps, Replies
<1>2. CASE ExpireCommit(r)
  <2>1. cache[r] \in Snapshots /\ Commits(r) /\ op[r] = "expire"
    BY <1>2 DEF ExpireCommit, At, IInv, EntitiesLoaded, Commits
  <2>2. QED
    BY <1>2, <2>1, StoreFinalizedType, CommitKeepsIInv
       DEF ExpireCommit, Replies, Statuses, IInv, TypeOK
<1>3. QED
  BY <1>1, <1>2 DEF ExpireStep

\* Every step of terminate keeps the invariant.
LEMMA TerminateKeepsIInv ==
    ASSUME IInv, NEW r \in Requests, TerminateStep(r)
    PROVE  IInv'
<1>1. CASE TerminateLoad(r)
  BY <1>1, NoRowType, SnapshotType, ArriveKeepsIInv
     DEF TerminateLoad, Reject, IInv, AllOps, LockedOps, Replies
<1>2. CASE TerminateScore(r)
  <2> DEFINE seen == Reread(cache[r].rows)
  <2>1. cache[r] \in Snapshots
    BY <1>2 DEF TerminateScore, At, IInv, EntitiesLoaded
  <2>2. seen \in [Questions -> Rows] /\ Counted(seen) \in Scores
    BY <2>1, RereadType, GradedType DEF IInv, Snapshots
  <2>3. [cache[r] EXCEPT !.score = Counted(seen), !.rows = seen] \in Snapshots
    BY <2>1, <2>2, SnapshotUpdate
  <2>4. cache' = [cache EXCEPT ![r] =
                      [cache[r] EXCEPT !.score = Counted(seen), !.rows = seen]]
    BY <1>2 DEF TerminateScore
  <2> HIDE DEF seen
  <2>5. score' \in Scores \union {NoScore}
    BY <1>2, <2>2 DEF TerminateScore, Column, seen, IInv, TypeOK
  <2>6. /\ pc' = [pc EXCEPT ![r] = "scored"]
        /\ lock = NoRequest
        /\ UNCHANGED <<status, byAdmin, answers, lock, op, work, reply>>
    BY <1>2 DEF TerminateScore
  <2>7. TypeOK'
    BY <2>3, <2>4, <2>5, <2>6 DEF IInv, TypeOK, Stages
  <2>8. EntitiesLoaded'
    BY <2>3, <2>4, <2>6 DEF EntitiesLoaded, IInv, TypeOK
  <2>9. \A s \in Requests : ~HoldsLock(s) /\ ~HoldsLock(s)'
    BY <2>6, ConstantsAssumption DEF IInv, TypeOK, LockIsExclusive, HoldsLock
  <2>10. LockIsExclusive' /\ LockedIsOpen' /\ FinalSeesAll'
    BY <2>6, <2>9, ConstantsAssumption
       DEF LockIsExclusive, LockedIsOpen, FinalSeesAll, HoldsLock, At
  <2>11. SubmittedIsClosed' /\ FinalizedOnceByStudent'
    BY <2>6 DEF IInv, SubmittedIsClosed, FinalizedOnceByStudent
  <2>12. QED
    BY <2>7, <2>8, <2>10, <2>11 DEF IInv
<1>3. CASE TerminateCommit(r)
  BY <1>3, CommitKeepsIInv
     DEF TerminateCommit, Commits, Column, Replies, Statuses, IInv, TypeOK
<1>4. QED
  BY <1>1, <1>2, <1>3 DEF TerminateStep

\* Both steps of a kick keep the invariant.
LEMMA KickKeepsIInv ==
    ASSUME IInv, NEW r \in Requests, KickStep(r)
    PROVE  IInv'
<1>1. CASE KickLoad(r)
  BY <1>1, NoRowType, SnapshotType, ArriveKeepsIInv
     DEF KickLoad, IInv, AllOps, LockedOps, Replies
<1>2. CASE KickCommit(r)
  BY <1>2, CommitKeepsIInv
     DEF KickCommit, Commits, Column, Replies, Statuses, IInv, TypeOK
<1>3. QED
  BY <1>1, <1>2 DEF KickStep

\* A request that fails keeps the invariant.
LEMMA FailKeepsIInv ==
    ASSUME IInv, NEW r \in Requests, Fail(r)
    PROVE  IInv'
BY GiveUpKeepsIInv DEF Fail, Replies

-----------------------------------------------------------------------------
(* The invariant and what follows from it, for every Ops.                  *)

\* The invariant holds before the first request.
LEMMA InitIInv == Init => IInv
<1> SUFFICES ASSUME Init PROVE IInv
  OBVIOUS
<1>1. TypeOK
  BY NoRowType DEF Init, TypeOK, Statuses, Stages, Replies
<1>2. QED
  BY <1>1, ConstantsAssumption
     DEF Init, IInv, EntitiesLoaded, LockIsExclusive, LockedIsOpen, FinalSeesAll,
         SubmittedIsClosed, FinalizedOnceByStudent, HoldsLock, At

\* A step that changes nothing keeps the invariant.
LEMMA StutterKeepsIInv == IInv /\ UNCHANGED vars => IInv'
BY DEF vars, IInv, TypeOK, EntitiesLoaded, LockIsExclusive, LockedIsOpen, FinalSeesAll,
       SubmittedIsClosed, FinalizedOnceByStudent, HoldsLock, At, Snapshot

\* The invariant is inductive.
LEMMA NextIInv == IInv /\ [Next]_vars => IInv'
<1> SUFFICES ASSUME IInv, Next PROVE IInv'
  BY StutterKeepsIInv
<1>1. CASE Quiet
  BY <1>1, StutterKeepsIInv DEF Quiet
<1>2. ASSUME NEW r \in Requests,
             \/ SingleStep(r) \/ BatchStep(r) \/ FinalStep(r)
             \/ ForceStep(r) \/ ExpireStep(r) \/ TerminateStep(r) \/ KickStep(r) \/ Fail(r)
      PROVE  IInv'
  BY <1>2, SingleKeepsIInv, BatchKeepsIInv, FinalKeepsIInv, ForceKeepsIInv,
     ExpireKeepsIInv, TerminateKeepsIInv, KickKeepsIInv, FailKeepsIInv
<1>3. QED
  BY <1>1, <1>2 DEF Next

\* The inductive invariant holds in every reachable state, whatever requests arrive.
THEOREM IInvHolds == Spec => []IInv
BY InitIInv, NextIInv, PTL DEF Spec

\* Every variable keeps its type.
THEOREM TypeCorrect == Spec => []TypeOK
<1>1. IInv => TypeOK
  BY DEF IInv
<1>2. QED
  BY <1>1, IInvHolds, PTL

\* Of all the final submits of a session at most one grades it, whatever the
\* autosaves and the staff do at the same time.
THEOREM FinalizedOnce == Spec => []FinalizedOnceByStudent
<1>1. IInv => FinalizedOnceByStudent
  BY DEF IInv
<1>2. QED
  BY <1>1, IInvHolds, PTL

\* A request is answered only by the step that commits or rejects it.
LEMMA SavedComesFromCommit ==
    ASSUME IInv, NEW s \in Requests, NEW answer \in {"saved", "submitted"},
           Answers(s, answer), Next
    PROVE  \/ answer = "saved" /\ (SingleCommit(s) \/ BatchCommit(s) \/ BatchRetryCommit(s))
           \/ answer = "submitted" /\ (FinalCommit(s) \/ ForceCommit(s) \/ ExpireCommit(s))
<1> USE DEF IInv, TypeOK, Answers
<1>1. CASE Quiet
  BY <1>1 DEF Quiet, vars
<1>2. ASSUME NEW r \in Requests, SingleStep(r)
      PROVE  answer = "saved" /\ SingleCommit(s)
  BY <1>2 DEF SingleStep, SingleProbe, SingleLock, SingleCommit, Arrive, Reject,
              TakeLock, Finish
<1>3. ASSUME NEW r \in Requests, BatchStep(r)
      PROVE  answer = "saved" /\ (BatchCommit(s) \/ BatchRetryCommit(s))
  BY <1>3 DEF BatchStep, BatchLoad, BatchLock, BatchCommit, BatchCommitFails,
              BatchRetryLock, BatchRetryCommit, Arrive, Reject, TakeLock, Finish
<1>4. ASSUME NEW r \in Requests, FinalStep(r)
      PROVE  answer = "submitted" /\ FinalCommit(s)
  BY <1>4 DEF FinalStep, FinalProbe, FinalLock, FinalCommit, Arrive, Reject,
              TakeLock, Finish
<1>5. ASSUME NEW r \in Requests, ForceStep(r) \/ ExpireStep(r)
      PROVE  answer = "submitted" /\ (ForceCommit(s) \/ ExpireCommit(s))
  BY <1>5 DEF ForceStep, ForceLoad, ForceCommit, ExpireStep, ExpireLoad, ExpireCommit, Arrive, Reject, Finish
<1>6. ASSUME NEW r \in Requests, TerminateStep(r) \/ KickStep(r) \/ Fail(r)
      PROVE  FALSE
  BY <1>6 DEF TerminateStep, TerminateLoad, TerminateScore, TerminateCommit,
              KickStep, KickLoad, KickCommit, Fail, Arrive, Reject, Finish
<1>7. QED
  BY <1>1, <1>2, <1>3, <1>4, <1>5, <1>6 DEF Next

\* submit-answer, and the retried autosave, never confirm an answer to a session
\* that has been closed meanwhile.
THEOREM SavedMeansOpen == Spec => SavedOnlyWhileOpen
<1>1. ASSUME IInv, [Next]_vars, NEW r \in Requests, Answers(r, "saved"),
             op[r] = "single" \/ pc[r] = "relocked"
      PROVE  status = "in_progress"
  <2>1. Next
    BY <1>1 DEF vars, Answers
  <2>2. SingleCommit(r) \/ BatchCommit(r) \/ BatchRetryCommit(r)
    BY <1>1, <2>1, SavedComesFromCommit
  <2>3. HoldsLock(r) /\ ~At(r, "batch", "locked")
    BY <1>1, <2>2 DEF SingleCommit, BatchCommit, BatchRetryCommit, HoldsLock, At
  <2>4. QED
    BY <1>1, <2>3 DEF IInv, LockedIsOpen
<1>2. IInv /\ [Next]_vars =>
        [\A r \in Requests :
            Answers(r, "saved") /\ (op[r] = "single" \/ pc[r] = "relocked")
                => status = "in_progress"]_vars
  BY <1>1
<1>3. QED
  BY <1>2, IInvHolds, PTL DEF Spec, SavedOnlyWhileOpen

\* The score a final submit stores counts the rows it leaves behind.
LEMMA FinalCommitCounts ==
    ASSUME IInv, NEW r \in Requests, FinalCommit(r)
    PROVE  /\ answers' = Graded(answers)
           /\ score' = Counted(answers')
           /\ status = "in_progress" /\ status' = "submitted"
<1>1. cache[r] = Snapshot /\ status = "in_progress"
  BY DEF FinalCommit, At, IInv, FinalSeesAll, LockedIsOpen, HoldsLock
<1>2. answers \in [Questions -> Rows]
  BY DEF IInv, TypeOK
<1>3. answers' = Graded(answers)
  BY <1>1, <1>2 DEF FinalCommit, StoreFinalized, Snapshot, Column, Graded, Rows
<1>4. score' = Counted(Graded(answers)) /\ status' = "submitted"
  BY <1>1 DEF FinalCommit, StoreFinalized, Snapshot, Column
<1>5. QED
  BY <1>1, <1>3, <1>4

\* No answer slips in between the read and the commit of a final submit.
THEOREM FinalCountsStored == Spec => FinalCountsStoredAnswers
<1>1. ASSUME IInv, [Next]_vars, NEW r \in Requests,
             Answers(r, "submitted"), op[r] = "final"
      PROVE  score' = Counted(answers')
  <2>1. Next
    BY <1>1 DEF vars, Answers
  <2>2. FinalCommit(r)
    BY <1>1, <2>1, SavedComesFromCommit DEF ForceCommit, ExpireCommit, At
  <2>3. QED
    BY <1>1, <2>2, FinalCommitCounts
<1>2. IInv /\ [Next]_vars =>
        [\A r \in Requests :
            Answers(r, "submitted") /\ op[r] = "final" => score' = Counted(answers')]_vars
  BY <1>1
<1>3. QED
  BY <1>2, IInvHolds, PTL DEF Spec, FinalCountsStoredAnswers

-----------------------------------------------------------------------------
(* All kinds of request: a session that has ended, but for late autosaves. *)

\* An autosave past its load has seen the session open.
AutosavesBelieve == \A r \in Requests :
    op[r] = "batch" /\ pc[r] \in {"loaded", "locked"} => cache[r].status = "in_progress"

\* No step of another request, and none of its own, changes the status that an
\* autosave has loaded.
LEMMA NextAutosavesBelieve ==
    ASSUME IInv, AutosavesBelieve, [Next]_vars
    PROVE  AutosavesBelieve'
<1> USE DEF IInv, TypeOK, AutosavesBelieve
<1>1. CASE UNCHANGED vars \/ Quiet
  BY <1>1 DEF vars, Quiet
<1>2. ASSUME NEW r \in Requests, SingleStep(r) \/ FinalStep(r) \/ KickStep(r)
      PROVE  AutosavesBelieve'
  BY <1>2 DEF SingleStep, SingleProbe, SingleLock, SingleCommit, FinalStep, FinalProbe,
              FinalLock, FinalCommit, KickStep, KickLoad, KickCommit,
              Arrive, Reject, At, TakeLock, Finish
<1>3. ASSUME NEW r \in Requests, BatchLoad(r)
      PROVE  AutosavesBelieve'
  BY <1>3 DEF BatchLoad, Arrive, Reject, Snapshot
<1>4. ASSUME NEW r \in Requests, BatchLock(r)
      PROVE  AutosavesBelieve'
  <2>1. cache[r] \in Snapshots /\ cache[r].status = "in_progress"
    BY <1>4 DEF BatchLock, At, EntitiesLoaded
  <2>2. cache'[r].status = cache[r].status /\ \A x \in Requests \ {r} : cache'[x] = cache[x]
    BY <1>4, <2>1 DEF BatchLock, Snapshots
  <2>3. op' = op /\ \A x \in Requests \ {r} : pc'[x] = pc[x]
    BY <1>4 DEF BatchLock, TakeLock
  <2>4. QED
    BY <2>1, <2>2, <2>3
<1>5. ASSUME NEW r \in Requests,
             BatchCommit(r) \/ BatchCommitFails(r) \/ BatchRetryLock(r) \/ BatchRetryCommit(r)
      PROVE  AutosavesBelieve'
  BY <1>5 DEF BatchCommit, BatchCommitFails, BatchRetryLock, BatchRetryCommit, At,
              TakeLock, Finish
<1>6. ASSUME NEW r \in Requests, ForceStep(r) \/ ExpireStep(r) \/ TerminateStep(r) \/ Fail(r)
      PROVE  AutosavesBelieve'
  BY <1>6 DEF ForceStep, ForceLoad, ForceCommit, ExpireStep, ExpireLoad,
              ExpireCommit, TerminateStep, TerminateLoad,
              TerminateScore, TerminateCommit, Fail, Arrive, Reject, At, Finish
<1>7. QED
  BY <1>1, <1>2, <1>3, <1>4, <1>5, <1>6 DEF Next, BatchStep

\* A request is answered when it ends, and not before.
Unanswered == \A r \in Requests : pc[r] # "done" => reply[r] = "none"

\* Only the last step of a request answers it.
LEMMA NextUnanswered ==
    ASSUME IInv, Unanswered, [Next]_vars
    PROVE  Unanswered'
<1> USE DEF IInv, TypeOK, Unanswered
<1>1. CASE UNCHANGED vars \/ Quiet
  BY <1>1 DEF vars, Quiet
<1>2. ASSUME NEW r \in Requests, SingleStep(r) \/ FinalStep(r) \/ KickStep(r)
      PROVE  Unanswered'
  BY <1>2 DEF SingleStep, SingleProbe, SingleLock, SingleCommit, FinalStep, FinalProbe,
              FinalLock, FinalCommit, KickStep, KickLoad, KickCommit,
              Arrive, Reject, At, TakeLock, Finish
<1>3. ASSUME NEW r \in Requests, BatchStep(r)
      PROVE  Unanswered'
  BY <1>3 DEF BatchStep, BatchLoad, BatchLock, BatchCommit, BatchCommitFails,
              BatchRetryLock, BatchRetryCommit, Arrive, Reject, At, TakeLock, Finish
<1>4. ASSUME NEW r \in Requests, ForceStep(r) \/ ExpireStep(r) \/ TerminateStep(r) \/ Fail(r)
      PROVE  Unanswered'
  BY <1>4 DEF ForceStep, ForceLoad, ForceCommit, ExpireStep, ExpireLoad,
              ExpireCommit, TerminateStep, TerminateLoad,
              TerminateScore, TerminateCommit, Fail, Arrive, Reject, At, Finish
<1>5. QED
  BY <1>1, <1>2, <1>3, <1>4 DEF Next

\* Whoever finalizes entities writes grades and no answer.
LEMMA FinalizedKeepsAnswers ==
    ASSUME IInv, NEW r \in Requests, StoreFinalized(r)
    PROVE  /\ \A q \in Questions : answers'[q].val = answers[q].val
           /\ status' \in {status, "submitted"}
BY DEF StoreFinalized, IInv, TypeOK, Rows, Column

\* Only the commits of answers write answers, and none opens the session again.
LEMMA AnswersWritten ==
    ASSUME IInv, [Next]_vars
    PROVE  \/ /\ \A q \in Questions : answers'[q].val = answers[q].val
              /\ status' \in {status, "submitted", "terminated"}
           \/ /\ status' = status
              /\ \E r \in Requests : SingleCommit(r) \/ BatchCommit(r) \/ BatchRetryCommit(r)
<1>1. CASE UNCHANGED vars \/ Quiet
  BY <1>1 DEF vars, Quiet
<1>2. ASSUME NEW r \in Requests, SingleStep(r) \/ BatchStep(r) \/ Fail(r)
      PROVE  \/ UNCHANGED <<status, answers>>
             \/ status' = status /\ (SingleCommit(r) \/ BatchCommit(r) \/ BatchRetryCommit(r))
  BY <1>2 DEF SingleStep, SingleProbe, SingleLock, SingleCommit, BatchStep, BatchLoad,
              BatchLock, BatchCommit, BatchCommitFails, BatchRetryLock, BatchRetryCommit,
              Fail, Arrive, Reject, TakeLock, session
<1>3. ASSUME NEW r \in Requests, FinalStep(r) \/ ForceStep(r) \/ ExpireStep(r)
      PROVE  UNCHANGED <<status, answers>> \/ StoreFinalized(r)
  BY <1>3 DEF FinalStep, FinalProbe, FinalLock, FinalCommit, ForceStep, ForceLoad,
              ForceCommit, ExpireStep, ExpireLoad, ExpireCommit,
              Arrive, Reject, TakeLock, session
<1>4. ASSUME NEW r \in Requests, TerminateStep(r) \/ KickStep(r)
      PROVE  answers' = answers /\ status' \in {status, "terminated"}
  BY <1>4 DEF TerminateStep, TerminateLoad, TerminateScore, TerminateCommit, KickStep,
              KickLoad, KickCommit, Arrive, Reject, session, Column
<1>5. QED
  BY <1>1, <1>2, <1>3, <1>4, FinalizedKeepsAnswers DEF Next

\* Whatever is still at work on a session that has ended, it stays ended, and the
\* only payloads that still change are those of autosaves that saw it open.
THEOREM EndedSheets == Spec => EndedSheetStands
<1>1. ASSUME IInv, AutosavesBelieve, Unanswered, [Next]_vars, status # "in_progress"
      PROVE  /\ status' # "in_progress"
             /\ \A q \in Questions :
                   answers'[q].val # answers[q].val => \E r \in Requests : Autosaves(r, q)
  <2>1. ASSUME NEW r \in Requests, SingleCommit(r) \/ BatchRetryCommit(r)
        PROVE  FALSE
    BY <1>1, <2>1 DEF SingleCommit, BatchRetryCommit, At, HoldsLock, IInv, LockedIsOpen
  <2>2. ASSUME NEW r \in Requests, BatchCommit(r), NEW q \in Questions,
               answers'[q].val # answers[q].val
        PROVE  Autosaves(r, q)
    <3>1. At(r, "batch", "locked") /\ cache[r].status = "in_progress"
      BY <1>1, <2>2 DEF BatchCommit, At, AutosavesBelieve
    <3>2. answers'[q] = Autosaved(cache[r].rows[q], work[r][q], answers[q])
      BY <2>2 DEF BatchCommit
    <3>3. answers'[q].val = work[r][q]
      BY <2>2, <3>2 DEF Autosaved
    <3>4. reply'[r] = "saved"
      BY <1>1, <2>2 DEF BatchCommit, Finish, IInv, TypeOK
    <3>5. reply[r] # "saved"
      BY <1>1, <3>1 DEF Unanswered, At
    <3>6. QED
      BY <3>1, <3>3, <3>4, <3>5 DEF Autosaves, Answers
  <2>3. QED
    BY <1>1, <2>1, <2>2, AnswersWritten
<1>2. Init => AutosavesBelieve /\ Unanswered
  BY DEF Init, AutosavesBelieve, Unanswered
<1>3. IInv /\ AutosavesBelieve /\ Unanswered /\ [Next]_vars =>
        /\ AutosavesBelieve' /\ Unanswered'
        /\ [status # "in_progress" =>
              /\ status' # "in_progress"
              /\ \A q \in Questions :
                    answers'[q].val # answers[q].val => \E r \in Requests : Autosaves(r, q)]_vars
  BY <1>1, NextAutosavesBelieve, NextUnanswered
<1>4. QED
  BY <1>2, <1>3, IInvHolds, PTL DEF Spec, EndedSheetStands

-----------------------------------------------------------------------------
(* The students' requests and kicks alone: LockedInv and the refinement.   *)

\* The invariant of the hot path holds before the first request.
LEMMA InitLockedInv == Init => LockedInv
BY ConstantsAssumption
   DEF Init, LockedInv, OnlyLockedOps, RowsAreGraded, TerminatedWhenSeen, At,
       KickedStaysTerminated, NoRow, Counted

\* Grading rows that are graded changes nothing.
LEMMA GradedIsIdentity ==
    ASSUME IInv, RowsAreGraded
    PROVE  Graded(answers) = answers
BY DEF Graded, RowsAreGraded, IInv, TypeOK, Rows

\* Steps of requests that leave the session and its answers alone.
LEMMA QuietStepKeepsLockedInv ==
    ASSUME LockedInv, UNCHANGED <<session, answers>>, OnlyLockedOps', TerminatedWhenSeen'
    PROVE  LockedInv'
BY DEF LockedInv, session, RowsAreGraded, KickedStaysTerminated, Counted

\* No step but an arrival changes what kind a request is.
LEMMA OpsStayLocked ==
    ASSUME Ops \subseteq LockedOps, IInv, OnlyLockedOps, [Next]_vars
    PROVE  OnlyLockedOps'
<1> USE DEF OnlyLockedOps, IInv, TypeOK
<1>1. CASE UNCHANGED vars \/ Quiet
  BY <1>1 DEF vars, Quiet
<1>2. ASSUME NEW r \in Requests, SingleStep(r) \/ FinalStep(r) \/ KickStep(r)
      PROVE  OnlyLockedOps'
  BY <1>2 DEF SingleStep, SingleProbe, SingleLock, SingleCommit, FinalStep, FinalProbe,
              FinalLock, FinalCommit, KickStep, KickLoad, KickCommit,
              Arrive, Reject, TakeLock, Finish
<1>3. ASSUME NEW r \in Requests, BatchStep(r)
      PROVE  OnlyLockedOps'
  BY <1>3 DEF BatchStep, BatchLoad, BatchLock, BatchCommit, BatchCommitFails,
              BatchRetryLock, BatchRetryCommit, Arrive, Reject, TakeLock, Finish
<1>4. ASSUME NEW r \in Requests, ForceStep(r) \/ ExpireStep(r) \/ TerminateStep(r) \/ Fail(r)
      PROVE  OnlyLockedOps'
  BY <1>4 DEF ForceStep, ForceLoad, ForceCommit, ExpireStep, ExpireLoad,
              ExpireCommit, TerminateStep, TerminateLoad,
              TerminateScore, TerminateCommit, Fail, Arrive, Reject, Finish
<1>5. QED
  BY <1>1, <1>2, <1>3, <1>4 DEF Next

\* A kick that is loaded after a step was loaded before it, or by it.
LEMMA LoadedKicks ==
    ASSUME Ops \subseteq LockedOps, IInv, OnlyLockedOps, [Next]_vars,
           NEW r \in Requests, At(r, "kick", "loaded")'
    PROVE  \/ At(r, "kick", "loaded") /\ cache'[r] = cache[r]
           \/ cache'[r].status = status /\ status' = status
<1> USE DEF IInv, TypeOK, At
<1>1. CASE UNCHANGED vars \/ Quiet
  BY <1>1 DEF vars, Quiet
<1>2. ASSUME NEW s \in Requests, SingleStep(s) \/ FinalStep(s)
      PROVE  At(r, "kick", "loaded") /\ cache'[r] = cache[r]
  BY <1>2 DEF SingleStep, SingleProbe, SingleLock, SingleCommit, FinalStep, FinalProbe,
              FinalLock, FinalCommit, Arrive, Reject, TakeLock, Finish
<1>3. ASSUME NEW s \in Requests, KickLoad(s)
      PROVE  \/ At(r, "kick", "loaded") /\ cache'[r] = cache[r]
             \/ cache'[r].status = status /\ status' = status
  BY <1>3 DEF KickLoad, Arrive, Snapshot, session
<1>4. ASSUME NEW s \in Requests, KickCommit(s) \/ Fail(s)
      PROVE  At(r, "kick", "loaded") /\ cache'[r] = cache[r]
  BY <1>4 DEF KickCommit, Fail, Finish
<1>5. ASSUME NEW s \in Requests, BatchStep(s)
      PROVE  FALSE
  BY <1>5 DEF BatchStep, BatchLoad, BatchLock, BatchCommit, BatchCommitFails,
              BatchRetryLock, BatchRetryCommit, Arrive, Reject, OnlyLockedOps, LockedOps
<1>6. ASSUME NEW s \in Requests, ForceStep(s) \/ ExpireStep(s) \/ TerminateStep(s)
      PROVE  FALSE
  BY <1>6 DEF ForceStep, ForceLoad, ForceCommit, ExpireStep, ExpireLoad,
              ExpireCommit, TerminateStep, TerminateLoad,
              TerminateScore, TerminateCommit, Arrive, Reject, OnlyLockedOps, LockedOps
<1>7. QED
  BY <1>1, <1>2, <1>3, <1>4, <1>5, <1>6 DEF Next, KickStep

\* With requests of LockedOps alone, a step writes to the session only as one
\* of three commits.
LEMMA WritesOfLockedOps ==
    ASSUME Ops \subseteq LockedOps, IInv, OnlyLockedOps, [Next]_vars
    PROVE  \/ UNCHANGED <<session, answers>>
           \/ \E r \in Requests : SingleCommit(r) \/ FinalCommit(r) \/ KickCommit(r)
<1>1. CASE UNCHANGED vars \/ Quiet
  BY <1>1 DEF vars, Quiet, session
<1>2. ASSUME NEW r \in Requests, SingleStep(r) \/ FinalStep(r) \/ KickStep(r)
      PROVE  \/ UNCHANGED <<session, answers>>
             \/ SingleCommit(r) \/ FinalCommit(r) \/ KickCommit(r)
  BY <1>2 DEF SingleStep, SingleProbe, SingleLock, FinalStep, FinalProbe, FinalLock,
              KickStep, KickLoad, Arrive, Reject, TakeLock
<1>3. ASSUME NEW r \in Requests, BatchStep(r)
      PROVE  UNCHANGED <<session, answers>>
  BY <1>3 DEF BatchStep, BatchLoad, BatchLock, BatchCommit, BatchCommitFails,
              BatchRetryLock, BatchRetryCommit, Arrive, Reject, At, OnlyLockedOps, LockedOps
<1>4. ASSUME NEW r \in Requests, ForceStep(r) \/ ExpireStep(r) \/ TerminateStep(r) \/ Fail(r)
      PROVE  UNCHANGED <<session, answers>>
  BY <1>4 DEF ForceStep, ForceLoad, ForceCommit, ExpireStep, ExpireLoad,
              ExpireCommit, TerminateStep, TerminateLoad,
              TerminateScore, TerminateCommit, Fail, Arrive, Reject, At,
              OnlyLockedOps, LockedOps
<1>5. QED
  BY <1>1, <1>2, <1>3, <1>4 DEF Next

\* A single answer is stored graded, on a session that is open.
LEMMA SingleCommitStores ==
    ASSUME IInv, NEW r \in Requests, SingleCommit(r)
    PROVE  /\ status = "in_progress" /\ UNCHANGED session
           /\ \A q \in Questions :
                 \/ answers'[q] = answers[q]
                 \/ \E v \in Values : answers'[q] = [val |-> v, grade |-> v]
BY DEF SingleCommit, At, InPayload, IInv, LockedIsOpen, HoldsLock, TypeOK, Payloads

\* With requests of LockedOps alone, no step breaks the invariant of the hot path.
LEMMA NextLockedInv ==
    ASSUME Ops \subseteq LockedOps, IInv, LockedInv, [Next]_vars
    PROVE  LockedInv'
<1>1. OnlyLockedOps'
  BY OpsStayLocked DEF LockedInv
<1>2. ASSUME status = "terminated" => status' = "terminated"
      PROVE  TerminatedWhenSeen'
  BY <1>2, LoadedKicks DEF LockedInv, TerminatedWhenSeen, At
<1>3. CASE UNCHANGED <<session, answers>>
  BY <1>1, <1>2, <1>3, QuietStepKeepsLockedInv DEF session
<1>4. ASSUME NEW r \in Requests, SingleCommit(r)
      PROVE  LockedInv'
  <2>1. ASSUME NEW q \in Questions
        PROVE  answers'[q].grade =
                  IF answers'[q].val = NoAnswer THEN Ungraded ELSE answers'[q].val
    <3>1. CASE answers'[q] = answers[q]
      BY <3>1 DEF LockedInv, RowsAreGraded
    <3>2. CASE \E v \in Values : answers'[q] = [val |-> v, grade |-> v]
      BY <3>2, ConstantsAssumption
    <3>3. QED
      BY <1>4, <3>1, <3>2, SingleCommitStores
  <2>2. RowsAreGraded'
    BY <2>1 DEF RowsAreGraded
  <2>3. QED
    BY <1>1, <1>2, <1>4, <2>2, SingleCommitStores
       DEF LockedInv, session, KickedStaysTerminated
<1>5. ASSUME NEW r \in Requests, FinalCommit(r)
      PROVE  LockedInv'
  <2>1. answers' = answers
    BY <1>5, FinalCommitCounts, GradedIsIdentity DEF LockedInv
  <2>2. byAdmin' = byAdmin
    BY <1>5 DEF FinalCommit, StoreFinalized
  <2>3. RowsAreGraded'
    BY <2>1 DEF LockedInv, RowsAreGraded
  <2>4. QED
    BY <1>1, <1>2, <1>5, <2>2, <2>3, FinalCommitCounts
       DEF LockedInv, KickedStaysTerminated
<1>6. ASSUME NEW r \in Requests, KickCommit(r)
      PROVE  LockedInv'
  <2>1. status' = "terminated"
    BY <1>6 DEF KickCommit, At, Column, LockedInv, TerminatedWhenSeen
  <2>2. QED
    BY <1>1, <1>2, <1>6, <2>1 DEF KickCommit, LockedInv, RowsAreGraded, KickedStaysTerminated
<1>7. QED
  BY <1>3, <1>4, <1>5, <1>6, WritesOfLockedOps DEF LockedInv

\* If the hot path and kicks are the only writers, the stored answers of a
\* submitted session are the ones its score counts, for ever.
THEOREM SubmittedScore ==
    ASSUME Ops \subseteq LockedOps
    PROVE  Spec => []SubmittedScoreIsOfStoredAnswers
<1>1. IInv /\ LockedInv /\ [Next]_vars => LockedInv'
  BY NextLockedInv
<1>2. IInv /\ LockedInv => SubmittedScoreIsOfStoredAnswers
  BY DEF LockedInv, SubmittedScoreIsOfStoredAnswers, RowsAreGraded, Counted
<1>3. QED
  BY <1>1, <1>2, InitLockedInv, IInvHolds, PTL DEF Spec

\* ... and a kicked session is never handed in by a submit under way.
THEOREM KickedStays ==
    ASSUME Ops \subseteq LockedOps
    PROVE  Spec => []KickedStaysTerminated
<1>1. IInv /\ LockedInv /\ [Next]_vars => LockedInv'
  BY NextLockedInv
<1>2. LockedInv => KickedStaysTerminated
  BY DEF LockedInv
<1>3. QED
  BY <1>1, <1>2, InitLockedInv, IInvHolds, PTL DEF Spec

-----------------------------------------------------------------------------
(* Refinement: every commit is one step of the abstract paper.             *)

\* A session that has just been started is an open, empty paper.
LEMMA InitRefines == Init => Paper!Init
BY DEF Init, Paper!Init, NoRow

\* A step of the hot path is a step of the abstract paper, or leaves it alone.
LEMMA StepRefines ==
    ASSUME Ops \subseteq LockedOps, IInv, LockedInv, [Next]_vars
    PROVE  [Paper!Next]_(Paper!vars)
<1>1. CASE UNCHANGED <<session, answers>>
  BY <1>1 DEF session, Paper!vars
<1>2. ASSUME NEW r \in Requests, SingleCommit(r)
      PROVE  [Paper!Next]_(Paper!vars)
  <2>1. PICK q \in Questions, v \in Values : work[r] = [NoWork EXCEPT ![q] = v]
    BY <1>2 DEF SingleCommit, At, LockedInv, OnlyLockedOps
  <2>2. answers' = [answers EXCEPT ![q] = [val |-> v, grade |-> v]]
    BY <1>2, <2>1, ConstantsAssumption
       DEF SingleCommit, InPayload, NoWork, IInv, TypeOK
  <2>3. PICK new \in Paper!Sheets : new = work[r]
    BY <2>1 DEF NoWork, Paper!Sheets
  <2>4. \A p \in Questions :
           answers'[p].val = IF new[p] = NoAnswer THEN answers[p].val ELSE new[p]
    BY <2>1, <2>2, <2>3, ConstantsAssumption DEF NoWork, IInv, TypeOK
  <2>5. Paper!Save(new)
    BY <1>2, <2>4, SingleCommitStores DEF Paper!Save, session
  <2>6. QED
    BY <2>5 DEF Paper!Next
<1>3. ASSUME NEW r \in Requests, FinalCommit(r)
      PROVE  Paper!HandIn
  <2>1. /\ answers' = answers
        /\ status = "in_progress" /\ status' = "submitted"
        /\ score' = Counted(answers) /\ score' # NoScore
    BY <1>3, FinalCommitCounts, GradedIsIdentity, GradedType, ConstantsAssumption
       DEF LockedInv, IInv, TypeOK
  <2>2. \A q \in Questions :
           answers[q].val = IF score'[q] = Ungraded THEN NoAnswer ELSE score'[q]
    BY <2>1, ConstantsAssumption
       DEF LockedInv, RowsAreGraded, Counted, IInv, TypeOK, Rows
  <2>3. QED
    BY <2>1, <2>2 DEF Paper!HandIn
<1>4. ASSUME NEW r \in Requests, KickCommit(r)
      PROVE  Paper!Close
  <2>1. status' = "terminated"
    BY <1>4 DEF KickCommit, At, Column, LockedInv, TerminatedWhenSeen
  <2>2. QED
    BY <1>4, <2>1 DEF KickCommit, Paper!Close
<1>5. QED
  BY <1>1, <1>2, <1>3, <1>4, WritesOfLockedOps DEF LockedInv, Paper!Next

\* The hot path implements the abstract paper: saves while it is open, one
\* hand-in that counts what is stored, nothing afterwards.
THEOREM Refinement ==
    ASSUME Ops \subseteq LockedOps
    PROVE  Spec => PaperSpec
<1>1. IInv /\ LockedInv /\ [Next]_vars => LockedInv' /\ [Paper!Next]_(Paper!vars)
  BY NextLockedInv, StepRefines
<1>2. QED
  BY <1>1, InitRefines, InitLockedInv, IInvHolds, PTL DEF Spec, PaperSpec, Paper!Spec

-----------------------------------------------------------------------------
(* What fails with autosaves, holds without them.                          *)

\* A request is of a kind that arrives in this instance.
OpsArrived == \A r \in Requests : op[r] \in Ops \union {"none"}

\* No step but an arrival gives a request its kind.
LEMMA NextOpsArrived ==
    ASSUME IInv, OpsArrived, [Next]_vars
    PROVE  OpsArrived'
<1> USE DEF OpsArrived, IInv, TypeOK
<1>1. CASE UNCHANGED vars \/ Quiet
  BY <1>1 DEF vars, Quiet
<1>2. ASSUME NEW r \in Requests, SingleStep(r) \/ FinalStep(r) \/ KickStep(r)
      PROVE  OpsArrived'
  BY <1>2 DEF SingleStep, SingleProbe, SingleLock, SingleCommit, FinalStep, FinalProbe,
              FinalLock, FinalCommit, KickStep, KickLoad, KickCommit,
              Arrive, Reject, TakeLock, Finish
<1>3. ASSUME NEW r \in Requests, BatchStep(r)
      PROVE  OpsArrived'
  BY <1>3 DEF BatchStep, BatchLoad, BatchLock, BatchCommit, BatchCommitFails,
              BatchRetryLock, BatchRetryCommit, Arrive, Reject, TakeLock, Finish
<1>4. ASSUME NEW r \in Requests, ForceStep(r) \/ ExpireStep(r) \/ TerminateStep(r) \/ Fail(r)
      PROVE  OpsArrived'
  BY <1>4 DEF ForceStep, ForceLoad, ForceCommit, ExpireStep, ExpireLoad,
              ExpireCommit, TerminateStep, TerminateLoad,
              TerminateScore, TerminateCommit, Fail, Arrive, Reject, Finish
<1>5. QED
  BY <1>1, <1>2, <1>3, <1>4 DEF Next

\* Every row carries the grade of its own answer ...
OwnGrades(rows) == \A q \in Questions :
    rows[q].grade = IF rows[q].val = NoAnswer THEN Ungraded ELSE rows[q].val

\* ... the stored ones and those that requests have loaded.
GradedInv ==
    /\ OpsArrived
    /\ OwnGrades(answers)
    /\ \A r \in Requests : cache[r] # NoSnapshot => OwnGrades(cache[r].rows)

\* Grading finds nothing to do, and its commit changes no row.
LEMMA FinalizedKeepsGrades ==
    ASSUME IInv, GradedInv, NEW r \in Requests, StoreFinalized(r), cache[r] \in Snapshots
    PROVE  answers' = answers
<1>1. OwnGrades(cache[r].rows) /\ cache[r].rows \in [Questions -> Rows]
  BY ConstantsAssumption DEF GradedInv, Snapshots
<1>2. Graded(cache[r].rows) = cache[r].rows
  BY <1>1 DEF Graded, OwnGrades, Rows
<1>3. QED
  BY <1>2 DEF StoreFinalized, Column, IInv, TypeOK, Rows

\* Without autosaves, what a request loads and what it stores carries its grade.
LEMMA NextGradedInv ==
    ASSUME "batch" \notin Ops, IInv, GradedInv, [Next]_vars
    PROVE  GradedInv'
<1>1. OpsArrived'
  BY NextOpsArrived DEF GradedInv
<1>2. OwnGrades(Snapshot.rows)
  BY DEF GradedInv, Snapshot
<1> DEFINE Loads(r) == \A x \in Requests :
              \/ cache'[x] \in {cache[x], NoSnapshot}
              \/ x = r /\ cache'[x] = Snapshot
<1>3. ASSUME answers' = answers, NEW r \in Requests, Loads(r)
      PROVE  GradedInv'
  BY <1>1, <1>2, <1>3 DEF GradedInv, OwnGrades
<1>4. CASE UNCHANGED vars \/ Quiet
  BY <1>1, <1>4 DEF vars, Quiet, GradedInv, OwnGrades
<1>5. ASSUME NEW r \in Requests, SingleCommit(r)
      PROVE  GradedInv'
  <2>1. ASSUME NEW q \in Questions
        PROVE  answers'[q].grade =
                  IF answers'[q].val = NoAnswer THEN Ungraded ELSE answers'[q].val
    <3>1. CASE answers'[q] = answers[q]
      BY <3>1 DEF GradedInv, OwnGrades
    <3>2. CASE \E v \in Values : answers'[q] = [val |-> v, grade |-> v]
      BY <3>2, ConstantsAssumption
    <3>3. QED
      BY <1>5, <3>1, <3>2, SingleCommitStores
  <2>2. \A x \in Requests : cache'[x] \in {cache[x], NoSnapshot}
    BY <1>5 DEF SingleCommit, Finish, IInv, TypeOK
  <2>3. QED
    BY <1>1, <2>1, <2>2 DEF GradedInv, OwnGrades
<1>6. ASSUME NEW r \in Requests,
             \/ SingleProbe(r) \/ SingleLock(r) \/ FinalProbe(r) \/ FinalLock(r)
             \/ KickStep(r) \/ ForceLoad(r) \/ ExpireLoad(r) \/ TerminateLoad(r)
             \/ TerminateCommit(r) \/ Fail(r)
      PROVE  GradedInv'
  <2>1. Loads(r) /\ answers' = answers
    BY <1>6 DEF SingleProbe, SingleLock, FinalProbe, FinalLock, KickStep, KickLoad,
                KickCommit, ForceLoad, ExpireLoad, TerminateLoad, TerminateCommit, Fail,
                Arrive, Reject, TakeLock, Finish, IInv, TypeOK
  <2>2. QED
    BY <1>3, <2>1
<1>7. ASSUME NEW r \in Requests, FinalCommit(r) \/ ForceCommit(r) \/ ExpireCommit(r)
      PROVE  GradedInv'
  <2>1. cache[r] \in Snapshots /\ StoreFinalized(r)
    BY <1>7 DEF FinalCommit, ForceCommit, ExpireCommit, At, IInv, EntitiesLoaded
  <2>2. Loads(r)
    BY <1>7 DEF FinalCommit, ForceCommit, ExpireCommit, Finish, IInv, TypeOK
  <2>3. QED
    BY <1>3, <2>1, <2>2, FinalizedKeepsGrades
<1>8. ASSUME NEW r \in Requests, TerminateScore(r)
      PROVE  GradedInv'
  <2>1. cache[r] \in Snapshots /\ answers' = answers
    BY <1>8 DEF TerminateScore, At, IInv, EntitiesLoaded
  <2>2. OwnGrades(Reread(cache[r].rows))
    BY <2>1, ConstantsAssumption DEF GradedInv, OwnGrades, Reread
  <2>3. /\ cache'[r].rows = Reread(cache[r].rows)
        /\ \A x \in Requests \ {r} : cache'[x] = cache[x]
    BY <1>8, <2>1 DEF TerminateScore, IInv, TypeOK, Snapshots
  <2>4. QED
    BY <1>1, <2>1, <2>2, <2>3 DEF GradedInv, OwnGrades
<1>9. ASSUME NEW r \in Requests, BatchStep(r)
      PROVE  FALSE
  BY <1>9 DEF BatchStep, BatchLoad, BatchLock, BatchCommit, BatchCommitFails,
              BatchRetryLock, BatchRetryCommit, Arrive, Reject, At, GradedInv, OpsArrived
<1>10. QED
  BY <1>4, <1>5, <1>6, <1>7, <1>8, <1>9
     DEF Next, SingleStep, FinalStep, ForceStep, ExpireStep, TerminateStep

\* The wrong grades come from autosave alone: among all other requests, staff and
\* scheduler included, every answer of a submitted session has its own grade.
THEOREM GradedOnSubmit ==
    ASSUME "batch" \notin Ops
    PROVE  Spec => EveryAnswerIsGradedOnSubmit
<1>1. Init => GradedInv
  BY ConstantsAssumption DEF Init, GradedInv, OpsArrived, OwnGrades, NoRow
<1>2. IInv /\ GradedInv /\ [Next]_vars =>
        /\ GradedInv'
        /\ [status = "in_progress" /\ status' = "submitted" =>
              \A q \in Questions :
                  answers'[q].val # NoAnswer => answers'[q].grade = answers'[q].val]_vars
  <2>1. GradedInv' => \A q \in Questions :
            answers'[q].val # NoAnswer => answers'[q].grade = answers'[q].val
    BY DEF GradedInv, OwnGrades
  <2>2. QED
    BY <2>1, NextGradedInv
<1>3. QED
  BY <1>1, <1>2, IInvHolds, PTL DEF Spec, EveryAnswerIsGradedOnSubmit

\* The late writes come from autosave and staff: if the student's submit-answer
\* and final submit are the only requests, nothing touches a submitted session.
THEOREM SubmittedStands ==
    ASSUME Ops \subseteq {"single", "final"}
    PROVE  Spec => LateWritesLeaveResultsAlone
<1>1. Ops \subseteq LockedOps
  BY DEF LockedOps
<1>2. Init => OpsArrived
  BY DEF Init, OpsArrived
<1>3. ASSUME IInv, LockedInv, OpsArrived, [Next]_vars, status = "submitted"
      PROVE  UNCHANGED <<status, answers, score>>
  <2>1. ASSUME NEW r \in Requests, SingleCommit(r) \/ FinalCommit(r) \/ KickCommit(r)
        PROVE  FALSE
    BY <1>3, <2>1, SingleCommitStores, FinalCommitCounts
       DEF KickCommit, At, OpsArrived
  <2>2. QED
    BY <1>1, <1>3, <2>1, WritesOfLockedOps DEF LockedInv, session
<1>4. IInv /\ LockedInv /\ OpsArrived /\ [Next]_vars =>
        /\ LockedInv' /\ OpsArrived'
        /\ [status = "submitted" => UNCHANGED <<status, answers, score>>]_vars
  BY <1>1, <1>3, NextLockedInv, NextOpsArrived
<1>5. QED
  BY <1>2, <1>4, InitLockedInv, IInvHolds, PTL DEF Spec, LateWritesLeaveResultsAlone

-----------------------------------------------------------------------------
(* Nobody waits for a lock that is never freed: what EveryRequestIsAnswered *)
(* asks of the states, for all constants.  That the server takes the steps  *)
(* is the fairness of FairSpec.                                             *)

\* The steps of Serve are one for each stage of a kind: none has been left out.
StageFits(r) ==
    /\ pc[r] = "probed" => op[r] \in {"single", "final"}
    /\ pc[r] = "loaded" => op[r] \in {"batch", "force", "expire", "terminate", "kick"}
    /\ At(r, "batch", "loaded") => cache[r].status = "in_progress"
    /\ pc[r] = "locked" => op[r] \in {"single", "batch", "final"}
    /\ pc[r] \in {"retry", "relocked"} => op[r] = "batch"
    /\ pc[r] = "scored" => op[r] = "terminate"

StagesFit == \A r \in Requests : StageFits(r)

\* When a step of Serve can be taken: a commit under the lock at any time, ...
CommitsUnderLock(r) ==
    \/ At(r, "single", "locked") \/ At(r, "final", "locked")
    \/ At(r, "batch", "locked") \/ At(r, "batch", "relocked")

\* ... and all the others when nobody holds the lock.
WaitsForLock(r) ==
    \/ At(r, "single", "probed") \/ At(r, "final", "probed")
    \/ At(r, "batch", "loaded") /\ cache[r].status = "in_progress"
    \/ At(r, "batch", "retry")
    \/ At(r, "force", "loaded") \/ At(r, "expire", "loaded") \/ At(r, "kick", "loaded")
    \/ At(r, "terminate", "loaded") \/ At(r, "terminate", "scored")

CanBeServed(r) == CommitsUnderLock(r) \/ (lock = NoRequest /\ WaitsForLock(r))

\* A step moves one request, from a stage of its kind to another one.
LEMMA NextStagesFit ==
    ASSUME IInv, StagesFit, [Next]_vars
    PROVE  StagesFit'
<1> DEFINE Others(r) == \A x \in Requests \ {r} :
              pc'[x] = pc[x] /\ op'[x] = op[x] /\ cache'[x] = cache[x]
<1> USE DEF IInv, TypeOK
<1>1. ASSUME NEW r \in Requests, Others(r), StageFits(r)'
      PROVE  StagesFit'
  BY <1>1 DEF StagesFit, StageFits, At
<1>2. CASE UNCHANGED vars \/ Quiet
  BY <1>2 DEF vars, Quiet, StagesFit, StageFits, At
<1>3. ASSUME NEW r \in Requests, SingleStep(r) \/ FinalStep(r)
      PROVE  Others(r) /\ StageFits(r)'
  BY <1>3 DEF SingleStep, SingleProbe, SingleLock, SingleCommit, FinalStep, FinalProbe, FinalLock,
              FinalCommit, Arrive, Reject, TakeLock, Finish, StageFits, At
<1>4. ASSUME NEW r \in Requests, BatchLoad(r)
      PROVE  Others(r) /\ StageFits(r)'
  BY <1>4 DEF BatchLoad, Arrive, Reject, Snapshot, StageFits, At
<1>5. ASSUME NEW r \in Requests,
             \/ BatchLock(r) \/ BatchCommit(r) \/ BatchCommitFails(r)
             \/ BatchRetryLock(r) \/ BatchRetryCommit(r)
      PROVE  Others(r) /\ StageFits(r)'
  BY <1>5 DEF BatchLock, BatchCommit, BatchCommitFails, BatchRetryLock, BatchRetryCommit,
              TakeLock, Finish, StageFits, At
<1>6. ASSUME NEW r \in Requests, ForceStep(r) \/ ExpireStep(r)
      PROVE  Others(r) /\ StageFits(r)'
  BY <1>6 DEF ForceStep, ForceLoad, ForceCommit, ExpireStep, ExpireLoad, ExpireCommit,
              Arrive, Reject, Finish, StageFits, At
<1>7. ASSUME NEW r \in Requests, TerminateStep(r)
      PROVE  Others(r) /\ StageFits(r)'
  BY <1>7 DEF TerminateStep, TerminateLoad, TerminateScore, TerminateCommit,
              Arrive, Reject, Finish, StageFits, At
<1>8. ASSUME NEW r \in Requests, KickStep(r) \/ Fail(r)
      PROVE  Others(r) /\ StageFits(r)'
  BY <1>8 DEF KickStep, KickLoad, KickCommit, Fail, Arrive, Reject, Finish, StageFits, At
<1>9. QED
  BY <1>1, <1>2, <1>3, <1>4, <1>5, <1>6, <1>7, <1>8 DEF Next, BatchStep

\* As long as a request is unanswered the server can serve it or another one:
\* whoever holds the session's lock needs nothing more to commit, and no way
\* out of a request, failed, refused or crashed, keeps the lock.
THEOREM SomebodyIsServed ==
    Spec => []((\E r \in Requests : pc[r] \notin {"idle", "done"})
                  => \E r \in Requests : CanBeServed(r))
<1>1. Init => StagesFit
  BY DEF Init, StagesFit, StageFits, At
<1>2. ASSUME IInv, StagesFit, NEW r \in Requests, pc[r] \notin {"idle", "done"}
      PROVE  \E x \in Requests : CanBeServed(x)
  <2>1. CASE lock = NoRequest
    <3>1. ~HoldsLock(r)
      BY <1>2, <2>1, ConstantsAssumption DEF IInv, LockIsExclusive
    <3>2. pc[r] \in {"probed", "loaded", "retry", "scored"}
      BY <1>2, <3>1 DEF IInv, TypeOK, Stages, HoldsLock
    <3>3. WaitsForLock(r)
      BY <1>2, <3>2 DEF StagesFit, StageFits, WaitsForLock, At
    <3> QED
      BY <2>1, <3>3 DEF CanBeServed
  <2>2. CASE lock \in Requests
    <3>1. pc[lock] \in {"locked", "relocked"}
      BY <1>2, <2>2 DEF IInv, LockIsExclusive, HoldsLock
    <3>2. CommitsUnderLock(lock)
      BY <1>2, <2>2, <3>1 DEF StagesFit, StageFits, CommitsUnderLock, At
    <3> QED
      BY <2>2, <3>2 DEF CanBeServed
  <2> QED
    BY <1>2, <2>1, <2>2 DEF IInv, TypeOK
<1>3. IInv /\ StagesFit => ((\E r \in Requests : pc[r] \notin {"idle", "done"})
                               => \E r \in Requests : CanBeServed(r))
  BY <1>2
<1>4. IInv /\ StagesFit /\ [Next]_vars => StagesFit'
  BY NextStagesFit
<1>5. QED
  BY <1>1, <1>3, <1>4, IInvHolds, PTL DEF Spec
=============================================================================
