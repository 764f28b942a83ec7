----------------------- MODULE SessionLifecycleProofs -----------------------
(***************************************************************************)
(* Theorems about SessionLifecycle, for all sessions, devices, schedulers  *)
(* and attempts, and, where not said otherwise, all clients of staff.      *)
(***************************************************************************)
EXTENDS SessionLifecycle, FiniteSetTheorems, TLAPS

\* The columns of the merged row, one by one.
LEMMA MergeFacts ==
    ASSUME NEW loaded \in Rows, NEW new \in Rows, NEW current \in Rows
    PROVE  LET row == Merge(loaded, new, current) IN
           /\ row \in Rows
           /\ row.status = IF new.status # loaded.status THEN new.status ELSE current.status
           /\ row.ended = IF new.ended # loaded.ended THEN new.ended ELSE current.ended
           /\ row.byAdmin = IF new.byAdmin # loaded.byAdmin THEN new.byAdmin ELSE current.byAdmin
<1>1. Merge(loaded, new, current) =
         [status |-> IF new.status # loaded.status THEN new.status ELSE current.status,
          ended |-> IF new.ended # loaded.ended THEN new.ended ELSE current.ended,
          byAdmin |-> IF new.byAdmin # loaded.byAdmin THEN new.byAdmin ELSE current.byAdmin]
  BY DEF Merge, Rows
<1> QED
  BY <1>1 DEF Rows

LEMMA RowFacts ==
    ASSUME NEW row \in Rows
    PROVE  /\ Submitted(row) \in Rows
           /\ [row EXCEPT !.ended = FALSE] \in Rows
           /\ [row EXCEPT !.ended = FALSE].status = row.status
           /\ [row EXCEPT !.ended = FALSE].byAdmin = row.byAdmin
           /\ [row EXCEPT !.ended = FALSE].ended = FALSE
           /\ Terminated \in Rows /\ Opened \in Rows /\ Unused \in Rows
<1>1. Submitted(row) \in Rows
  BY DEF Submitted, Rows, Statuses
<1>2. [row EXCEPT !.ended = FALSE] \in Rows
  BY DEF Rows
<1>3. [row EXCEPT !.ended = FALSE].status = row.status
  BY DEF Rows
<1>4. [row EXCEPT !.ended = FALSE].byAdmin = row.byAdmin
  BY DEF Rows
<1>5. [row EXCEPT !.ended = FALSE].ended = FALSE
  BY DEF Rows
<1>6. Terminated \in Rows /\ Opened \in Rows /\ Unused \in Rows
  BY DEF Rows, Statuses, Terminated, Opened, Unused
<1> QED
  BY <1>1, <1>2, <1>3, <1>4, <1>5, <1>6

LEMMA ConstantRows ==
    /\ Unused \in Rows /\ Unused.status = "unused"
    /\ Deleted \in Rows /\ Deleted.status = "deleted"
    /\ Opened \in Rows /\ Opened.status = "in_progress"
    /\ Terminated \in Rows /\ Terminated.status = "terminated"
  BY DEF Unused, Deleted, Opened, Terminated, Rows, Statuses

\* What a commit of a loaded entity comes to.
LEMMA CommitFacts ==
    ASSUME TypeOK, WorkFits, KindsFit, NEW h \in Handlers,
           \/ KickCommit(h) \/ TerminateCommit(h) \/ ForceCommit(h)
           \/ ResetCommit(h) \/ ReopenCommit(h) \/ ExpireCommit(h)
    PROVE  /\ target[h] \in Sessions /\ rows[target[h]] \in Rows /\ Entity(h) \in Rows
           /\ rows[target[h]].status # "unused"
           /\ Finish(h)
           /\ \E loaded \in {Entity(h), [Entity(h) EXCEPT !.ended = FALSE]},
                 new \in {Terminated, Submitted(Entity(h)), Opened},
                 decides \in BOOLEAN :
                 /\ Update(h, target[h], loaded, new, decides)
                 /\ new = Terminated => decides
                 /\ new = Opened => ResetCommit(h) \/ ReopenCommit(h)
                 /\ new = Opened => loaded = Entity(h)
<1>1. at[h] \in {"loaded", "allowed"}
  BY DEF KickCommit, TerminateCommit, ForceCommit, ResetCommit, ReopenCommit, ExpireCommit, Loaded
<1>2. /\ target[h] \in Sessions /\ rows[target[h]] \in Rows /\ Entity(h) \in Rows
      /\ rows[target[h]].status # "unused"
  BY <1>1 DEF TypeOK, WorkFits, Entity
<1>3. /\ Opened.status = "in_progress" /\ Submitted(Entity(h)).status = "submitted"
      /\ Terminated.status = "terminated"
  BY ConstantRows DEF Submitted
<1> QED
  BY <1>2, <1>3
  DEF KickCommit, TerminateCommit, ForceCommit, ResetCommit, ReopenCommit, ExpireCommit,
      Save, SaveEnd

-----------------------------------------------------------------------------
(* Types, and the places and rows of the handlers.                         *)

TypeInv == TypeOK /\ KindsFit /\ WorkFits

LEMMA InitTypes == ASSUME Init PROVE TypeInv
<1>1. Unused \in Rows /\ Unused.status = "unused"
  BY ConstantRows
<1>2. kind \in [Handlers -> Kinds]
  BY DEF Init, Kinds
<1>3. TypeOK
  BY <1>1, <1>2 DEF Init, TypeOK, Places
<1> QED
  BY <1>3 DEF Init, TypeInv, KindsFit, WorkFits, Handlers

\* No step brings a row back to "unused".
LEMMA CommitRows ==
    ASSUME TypeOK, WorkFits, KindsFit, NEW h \in Handlers,
           \/ KickCommit(h) \/ TerminateCommit(h) \/ ForceCommit(h)
           \/ ResetCommit(h) \/ ReopenCommit(h) \/ ExpireCommit(h)
    PROVE  \/ rows' = rows /\ decided' = decided
           \/ \E row \in Rows :
                /\ rows' = [rows EXCEPT ![target[h]] = row]
                /\ row.status \notin {"unused", "deleted"}
                /\ rows[target[h]].status \notin {"unused", "deleted"}
                /\ ~OpensASecond(target[h], row)
                /\ decided \subseteq decided' /\ decided' \subseteq decided \union {target[h]}
                /\ row.status = "terminated" =>
                      rows[target[h]].status = "terminated" \/ target[h] \in decided'
                /\ row.status = "in_progress" =>
                      \/ rows[target[h]].status = "in_progress"
                      \/ ReopenCommit(h)
                      \/ ResetCommit(h) /\ Entity(h).status # "in_progress"
<1>1. PICK loaded \in {Entity(h), [Entity(h) EXCEPT !.ended = FALSE]},
           new \in {Terminated, Submitted(Entity(h)), Opened},
           decides \in BOOLEAN :
           /\ Update(h, target[h], loaded, new, decides)
           /\ new = Terminated => decides
           /\ new = Opened => ResetCommit(h) \/ ReopenCommit(h)
  BY CommitFacts
<1>2. /\ target[h] \in Sessions /\ rows[target[h]] \in Rows /\ Entity(h) \in Rows
      /\ rows[target[h]].status # "unused"
  BY CommitFacts
<1>3. loaded \in Rows /\ new \in Rows /\ loaded.status = Entity(h).status
  BY <1>2, RowFacts
<1>4. /\ Opened.status = "in_progress" /\ Submitted(Entity(h)).status = "submitted"
      /\ Terminated.status = "terminated"
  BY ConstantRows DEF Submitted
<1>5. CASE rows' = rows /\ decided' = decided
  BY <1>5
<1> DEFINE row == Merge(loaded, new, rows[target[h]])
<1> HIDE DEF row
<1>6. CASE /\ rows[target[h]].status # "deleted"
           /\ row \in Rows
           /\ rows' = [rows EXCEPT ![target[h]] = row]
           /\ ~OpensASecond(target[h], row)
           /\ decided' = IF decides THEN decided \union {target[h]} ELSE decided
  <2>1. row.status = IF new.status # loaded.status THEN new.status ELSE rows[target[h]].status
    BY <1>2, <1>3, MergeFacts DEF row
  <2>2. row.status \notin {"unused", "deleted"}
    BY <1>1, <1>2, <1>4, <1>6, <2>1
  <2>3. row.status = "terminated" =>
           rows[target[h]].status = "terminated" \/ target[h] \in decided'
    BY <1>1, <1>4, <1>6, <2>1
  <2>4. row.status = "in_progress" =>
           \/ rows[target[h]].status = "in_progress"
           \/ ReopenCommit(h)
           \/ ResetCommit(h) /\ Entity(h).status # "in_progress"
    BY <1>1, <1>3, <1>4, <2>1
  <2> QED
    BY <1>2, <1>6, <2>2, <2>3, <2>4
<1>7. \/ rows' = rows /\ decided' = decided
      \/ /\ rows[target[h]].status # "deleted"
         /\ row \in Rows
         /\ rows' = [rows EXCEPT ![target[h]] = row]
         /\ ~OpensASecond(target[h], row)
         /\ decided' = IF decides THEN decided \union {target[h]} ELSE decided
  <2>1. TypeOK /\ target[h] \in Sessions /\ Update(h, target[h], loaded, new, decides)
    BY <1>1, <1>2
  <2>2. \/ rows' = rows /\ decided' = decided
        \/ /\ rows[target[h]].status # "deleted"
           /\ Merge(loaded, new, rows[target[h]]) \in Rows
           /\ rows' = [rows EXCEPT ![target[h]] = Merge(loaded, new, rows[target[h]])]
           /\ ~OpensASecond(target[h], Merge(loaded, new, rows[target[h]]))
           /\ decided' = IF decides THEN decided \union {target[h]} ELSE decided
    <3>1. Merge(loaded, new, rows[target[h]]) \in Rows
      BY <1>2, <1>3, MergeFacts
    <3> QED
      BY <2>1, <3>1, Zenon DEF Update
  <2> QED
    BY <2>2 DEF row
<1> QED
  BY <1>5, <1>6, <1>7

\* What any step can do to the rows and the log.
LEMMA RowsStep ==
    ASSUME TypeInv, [Next]_vars
    PROVE  \/ rows' = rows /\ decided' = decided
           \/ DeleteResults
           \/ \E s \in Sessions : SubmitExam(s)
           \/ \E h \in Devices : StartCheck(h) \/ StartInsert(h)
           \/ \E h \in Handlers :
                \/ KickCommit(h) \/ TerminateCommit(h) \/ ForceCommit(h)
                \/ ResetCommit(h) \/ ReopenCommit(h) \/ ExpireCommit(h)
  BY DEF Next, vars, StartStep, StaffStep, SchedulerStep, Handlers, StartCount, StartResume,
         StartLoad, StartRaced, Load, ResetCheck, ResetBlocked

\* No row is ever unused again, and none comes back.
LEMMA RowsGoOn ==
    ASSUME TypeInv, DecisionsAreLogged, [Next]_vars
    PROVE  /\ rows' \in [Sessions -> Rows]
           /\ decided' \subseteq Stored'
           /\ \A s \in Sessions : rows[s].status # "unused" => rows'[s].status # "unused"
           /\ \A s \in Sessions : rows[s].status = "deleted" => rows'[s].status = "deleted"
<1> USE DEF TypeInv, TypeOK, Stored, With
<1>1. CASE rows' = rows /\ decided' = decided
  BY <1>1
<1>2. CASE DeleteResults
  BY <1>2, ConstantRows DEF DeleteResults
<1>3. ASSUME NEW s \in Sessions, SubmitExam(s)
      PROVE  /\ rows' = [rows EXCEPT ![s] = Submitted(rows[s])]
             /\ Submitted(rows[s]) \in Rows /\ Submitted(rows[s]).status = "submitted"
             /\ rows[s].status = "in_progress"
             /\ decided' = decided
  BY <1>3, RowFacts DEF SubmitExam, Submitted
<1>4. ASSUME NEW h \in Devices, StartInsert(h)
      PROVE  \/ rows' = rows /\ decided' = decided
             \/ \E s \in Sessions : /\ rows' = [rows EXCEPT ![s] = Opened]
                                    /\ rows[s].status = "unused"
                                    /\ decided' = decided
  BY <1>4 DEF StartInsert
<1>5. ASSUME NEW h \in Devices, StartCheck(h) PROVE rows' = rows /\ decided' = decided
  <2>1. PICK s \in todo[h] :
           \/ /\ AllowContinue(mine[h][s], s)
              /\ Update(h, s, mine[h][s], Opened, FALSE)
           \/ UNCHANGED <<rows, decided>>
    BY <1>5 DEF StartCheck
  <2>2. h \in Handlers /\ at[h] = "checking" /\ s \in Sessions
    BY <1>5, <2>1 DEF StartCheck, Handlers
  <2>3. mine[h][s].status = "terminated"
    BY <2>1, <2>2 DEF WorkFits
  <2>4. s \in decided \/ rows[s].status = "deleted"
    BY <2>2, <2>3 DEF DecisionsAreLogged
  <2>5. AllowContinue(mine[h][s], s) => rows[s].status = "deleted"
    BY <2>3, <2>4 DEF AllowContinue
  <2>6. rows[s].status = "deleted" /\ Update(h, s, mine[h][s], Opened, FALSE) =>
           UNCHANGED <<rows, decided>>
    BY DEF Update
  <2> QED
    BY <2>1, <2>5, <2>6
<1>6. ASSUME NEW h \in Handlers,
             \/ KickCommit(h) \/ TerminateCommit(h) \/ ForceCommit(h)
             \/ ResetCommit(h) \/ ReopenCommit(h) \/ ExpireCommit(h)
      PROVE  \/ rows' = rows /\ decided' = decided
             \/ \E s \in Sessions, row \in Rows :
                  /\ rows' = [rows EXCEPT ![s] = row]
                  /\ row.status \notin {"unused", "deleted"}
                  /\ rows[s].status \notin {"unused", "deleted"}
                  /\ decided' \subseteq decided \union {s}
  <2>1. target[h] \in Sessions
    BY <1>6, CommitFacts
  <2> QED
    BY <1>6, <2>1, CommitRows
<1>7. \/ rows' = rows /\ decided' = decided
      \/ DeleteResults
      \/ \E s \in Sessions, row \in Rows :
            /\ rows' = [rows EXCEPT ![s] = row]
            /\ row.status \notin {"unused", "deleted"}
            /\ rows[s].status # "deleted"
            /\ decided' \subseteq decided \union {s}
  BY <1>3, <1>4, <1>5, <1>6, RowsStep, ConstantRows
<1>8. ASSUME NEW s \in Sessions, NEW row \in Rows,
             rows' = [rows EXCEPT ![s] = row],
             row.status \notin {"unused", "deleted"},
             rows[s].status # "deleted",
             decided' \subseteq decided \union {s}
      PROVE  /\ rows' \in [Sessions -> Rows]
             /\ decided' \subseteq Stored'
             /\ \A t \in Sessions : rows[t].status # "unused" => rows'[t].status # "unused"
             /\ \A t \in Sessions : rows[t].status = "deleted" => rows'[t].status = "deleted"
  BY <1>8
<1> QED
  BY <1>1, <1>2, <1>7, <1>8

LEMMA TypeStep == ASSUME TypeInv, DecisionsAreLogged, [Next]_vars PROVE TypeInv'
<1> USE DEF TypeInv, TypeOK, KindsFit
<1>1. /\ rows' \in [Sessions -> Rows] /\ decided' \subseteq Stored'
      /\ \A s \in Sessions : rows[s].status # "unused" => rows'[s].status # "unused"
  BY RowsGoOn
<1>2. Unused \in Rows /\ "start" \in Kinds /\ Unused.status # "terminated"
  BY ConstantRows DEF Kinds
<1>3. /\ Devices \subseteq Handlers /\ Desks \subseteq Handlers /\ Schedulers \subseteq Handlers
      /\ \A h \in Devices : h \notin Desks /\ h \notin Schedulers
      /\ \A h \in Desks : h \notin Schedulers
  BY LifecycleAssumption DEF LifecycleAssumption, Handlers
<1>4. ASSUME NEW h \in Handlers, Finish(h) PROVE TypeInv'
  BY <1>1, <1>2, <1>3, <1>4 DEF Finish, WorkFits, Places, Loaded
<1>5. CASE UNCHANGED <<at, kind, target, mine, todo>>
  BY <1>1, <1>5 DEF WorkFits, Loaded
<1>6. ASSUME NEW h \in Devices, StartCount(h) PROVE TypeInv'
  BY <1>1, <1>2, <1>3, <1>6 DEF StartCount, Goto, WorkFits, Places, Loaded
<1>7. ASSUME NEW h \in Devices, StartLoad(h) PROVE TypeInv'
  BY <1>1, <1>2, <1>3, <1>7 DEF StartLoad, Goto, WorkFits, Places, Loaded, With
<1>8. ASSUME NEW h \in Devices, StartCheck(h) PROVE TypeInv'
  <2>1. CASE Finish(h)
    BY <1>3, <1>4, <2>1
  <2>2. CASE /\ UNCHANGED <<at, kind, target, mine>>
             /\ \E s \in todo[h] : todo' = [todo EXCEPT ![h] = @ \ {s}]
    BY <1>1, <1>3, <2>2 DEF WorkFits, Loaded
  <2> QED
    BY <1>8, <2>1, <2>2 DEF StartCheck
<1>9. ASSUME NEW h \in Devices, StartInsert(h) PROVE TypeInv'
  <2>1. CASE Finish(h)
    BY <1>3, <1>4, <2>1
  <2>2. CASE Goto(h, "checking", "raced") /\ UNCHANGED <<kind, target, mine, todo>>
    BY <1>1, <1>3, <1>9, <2>2 DEF Goto, WorkFits, Places, Loaded
  <2> QED
    BY <1>9, <2>1, <2>2 DEF StartInsert
<1>10. ASSUME NEW h \in Handlers, NEW k \in Kinds, NEW s \in Sessions, Load(h, k, s),
              h \in Desks \/ (h \in Schedulers /\ k = "expire")
       PROVE  TypeInv'
  BY <1>1, <1>3, <1>10 DEF Load, Goto, WorkFits, Places, Loaded, Stored, With
<1>11. ASSUME NEW h \in Desks, ResetCheck(h) PROVE TypeInv'
  BY <1>1, <1>3, <1>11 DEF ResetCheck, Goto, WorkFits, Places, Loaded
<1>12. ASSUME NEW h \in Handlers,
              \/ StartResume(h) \/ StartRaced(h) \/ KickCommit(h) \/ TerminateCommit(h)
              \/ ForceCommit(h) \/ ResetBlocked(h) \/ ResetCommit(h) \/ ReopenCommit(h)
              \/ ExpireCommit(h)
       PROVE  Finish(h)
  BY <1>12
  DEF StartResume, StartRaced, KickCommit, TerminateCommit, ForceCommit, ResetBlocked,
      ResetCommit, ReopenCommit, ExpireCommit
<1>13. ASSUME NEW h \in Devices, StartStep(h) PROVE TypeInv'
  BY <1>3, <1>4, <1>6, <1>7, <1>8, <1>9, <1>12, <1>13 DEF StartStep
<1>14. ASSUME NEW h \in Desks, StaffStep(h) PROVE TypeInv'
  <2> HIDE DEF TypeInv
  <2>1. ASSUME NEW k \in StaffKinds, NEW s \in Sessions, Load(h, k, s) PROVE TypeInv'
    BY <1>3, <1>10, <2>1 DEF Kinds
  <2> QED
    BY <1>3, <1>4, <1>11, <1>12, <1>14, <2>1 DEF StaffStep
<1>15. ASSUME NEW h \in Schedulers, SchedulerStep(h) PROVE TypeInv'
  BY <1>3, <1>4, <1>10, <1>12, <1>15 DEF SchedulerStep, Kinds
<1> QED
  BY <1>5, <1>13, <1>14, <1>15 DEF Next, vars, SubmitExam, DeleteResults

-----------------------------------------------------------------------------
(* The decisions of staff.                                                 *)

\* A start reopens nothing: what it finds terminated, the log blocks.
LEMMA StartChecksInVain ==
    ASSUME TypeInv, DecisionsAreLogged, NEW h \in Devices, StartCheck(h)
    PROVE  rows' = rows /\ decided' = decided
<1>1. PICK s \in todo[h] :
         \/ AllowContinue(mine[h][s], s) /\ Update(h, s, mine[h][s], Opened, FALSE)
         \/ UNCHANGED <<rows, decided>>
  BY DEF StartCheck
<1>2. h \in Handlers /\ at[h] = "checking" /\ s \in Sessions
  BY <1>1 DEF StartCheck, Handlers, TypeInv, TypeOK
<1>3. mine[h][s].status = "terminated"
  BY <1>1, <1>2 DEF TypeInv, WorkFits
<1>4. AllowContinue(mine[h][s], s) => rows[s].status = "deleted"
  BY <1>2, <1>3 DEF AllowContinue, DecisionsAreLogged
<1>5. rows[s].status = "deleted" /\ Update(h, s, mine[h][s], Opened, FALSE) =>
         UNCHANGED <<rows, decided>>
  BY DEF Update
<1> QED
  BY <1>1, <1>4, <1>5

\* The log keeps the decisions of a session until it is deleted, and a row is
\* terminated only together with its log entry.
LEMMA LogGoesOn ==
    ASSUME TypeInv, DecisionsAreLogged, [Next]_vars, NEW s \in Sessions
    PROVE  /\ s \in decided => s \in decided' \/ rows'[s].status = "deleted"
           /\ rows'[s].status = "terminated" => s \in decided'
<1> USE DEF TypeInv, TypeOK, Stored, With
<1>1. rows[s].status = "terminated" => s \in decided
  BY DEF DecisionsAreLogged
<1>2. CASE rows' = rows /\ decided' = decided
  BY <1>1, <1>2
<1>3. CASE DeleteResults
  BY <1>3, ConstantRows DEF DeleteResults
<1>4. CASE \E t \in Sessions : SubmitExam(t)
  BY <1>1, <1>4 DEF SubmitExam, Submitted
<1>5. CASE \E h \in Devices : StartInsert(h)
  BY <1>1, <1>5, ConstantRows DEF StartInsert
<1>6. ASSUME NEW h \in Handlers,
             \/ KickCommit(h) \/ TerminateCommit(h) \/ ForceCommit(h)
             \/ ResetCommit(h) \/ ReopenCommit(h) \/ ExpireCommit(h)
      PROVE  /\ decided \subseteq decided'
             /\ rows'[s].status = "terminated" => s \in decided'
  <2>1. target[h] \in Sessions
    BY <1>6, CommitFacts
  <2>2. CASE rows' = rows /\ decided' = decided
    BY <1>1, <2>2
  <2>3. CASE \E row \in Rows :
                /\ rows' = [rows EXCEPT ![target[h]] = row]
                /\ decided \subseteq decided'
                /\ row.status = "terminated" =>
                      rows[target[h]].status = "terminated" \/ target[h] \in decided'
    BY <1>1, <2>1, <2>3
  <2> HIDE DEF TypeInv, TypeOK, Stored, With
  <2>4. TypeOK /\ WorkFits /\ KindsFit
    BY DEF TypeInv
  <2> QED
    BY <1>6, <2>2, <2>3, <2>4, CommitRows
<1> HIDE DEF TypeInv, TypeOK, Stored, With
<1> QED
  BY <1>2, <1>3, <1>4, <1>5, <1>6, RowsStep, StartChecksInVain

\* A step of one handler leaves what the others have loaded alone.
LEMMA OthersWait ==
    ASSUME TypeOK, NEW g \in Handlers, NEW h \in Handlers, g # h,
           \/ Finish(g) \/ StartCount(g) \/ StartLoad(g) \/ StartCheck(g) \/ StartInsert(g)
           \/ ResetCheck(g) \/ \E k \in Kinds, s \in Sessions : Load(g, k, s)
    PROVE  UNCHANGED <<at[h], kind[h], target[h], mine[h]>>
<1>0. /\ at \in [Handlers -> Places] /\ kind \in [Handlers -> Kinds]
      /\ target \in [Handlers -> Sessions \union {NoSession}]
      /\ mine \in [Handlers -> [Sessions -> Rows]]
  BY DEF TypeOK
<1>1. CASE Finish(g)
  BY <1>0, <1>1 DEF Finish
<1>2. CASE StartCount(g) \/ StartLoad(g) \/ ResetCheck(g)
  BY <1>0, <1>2 DEF StartCount, StartLoad, ResetCheck, Goto
<1>3. CASE StartCheck(g) /\ ~Finish(g)
  BY <1>3 DEF StartCheck
<1>4. CASE StartInsert(g) /\ ~Finish(g)
  BY <1>0, <1>4 DEF StartInsert, Goto
<1>5. ASSUME NEW k \in Kinds, NEW s \in Sessions, Load(g, k, s)
      PROVE  UNCHANGED <<at[h], kind[h], target[h], mine[h]>>
  BY <1>0, <1>5 DEF Load, Goto
<1> QED
  BY <1>1, <1>2, <1>3, <1>4, <1>5

LEMMA LoggedStep ==
    ASSUME TypeInv, DecisionsAreLogged, [Next]_vars
    PROVE  DecisionsAreLogged'
<1> DEFINE Kept(h, s) == mine'[h][s].status = "terminated" =>
                            s \in decided' \/ rows'[s].status = "deleted"
           Sure(h) == at'[h] = "allowed" =>
                         kind'[h] = "reset" /\
                         (Entity(h)'.status = "in_progress" \/ rows'[target'[h]].status = "deleted")
<1>0. /\ TypeOK /\ TypeOK'
      /\ \A s \in Sessions : rows[s].status = "deleted" => rows'[s].status = "deleted"
  BY TypeStep, RowsGoOn DEF TypeInv
<1>1. \A s \in Sessions : rows'[s].status = "terminated" => s \in decided'
  BY LogGoesOn
<1>2. ASSUME NEW h \in Handlers, UNCHANGED <<at[h], kind[h], target[h], mine[h]>>
      PROVE  Sure(h) /\ \A s \in Sessions : Kept(h, s)
  <2>1. \A s \in Sessions : Kept(h, s)
    BY <1>0, <1>2, LogGoesOn DEF DecisionsAreLogged
  <2>2. at[h] = "allowed" => target[h] \in Sessions
    BY <1>0 DEF TypeOK
  <2>3. Sure(h)
    BY <1>0, <1>2, <2>2 DEF DecisionsAreLogged, Entity
  <2> QED
    BY <2>1, <2>3
<1>3. ASSUME NEW h \in Handlers, Finish(h)
      PROVE  Sure(h) /\ \A s \in Sessions : Kept(h, s)
  BY <1>0, <1>3, ConstantRows DEF Finish, TypeOK
<1>4. ASSUME NEW h \in Devices, StartLoad(h)
      PROVE  Sure(h) /\ \A s \in Sessions : Kept(h, s)
  BY <1>0, <1>4, ConstantRows DEF StartLoad, Goto, TypeOK, Handlers, DecisionsAreLogged, With
<1>5. ASSUME NEW h \in Handlers, NEW k \in Kinds, NEW s \in Sessions, Load(h, k, s)
      PROVE  Sure(h) /\ \A t \in Sessions : Kept(h, t)
  <2>1. at'[h] = "loaded" /\ rows' = rows /\ decided' = decided
    BY <1>0, <1>5 DEF Load, Goto, TypeOK
  <2>2. \A t \in Sessions : mine'[h][t] = mine[h][t] \/ mine'[h][t] = rows[t]
    BY <1>0, <1>5 DEF Load, TypeOK
  <2> QED
    BY <1>0, <2>1, <2>2 DEF DecisionsAreLogged, With
<1>6. ASSUME NEW h \in Desks, ResetCheck(h)
      PROVE  Sure(h) /\ \A s \in Sessions : Kept(h, s)
  <2>1. h \in Handlers /\ at[h] = "loaded" /\ target[h] \in Sessions /\ kind[h] = "reset"
    BY <1>0, <1>6 DEF ResetCheck, Loaded, Handlers, TypeOK
  <2>2. UNCHANGED <<rows, decided, kind, target, mine>>
    BY <1>6 DEF ResetCheck
  <2>3. Entity(h).status = "in_progress" \/ rows[target[h]].status = "deleted"
    BY <1>6, <2>1 DEF ResetCheck, AllowContinue, DecisionsAreLogged, Entity
  <2> QED
    BY <2>1, <2>2, <2>3 DEF DecisionsAreLogged, Entity
<1>7. ASSUME NEW h \in Handlers
      PROVE  Sure(h) /\ \A s \in Sessions : Kept(h, s)
  <2>1. CASE \/ Finish(h) \/ UNCHANGED <<at[h], kind[h], target[h], mine[h]>>
    BY <1>2, <1>3, <2>1
  <2>2. CASE \/ h \in Devices /\ StartLoad(h)
             \/ \E k \in Kinds, s \in Sessions : Load(h, k, s)
             \/ h \in Desks /\ ResetCheck(h)
    BY <1>4, <1>5, <1>6, <2>2
  <2>3. CASE h \in Devices /\ StartCount(h)
    <3>1. at'[h] = "counted" /\ UNCHANGED <<rows, decided, mine>>
      BY <1>0, <2>3 DEF StartCount, Goto, TypeOK
    <3> QED
      BY <3>1 DEF DecisionsAreLogged
  <2>4. CASE h \in Devices /\ StartInsert(h) /\ ~Finish(h)
    <3>1. at'[h] = "raced" /\ UNCHANGED <<rows, decided, mine>>
      BY <1>0, <2>4 DEF StartInsert, Goto, TypeOK
    <3> QED
      BY <3>1 DEF DecisionsAreLogged
  <2>5. CASE h \in Devices /\ StartCheck(h) /\ ~Finish(h)
    BY <1>2, <2>5 DEF StartCheck
  <2>6. ASSUME NEW g \in Handlers, g # h,
               \/ Finish(g) \/ StartCount(g) \/ StartLoad(g) \/ StartCheck(g) \/ StartInsert(g)
               \/ ResetCheck(g) \/ \E k \in Kinds, s \in Sessions : Load(g, k, s)
        PROVE  UNCHANGED <<at[h], kind[h], target[h], mine[h]>>
    BY <1>0, <2>6, OthersWait
  <2>7. \/ UNCHANGED <<at, kind, target, mine>>
        \/ \E g \in Devices : \/ Finish(g) \/ StartCount(g) \/ StartLoad(g) \/ StartCheck(g)
                              \/ StartInsert(g)
        \/ \E g \in Handlers : \/ Finish(g)
                               \/ \E k \in Kinds, s \in Sessions : Load(g, k, s)
        \/ \E g \in Desks : ResetCheck(g)
    BY DEF Next, vars, StartStep, StaffStep, SchedulerStep, StartResume, StartRaced, KickCommit,
           TerminateCommit, ForceCommit, ResetBlocked, ResetCommit, ReopenCommit, ExpireCommit,
           SubmitExam, DeleteResults, Handlers, Kinds
  <2>8. Devices \subseteq Handlers /\ Desks \subseteq Handlers
    BY DEF Handlers
  <2> HIDE DEF Kept, Sure
  <2> QED
    BY <2>1, <2>2, <2>3, <2>4, <2>5, <2>6, <2>7, <2>8
<1> QED
  BY <1>1, <1>7 DEF DecisionsAreLogged, With

LEMMA TypeInvariant == Spec => [](TypeInv /\ DecisionsAreLogged)
<1>1. Init => TypeInv /\ DecisionsAreLogged
  <2>1. ASSUME Init PROVE DecisionsAreLogged
    BY <2>1, ConstantRows DEF Init, DecisionsAreLogged, With
  <2> QED
    BY <2>1, InitTypes
<1>2. TypeInv /\ DecisionsAreLogged /\ [Next]_vars => (TypeInv /\ DecisionsAreLogged)'
  BY TypeStep, LoggedStep
<1> QED
  BY <1>1, <1>2, PTL DEF Spec

\* TypeOK, with what the log tells: every session that staff terminated has its
\* decision in the log for as long as it exists (kick_student_from_exam,
\* terminate_session, evaluate_session_recovery).
THEOREM TypeCorrect == Spec => [](TypeOK /\ DecisionsAreLogged)
<1>1. TypeInv => TypeOK
  BY DEF TypeInv
<1> QED
  BY <1>1, TypeInvariant, PTL

\* A session that becomes open is one that is new, or that a reopen commits.
LEMMA OnlyReopenOpens ==
    ASSUME TypeInv, DecisionsAreLogged, [Next]_vars, NEW s \in Sessions,
           rows[s].status = "terminated", rows'[s].status = "in_progress"
    PROVE  \E h \in Desks : Loaded(h, "reopen") /\ target[h] = s /\ at'[h] = "idle"
<1> USE DEF TypeInv, TypeOK
<1>1. CASE rows' = rows
  BY <1>1
<1>2. CASE DeleteResults
  BY <1>2, ConstantRows DEF DeleteResults
<1>3. CASE \E t \in Sessions : SubmitExam(t)
  BY <1>3 DEF SubmitExam, Submitted, With
<1>4. CASE \E h \in Devices : StartInsert(h)
  BY <1>4 DEF StartInsert, With
<1>5. ASSUME NEW h \in Handlers,
             \/ KickCommit(h) \/ TerminateCommit(h) \/ ForceCommit(h)
             \/ ResetCommit(h) \/ ReopenCommit(h) \/ ExpireCommit(h)
      PROVE  \E g \in Desks : Loaded(g, "reopen") /\ target[g] = s /\ at'[g] = "idle"
  <2> HIDE DEF TypeInv, TypeOK
  <2>1. TypeOK /\ WorkFits /\ KindsFit
    BY DEF TypeInv
  <2>2. PICK row \in Rows :
           /\ rows' = [rows EXCEPT ![target[h]] = row]
           /\ rows[target[h]].status # "deleted"
           /\ row.status = "in_progress" =>
                 \/ rows[target[h]].status = "in_progress"
                 \/ ReopenCommit(h)
                 \/ ResetCommit(h) /\ Entity(h).status # "in_progress"
    BY <1>5, <2>1, CommitRows
  <2>3. target[h] = s /\ row.status = "in_progress"
    BY <2>1, <2>2 DEF TypeOK
  <2>4. ReopenCommit(h)
    BY <2>2, <2>3 DEF DecisionsAreLogged, ResetCommit
  <2>5. h \in Desks /\ at'[h] = "idle"
    BY <2>1, <2>4, LifecycleAssumption
    DEF ReopenCommit, Loaded, Finish, KindsFit, Handlers, TypeOK, LifecycleAssumption
  <2> QED
    BY <2>3, <2>4, <2>5 DEF ReopenCommit
<1> QED
  BY <1>1, <1>2, <1>3, <1>4, <1>5, RowsStep, StartChecksInVain

\* StaffDecisionStands, for any number of clients of staff, whose requests
\* overlap freely.
THEOREM StaffDecisionsStand == Spec => StaffDecisionStands
<1>1. TypeInv /\ DecisionsAreLogged /\ [Next]_vars =>
         [\A s \in Sessions :
             rows[s].status = "terminated" /\ rows'[s].status = "in_progress" =>
                \E h \in Desks : Loaded(h, "reopen") /\ target[h] = s /\ at'[h] = "idle"]_vars
  BY OnlyReopenOpens
<1> QED
  BY <1>1, TypeInvariant, PTL DEF Spec, StaffDecisionStands

-----------------------------------------------------------------------------
(* One open session.                                                       *)

\* A row that is written while the index allows it opens no second session.
LEMMA IndexGuards ==
    ASSUME TypeOK, OpenIsUnique, NEW s \in Sessions, NEW row \in Rows,
           rows' = [rows EXCEPT ![s] = row], ~OpensASecond(s, row)
    PROVE  OpenIsUnique'
  BY DEF TypeOK, OpenIsUnique, OpensASecond, With

LEMMA UniqueStep ==
    ASSUME TypeInv, DecisionsAreLogged, OpenIsUnique, [Next]_vars
    PROVE  OpenIsUnique'
<1>0. TypeOK /\ WorkFits /\ KindsFit
  BY DEF TypeInv
<1>1. CASE rows' = rows
  BY <1>1 DEF OpenIsUnique, With
<1>2. CASE DeleteResults
  BY <1>0, <1>2, ConstantRows DEF DeleteResults, OpenIsUnique, With, TypeOK
<1>3. CASE \E t \in Sessions : SubmitExam(t)
  BY <1>0, <1>3 DEF SubmitExam, Submitted, OpenIsUnique, With, TypeOK
<1>4. CASE \E h \in Devices : StartInsert(h)
  <2>1. CASE rows' = rows
    BY <1>1, <2>1
  <2>2. CASE \E s \in Sessions : rows' = [rows EXCEPT ![s] = Opened] /\ ~OpensASecond(s, Opened)
    BY <1>0, <2>2, IndexGuards, ConstantRows
  <2> QED
    BY <1>4, <2>1, <2>2 DEF StartInsert, With
<1>5. ASSUME NEW h \in Handlers,
             \/ KickCommit(h) \/ TerminateCommit(h) \/ ForceCommit(h)
             \/ ResetCommit(h) \/ ReopenCommit(h) \/ ExpireCommit(h)
      PROVE  OpenIsUnique'
  <2>1. target[h] \in Sessions
    BY <1>0, <1>5, CommitFacts
  <2>2. CASE \E row \in Rows :
                /\ rows' = [rows EXCEPT ![target[h]] = row]
                /\ ~OpensASecond(target[h], row)
    BY <1>0, <2>1, <2>2, IndexGuards
  <2> QED
    BY <1>0, <1>1, <1>5, <2>2, CommitRows
<1> QED
  BY <1>1, <1>2, <1>3, <1>4, <1>5, RowsStep, StartChecksInVain

\* OneOpenSession: whatever the order of starts, resets, reopens and commits,
\* the partial unique index leaves the student with one open session.
THEOREM OneSessionIsOpen == Spec => []OneOpenSession
<1>1. Init => OpenIsUnique
  BY ConstantRows DEF Init, OpenIsUnique, With
<1>2. TypeInv /\ DecisionsAreLogged /\ OpenIsUnique /\ [Next]_vars => OpenIsUnique'
  BY UniqueStep
<1>3. ASSUME OpenIsUnique PROVE OneOpenSession
  <2>1. With("in_progress") = {} \/ \E s \in Sessions : With("in_progress") = {s}
    BY <1>3 DEF OpenIsUnique, With
  <2>2. Cardinality({}) = 0 /\ \A s \in Sessions : Cardinality({s}) = 1
    BY FS_EmptySet, FS_Singleton
  <2> QED
    BY <2>1, <2>2 DEF OneOpenSession
<1> QED
  BY <1>1, <1>2, <1>3, TypeInvariant, PTL DEF Spec

-----------------------------------------------------------------------------
(* The columns fit the status, if one client of staff works on a session.  *)

\* What a desk makes of a row that fitted, and was overtaken at most by a
\* submit.
LEMMA DeskMergeFits ==
    ASSUME NEW entity \in Rows, NEW row \in Rows, NEW loaded \in Rows, NEW new \in Rows,
           ColumnsFit(entity), ColumnsFit(row), Overtaken(row, entity),
           entity.status \notin {"unused", "deleted"},
           loaded \in {entity, [entity EXCEPT !.ended = FALSE]},
           new \in {Terminated, Submitted(entity), Opened},
           new = Opened => loaded = entity
    PROVE  ColumnsFit(Merge(loaded, new, row))
<1> DEFINE merged == Merge(loaded, new, row)
<1>1. /\ merged.status = IF new.status # loaded.status THEN new.status ELSE row.status
      /\ merged.ended = IF new.ended # loaded.ended THEN new.ended ELSE row.ended
      /\ merged.byAdmin = IF new.byAdmin # loaded.byAdmin THEN new.byAdmin ELSE row.byAdmin
  BY MergeFacts
<1>2. /\ loaded.status = entity.status /\ loaded.byAdmin = entity.byAdmin
      /\ loaded.ended = entity.ended \/ loaded.ended = FALSE
  BY RowFacts
<1>3. \/ new.status = "terminated" /\ new.ended = TRUE /\ new.byAdmin = TRUE
      \/ new.status = "submitted" /\ new.ended = TRUE /\ new.byAdmin = entity.byAdmin
      \/ /\ new.status = "in_progress" /\ new.ended = FALSE /\ new.byAdmin = FALSE
         /\ loaded.ended = entity.ended
  BY DEF Terminated, Submitted, Opened
<1>4. /\ entity.status \in {"in_progress", "submitted", "terminated"}
      /\ entity.ended \in BOOLEAN /\ entity.byAdmin \in BOOLEAN
      /\ row.ended \in BOOLEAN /\ row.byAdmin \in BOOLEAN
  BY DEF Rows, Statuses
<1> HIDE DEF merged
<1>5. ColumnsFit(merged)
  BY <1>1, <1>2, <1>3, <1>4 DEF ColumnsFit, Overtaken
<1> QED
  BY <1>5 DEF merged

\* Everybody but staff at work on it leaves a row alone, deletes it, inserts it or
\* submits it.
LEMMA OthersStep ==
    ASSUME TypeInv, DecisionsAreLogged, SchedulerLoadsOpen, [Next]_vars,
           NEW s \in Sessions,
           ~ \E h \in Desks : /\ target[h] = s
                              /\ \/ KickCommit(h) \/ TerminateCommit(h) \/ ForceCommit(h)
                                 \/ ResetCommit(h) \/ ReopenCommit(h)
    PROVE  \/ rows'[s] = rows[s]
           \/ rows'[s].status = "deleted"
           \/ rows[s].status = "unused" /\ rows'[s] = Opened
           \/ /\ rows'[s].status = "submitted" /\ rows'[s].ended
              /\ rows'[s].byAdmin = rows[s].byAdmin
<1> DEFINE Goal == \/ rows'[s] = rows[s]
                   \/ rows'[s].status = "deleted"
                   \/ rows[s].status = "unused" /\ rows'[s] = Opened
                   \/ /\ rows'[s].status = "submitted" /\ rows'[s].ended
                      /\ rows'[s].byAdmin = rows[s].byAdmin
<1>0. TypeOK /\ WorkFits /\ KindsFit
  BY DEF TypeInv
<1>1. CASE rows' = rows
  BY <1>1
<1>2. CASE DeleteResults
  BY <1>0, <1>2, ConstantRows DEF DeleteResults, TypeOK
<1>3. CASE \E t \in Sessions : SubmitExam(t)
  BY <1>0, <1>3 DEF SubmitExam, Submitted, TypeOK
<1>4. CASE \E h \in Devices : StartInsert(h)
  BY <1>0, <1>4 DEF StartInsert, With, TypeOK
<1>5. ASSUME NEW h \in Handlers, ExpireCommit(h)
      PROVE  Goal
  <2>1. /\ target[h] \in Sessions /\ rows[target[h]] \in Rows
        /\ Entity(h) = Opened
    BY <1>0, <1>5, CommitFacts DEF ExpireCommit, Loaded, SchedulerLoadsOpen
  <2> DEFINE loaded == [Opened EXCEPT !.ended = FALSE]
             new == Submitted(Opened)
             row == Merge(loaded, new, rows[target[h]])
  <2>2. rows' = rows \/ rows' = [rows EXCEPT ![target[h]] = row]
    BY <1>5, <2>1 DEF ExpireCommit, SaveEnd, Update
  <2>3. /\ loaded \in Rows /\ new \in Rows
        /\ loaded.status = "in_progress" /\ ~loaded.ended /\ ~loaded.byAdmin
        /\ new.status = "submitted" /\ new.ended /\ ~new.byAdmin
    BY DEF Opened, Submitted, Rows, Statuses
  <2>4. row.status = "submitted" /\ row.ended /\ row.byAdmin = rows[target[h]].byAdmin
    <3> HIDE DEF loaded, new
    <3> QED
      BY <2>1, <2>3, MergeFacts DEF Rows
  <2> HIDE DEF row
  <2> QED
    BY <1>0, <2>1, <2>2, <2>4 DEF TypeOK
<1>6. ASSUME NEW h \in Handlers,
             \/ KickCommit(h) \/ TerminateCommit(h) \/ ForceCommit(h)
             \/ ResetCommit(h) \/ ReopenCommit(h)
      PROVE  Goal
  <2>1. h \in Desks
    BY <1>0, <1>6, LifecycleAssumption
    DEF KickCommit, TerminateCommit, ForceCommit, ResetCommit, ReopenCommit, Loaded, KindsFit,
        Handlers, LifecycleAssumption
  <2>2. target[h] # s
    BY <1>6, <2>1
  <2>3. rows' = rows \/ \E row \in Rows : rows' = [rows EXCEPT ![target[h]] = row]
    BY <1>0, <1>6, CommitRows
  <2> QED
    BY <1>0, <2>2, <2>3 DEF TypeOK
<1> QED
  BY <1>1, <1>2, <1>3, <1>4, <1>5, <1>6, RowsStep, StartChecksInVain

\* Staff commits what fits.
LEMMA DeskFits ==
    ASSUME TypeInv, FitInv, NEW h \in Desks,
           \/ KickCommit(h) \/ TerminateCommit(h) \/ ForceCommit(h)
           \/ ResetCommit(h) \/ ReopenCommit(h)
    PROVE  StatusFitsColumns'
<1>0. TypeOK /\ WorkFits /\ KindsFit /\ h \in Handlers
  BY DEF TypeInv, Handlers
<1>1. PICK loaded \in {Entity(h), [Entity(h) EXCEPT !.ended = FALSE]},
           new \in {Terminated, Submitted(Entity(h)), Opened},
           decides \in BOOLEAN :
           /\ Update(h, target[h], loaded, new, decides)
           /\ new = Opened => loaded = Entity(h)
  BY <1>0, CommitFacts
<1>2. target[h] \in Sessions /\ rows[target[h]] \in Rows /\ Entity(h) \in Rows
  BY <1>0, CommitFacts
<1>3. CASE rows' = rows
  BY <1>3 DEF FitInv, StatusFitsColumns
<1>4. CASE /\ rows[target[h]].status # "deleted"
           /\ rows' = [rows EXCEPT ![target[h]] = Merge(loaded, new, rows[target[h]])]
  <2>1. at[h] \in {"loaded", "allowed"}
    BY DEF KickCommit, TerminateCommit, ForceCommit, ResetCommit, ReopenCommit, Loaded
  <2>2. /\ ColumnsFit(Entity(h)) /\ Entity(h).status \notin {"unused", "deleted"}
        /\ Overtaken(rows[target[h]], Entity(h))
        /\ ColumnsFit(rows[target[h]])
    BY <1>2, <1>4, <2>1 DEF FitInv, DeskIsCurrent, StatusFitsColumns
  <2>3. loaded \in Rows /\ new \in Rows
    BY <1>2, RowFacts
  <2>4. ColumnsFit(Merge(loaded, new, rows[target[h]]))
    BY <1>1, <1>2, <2>2, <2>3, DeskMergeFits
  <2>5. \A s \in Sessions : rows'[s] = rows[s] \/ rows'[s] = Merge(loaded, new, rows[target[h]])
    BY <1>0, <1>2, <1>4 DEF TypeOK
  <2> QED
    BY <2>4, <2>5 DEF FitInv, StatusFitsColumns, ColumnsFit
<1> QED
  BY <1>1, <1>3, <1>4 DEF Update

LEMMA FitStep ==
    ASSUME TypeInv, DecisionsAreLogged, FitInv, DesksKeepApart, [Next]_vars
    PROVE  FitInv'
<1>0. /\ TypeOK /\ WorkFits /\ KindsFit /\ TypeOK' /\ WorkFits' /\ KindsFit'
      /\ StatusFitsColumns /\ DeskIsCurrent /\ SchedulerLoadsOpen
      /\ Devices \subseteq Handlers /\ Desks \subseteq Handlers /\ Schedulers \subseteq Handlers
  BY TypeStep DEF TypeInv, FitInv, Handlers
<1> DEFINE Commits(h) == \/ KickCommit(h) \/ TerminateCommit(h) \/ ForceCommit(h)
                         \/ ResetCommit(h) \/ ReopenCommit(h)
           Moves(g) == \/ Finish(g) \/ StartCount(g) \/ StartLoad(g) \/ StartCheck(g)
                       \/ StartInsert(g)
           Current(h) == at'[h] \in {"loaded", "allowed"} =>
                           /\ ColumnsFit(Entity(h)') /\ Entity(h)'.status \notin {"unused", "deleted"}
                           /\ \/ rows'[target'[h]].status = "deleted"
                              \/ Overtaken(rows'[target'[h]], Entity(h)')
           Open(h) == at'[h] = "loaded" /\ kind'[h] = "expire" => Entity(h)' = Opened
<1>1. StatusFitsColumns'
  <2>1. CASE \E h \in Desks : Commits(h)
    BY <2>1, DeskFits
  <2>2. CASE ~ \E h \in Desks : Commits(h)
    <3>1. ColumnsFit(Opened)
      BY DEF ColumnsFit, Opened
    <3> QED
      BY <1>0, <2>2, <3>1, OthersStep DEF StatusFitsColumns, ColumnsFit
  <2> QED
    BY <2>1, <2>2
<1>2. \/ UNCHANGED <<at, kind, target, mine>>
      \/ \E g \in Devices : Moves(g)
      \/ \E g \in Desks : Commits(g) \/ Finish(g) \/ ResetCheck(g)
                          \/ \E k \in StaffKinds, s \in Sessions : Load(g, k, s)
      \/ \E g \in Schedulers : Finish(g) \/ \E s \in Sessions : Load(g, "expire", s)
  BY DEF Next, vars, StartStep, StaffStep, SchedulerStep, StartResume, StartRaced, KickCommit,
         TerminateCommit, ForceCommit, ResetBlocked, ResetCommit, ReopenCommit, ExpireCommit,
         SubmitExam, DeleteResults, Handlers, Kinds
<1>3. ASSUME NEW h \in Handlers, at[h] = at'[h], kind[h] = kind'[h], target[h] = target'[h],
             mine[h] = mine'[h]
      PROVE  Open(h)
  BY <1>0, <1>3 DEF SchedulerLoadsOpen, Entity
<1>4. ASSUME NEW h \in Handlers, at'[h] \notin {"loaded", "allowed"} PROVE Open(h) /\ Current(h)
  BY <1>4
<1>5. ASSUME NEW h \in Handlers, NEW k \in Kinds, NEW s \in Sessions, Load(h, k, s)
      PROVE  Open(h) /\ Current(h)
  <2>1. /\ rows' = rows /\ target'[h] = s /\ Entity(h)' = rows[s] /\ kind'[h] = k
        /\ rows[s] \in Rows /\ rows[s].status \notin {"unused", "deleted"}
    BY <1>0, <1>5 DEF Load, TypeOK, Entity, Stored, With
  <2>2. ColumnsFit(rows[s])
    BY <1>0 DEF StatusFitsColumns
  <2>3. k = "expire" => rows[s].status = "in_progress"
    BY <1>5 DEF Load, Accepts
  <2>4. rows[s].status = "in_progress" => rows[s] = Opened
    BY <2>1, <2>2 DEF ColumnsFit, Opened, Rows
  <2> QED
    BY <2>1, <2>2, <2>3, <2>4 DEF Overtaken
<1>6. ASSUME NEW h \in Desks, at[h] = at'[h] \/ ResetCheck(h), target[h] = target'[h],
             mine[h] = mine'[h], ~Finish(h)
      PROVE  Current(h)
  <2>1. SUFFICES ASSUME at'[h] \in {"loaded", "allowed"} PROVE Current(h)
    OBVIOUS
  <2>2. at[h] \in {"loaded", "allowed"} /\ target[h] \in Sessions
    BY <1>0, <1>6, <2>1 DEF ResetCheck, Loaded, TypeOK
  <2>3. /\ ColumnsFit(Entity(h)) /\ Entity(h).status \notin {"unused", "deleted"}
        /\ \/ rows[target[h]].status = "deleted"
           \/ Overtaken(rows[target[h]], Entity(h))
        /\ rows[target[h]].status # "unused"
    BY <1>0, <2>2 DEF DeskIsCurrent, WorkFits
  <2>4. ~ \E g \in Desks : target[g] = target[h] /\ Commits(g)
    BY <1>6, <2>2
    DEF DesksKeepApart, KickCommit, TerminateCommit, ForceCommit, ResetCommit, ReopenCommit, Loaded
  <2>5. \/ rows'[target[h]] = rows[target[h]]
        \/ rows'[target[h]].status = "deleted"
        \/ /\ rows'[target[h]].status = "submitted" /\ rows'[target[h]].ended
           /\ rows'[target[h]].byAdmin = rows[target[h]].byAdmin
    BY <2>2, <2>3, <2>4, OthersStep DEF FitInv
  <2>6. rows[target[h]].status = "deleted" => rows'[target[h]].status = "deleted"
    BY <2>2, RowsGoOn
  <2>7. Entity(h)' = Entity(h) /\ target'[h] = target[h]
    BY <1>6 DEF Entity
  <2> HIDE DEF Current, Commits
  <2>8. /\ ColumnsFit(Entity(h)') /\ Entity(h)'.status \notin {"unused", "deleted"}
        /\ \/ rows'[target'[h]].status = "deleted"
           \/ Overtaken(rows'[target'[h]], Entity(h)')
    BY <2>3, <2>5, <2>6, <2>7 DEF Overtaken
  <2> QED
    BY <2>8 DEF Current
<1>7. ASSUME NEW h \in Handlers PROVE Open(h)
  <2>1. ASSUME NEW g \in Handlers, g # h,
               \/ Moves(g) \/ Commits(g) \/ ResetCheck(g)
               \/ \E k \in Kinds, s \in Sessions : Load(g, k, s)
        PROVE  /\ at[h] = at'[h] /\ kind[h] = kind'[h] /\ target[h] = target'[h]
               /\ mine[h] = mine'[h]
    <3>1. Commits(g) => Finish(g)
      BY DEF KickCommit, TerminateCommit, ForceCommit, ResetCommit, ReopenCommit
    <3> QED
      BY <1>0, <2>1, <3>1, OthersWait
  <2>2. ASSUME h \in Devices, Moves(h) PROVE at'[h] \notin {"loaded", "allowed"}
    BY <1>0, <2>2, LifecycleAssumption DEF KindsFit, LifecycleAssumption
  <2>3. ASSUME Finish(h) \/ Commits(h) \/ ResetCheck(h) PROVE at'[h] # "loaded"
    BY <1>0, <2>3
    DEF TypeOK, Finish, ResetCheck, Goto, KickCommit, TerminateCommit, ForceCommit, ResetCommit,
        ReopenCommit
  <2>4. StaffKinds \subseteq Kinds /\ "expire" \in Kinds
    BY DEF Kinds
  <2> HIDE DEF Commits, Moves
  <2>5. (at'[h] # "loaded" => Open(h)) /\ (Finish(h) => Moves(h))
    BY DEF Moves
  <2>6. Finish(h) => at'[h] # "loaded"
    BY <2>3
  <2>7. \A g \in Schedulers : Finish(g) => Moves(g)
    BY DEF Moves
  <2>8. \A g \in Desks : Finish(g) => Moves(g)
    BY DEF Moves
  <2> HIDE DEF Open
  <2> QED
    BY <1>0, <1>2, <1>3, <1>5, <2>1, <2>2, <2>3, <2>4, <2>5, <2>6, <2>7, <2>8
<1>8. ASSUME NEW h \in Desks PROVE Current(h)
  <2>1. CASE Finish(h)
    <3>1. at'[h] = "idle"
      BY <1>0, <2>1 DEF Finish, TypeOK
    <3> QED
      BY <1>0, <1>4, <3>1
  <2>2. CASE \E k \in StaffKinds, s \in Sessions : Load(h, k, s)
    BY <1>0, <1>5, <2>2 DEF Kinds
  <2>3. ASSUME NEW g \in Handlers, g # h,
               \/ Moves(g) \/ ResetCheck(g) \/ \E k \in Kinds, s \in Sessions : Load(g, k, s)
        PROVE  at[h] = at'[h] /\ target[h] = target'[h] /\ mine[h] = mine'[h]
    BY <1>0, <2>3, OthersWait
  <2>4. \A g \in Devices \union Schedulers : g # h
    BY LifecycleAssumption DEF LifecycleAssumption
  <2>5. \A g \in Desks : Commits(g) => Finish(g)
    BY DEF KickCommit, TerminateCommit, ForceCommit, ResetCommit, ReopenCommit
  <2>6. ResetCheck(h) => target[h] = target'[h] /\ mine[h] = mine'[h]
    BY DEF ResetCheck
  <2>7. (\A g \in Handlers : Finish(g) => Moves(g)) /\ "expire" \in Kinds /\ StaffKinds \subseteq Kinds
    BY DEF Kinds
  <2> HIDE DEF Commits, Moves, Current
  <2>8. \/ Finish(h) \/ \E k \in StaffKinds, s \in Sessions : Load(h, k, s)
        \/ /\ at[h] = at'[h] \/ ResetCheck(h)
           /\ target[h] = target'[h] /\ mine[h] = mine'[h]
    BY <1>0, <1>2, <2>3, <2>4, <2>5, <2>6, <2>7
  <2> QED
    BY <1>6, <2>1, <2>2, <2>8
<1>9. DeskIsCurrent' /\ SchedulerLoadsOpen'
  BY <1>7, <1>8 DEF DeskIsCurrent, SchedulerLoadsOpen
<1> QED
  BY <1>1, <1>9 DEF FitInv

\* StatusFitsColumns, if no two requests of staff are at work on the same session at
\* a time: the student, the schedulers and the requests of staff on other sessions
\* interleave with them freely.
THEOREM ColumnsFitTheStatus == Spec /\ []DesksKeepApart => []StatusFitsColumns
<1>1. Init => FitInv
  BY DEF Init, FitInv, StatusFitsColumns, DeskIsCurrent, SchedulerLoadsOpen, Handlers, ColumnsFit,
         Unused
<1>2. TypeInv /\ DecisionsAreLogged /\ FitInv /\ DesksKeepApart /\ [Next]_vars => FitInv'
  BY FitStep
<1>3. FitInv => StatusFitsColumns
  BY DEF FitInv
<1> QED
  BY <1>1, <1>2, <1>3, TypeInvariant, PTL DEF Spec

-----------------------------------------------------------------------------
(* Sessions that are opened, ended, decided on and deleted in one step each. *)

\* What becomes of the status and the log when a loaded entity is committed: the
\* new status if it differs from the one that was loaded, or the transaction fails.
Outcome(s, loaded, new, decides) ==
    \/ Status' = Status /\ decided' = decided
    \/ /\ s \in Attempt!Stored
       /\ \E st \in {new.status, Status[s]} :
             /\ new.status # loaded.status => st = new.status
             /\ new.status = loaded.status => st = Status[s]
             /\ Status' = [Status EXCEPT ![s] = st]
             /\ st = "in_progress" => Attempt!NoOtherOpen(s)
       /\ decided' = IF decides THEN decided \union {s} ELSE decided

LEMMA Saved ==
    ASSUME TypeOK, NEW s \in Sessions, NEW loaded \in Rows, NEW new \in Rows,
           NEW decides \in BOOLEAN, rows[s].status # "unused",
           NEW h \in Handlers, Update(h, s, loaded, new, decides)
    PROVE  Outcome(s, loaded, new, decides)
<1> DEFINE row == Merge(loaded, new, rows[s])
<1>1. rows[s] \in Rows /\ rows \in [Sessions -> Rows]
  BY DEF TypeOK
<1>2. row \in Rows /\ row.status = IF new.status # loaded.status THEN new.status ELSE rows[s].status
  BY <1>1, MergeFacts
<1>3. \/ rows' = rows /\ decided' = decided
      \/ /\ rows[s].status # "deleted"
         /\ ~OpensASecond(s, row)
         /\ rows' = [rows EXCEPT ![s] = row]
         /\ decided' = IF decides THEN decided \union {s} ELSE decided
  BY Zenon DEF Update
<1> HIDE DEF row
<1>4. CASE rows' = rows /\ decided' = decided
  BY <1>4 DEF Outcome, Status
<1>5. CASE /\ rows[s].status # "deleted"
           /\ ~OpensASecond(s, row)
           /\ rows' = [rows EXCEPT ![s] = row]
           /\ decided' = IF decides THEN decided \union {s} ELSE decided
  <2>1. Status' = [Status EXCEPT ![s] = row.status] /\ Status[s] = rows[s].status
    BY <1>1, <1>5 DEF Status
  <2>2. s \in Attempt!Stored
    BY <1>1, <1>5, <2>1 DEF Attempt!Stored, Rows, Statuses
  <2>3. row.status = "in_progress" => Attempt!NoOtherOpen(s)
    BY <1>5 DEF OpensASecond, With, Attempt!NoOtherOpen, Status
  <2> QED
    BY <1>2, <1>5, <2>1, <2>2, <2>3 DEF Outcome
<1> QED
  BY <1>3, <1>4, <1>5

\* The overrides under way are those of one handler and those of the others.
LEMMA OverridesOf ==
    ASSUME TypeInv, TypeInv', NEW h \in Handlers,
           \A d \in Desks : d # h => UNCHANGED <<at[d], kind[d], target[d]>>
    PROVE  /\ ~Loaded(h, "reopen") /\ ~Loaded(h, "reopen")' => Overrides' = Overrides
           /\ Loaded(h, "reopen") /\ ~Loaded(h, "reopen")' =>
                 Overrides' \in {Overrides, Overrides \ {target[h]}}
           /\ ~Loaded(h, "reopen") /\ Loaded(h, "reopen")' /\ h \in Desks =>
                 Overrides' = Overrides \union {target'[h]}
<1> DEFINE Others == {target[g] : g \in {d \in Desks : d # h /\ Loaded(d, "reopen")}}
           Own == IF h \in Desks /\ Loaded(h, "reopen") THEN {target[h]} ELSE {}
<1>1. Overrides = Others \union Own
  BY DEF Overrides
<1>2. Others' = Others
  <2>1. \A d \in Desks : d # h => (Loaded(d, "reopen")' <=> Loaded(d, "reopen")) /\ target'[d] = target[d]
    BY DEF Loaded
  <2> QED
    BY <2>1
<1>3. Overrides' = Others \union Own'
  BY <1>2 DEF Overrides
<1> HIDE DEF Others
<1> QED
  BY <1>1, <1>3

\* A commit that opens nothing, and is no reopen, leaves the overrides alone.
LEMMA OthersOverrides ==
    ASSUME TypeInv, TypeInv', NEW h \in Handlers, ~Loaded(h, "reopen"),
           Finish(h)
    PROVE  Overrides' = Overrides
<1>1. \A d \in Desks : d # h => UNCHANGED <<at[d], kind[d], target[d]>>
  BY DEF Finish, TypeInv, TypeOK, Handlers
<1>2. at'[h] = "idle"
  BY DEF Finish, TypeInv, TypeOK
<1> QED
  BY <1>1, <1>2, OverridesOf DEF Loaded

\* What a handler does between its load and its commit is not seen, but for the
\* reopen, which asks for the override by loading the session.
LEMMA AttemptsWait ==
    ASSUME TypeInv, TypeInv', NEW h \in Handlers, UNCHANGED <<rows, decided>>,
           \/ h \in Devices /\ (StartCount(h) \/ StartLoad(h) \/ StartCheck(h) \/ StartInsert(h))
           \/ h \in Desks /\ ResetCheck(h)
           \/ \E k \in Kinds, s \in Sessions :
                 Load(h, k, s) /\ (h \in Desks \/ (h \in Schedulers /\ k = "expire"))
    PROVE  [Attempt!Next]_(Attempt!vars)
<1>1. Status' = Status
  BY DEF Status
<1>2. \A d \in Desks : d # h => UNCHANGED <<at[d], kind[d], target[d]>>
  BY DEF StartCount, StartLoad, StartCheck, StartInsert, ResetCheck, Load, Goto, Finish, TypeInv,
         TypeOK, Handlers
<1>3. CASE Overrides' = Overrides
  BY <1>1, <1>3 DEF Attempt!vars
<1>4. CASE h \in Devices /\ (StartCount(h) \/ StartLoad(h) \/ StartCheck(h) \/ StartInsert(h))
  <2>1. h \notin Desks
    BY <1>4, LifecycleAssumption DEF LifecycleAssumption
  <2>2. Overrides' = Overrides
    BY <1>2, <2>1 DEF Overrides, Loaded
  <2> QED
    BY <1>3, <2>2
<1>5. CASE h \in Desks /\ ResetCheck(h)
  <2>1. ~Loaded(h, "reopen") /\ ~Loaded(h, "reopen")'
    BY <1>5 DEF ResetCheck, Loaded, Goto, TypeInv, TypeOK
  <2> QED
    BY <1>2, <1>3, <2>1, OverridesOf
<1>6. ASSUME NEW k \in Kinds, NEW s \in Sessions, Load(h, k, s),
             h \in Desks \/ (h \in Schedulers /\ k = "expire")
      PROVE  [Attempt!Next]_(Attempt!vars)
  <2>1. /\ ~Loaded(h, "reopen") /\ target'[h] = s /\ (Loaded(h, "reopen")' <=> k = "reopen")
    BY <1>6 DEF Load, Goto, Loaded, TypeInv, TypeOK
  <2>2. k # "reopen" => Overrides' = Overrides
    BY <1>2, <2>1, OverridesOf
  <2>3. k = "reopen" => Overrides' = Overrides \union {s}
    BY <1>2, <1>6, <2>1, OverridesOf
  <2>4. s \in Attempt!Stored
    BY <1>6 DEF Load, Stored, With, Status, Attempt!Stored, TypeInv, TypeOK, Rows, Statuses
  <2>5. k = "reopen" => Attempt!AskOverride(s)
    BY <1>1, <2>3, <2>4 DEF Attempt!AskOverride
  <2> QED
    BY <1>3, <2>2, <2>5 DEF Attempt!Next
<1> QED
  BY <1>4, <1>5, <1>6

LEMMA AttemptsOpen ==
    ASSUME TypeInv, TypeInv', NEW h \in Devices, StartInsert(h), rows' # rows
    PROVE  Attempt!Next
<1>1. PICK s \in With("unused") :
         /\ ~OpensASecond(s, Opened)
         /\ rows' = [rows EXCEPT ![s] = Opened]
         /\ Finish(h)
         /\ UNCHANGED decided
  BY DEF StartInsert
<1>2. s \in Sessions /\ rows[s].status = "unused" /\ rows \in [Sessions -> Rows] /\ h \in Handlers
  BY DEF With, TypeInv, TypeOK, Handlers
<1>3. Status[s] = "unused" /\ Status' = [Status EXCEPT ![s] = "in_progress"]
  BY <1>1, <1>2, ConstantRows DEF Status
<1>4. Attempt!NoOtherOpen(s)
  BY <1>1, ConstantRows DEF OpensASecond, With, Attempt!NoOtherOpen, Status
<1>5. ~Loaded(h, "reopen")
  BY DEF StartInsert, Loaded
<1>6. Overrides' = Overrides
  BY <1>1, <1>2, <1>5, OthersOverrides
<1>7. Attempt!Open(s)
  BY <1>1, <1>3, <1>4, <1>6 DEF Attempt!Open, Attempt!Turn
<1> QED
  BY <1>2, <1>7 DEF Attempt!Next

LEMMA AttemptsSubmit ==
    ASSUME TypeInv, NEW s \in Sessions, SubmitExam(s)
    PROVE  Attempt!Next
<1>1. /\ rows \in [Sessions -> Rows] /\ rows[s].status = "in_progress"
      /\ rows' = [rows EXCEPT ![s] = Submitted(rows[s])]
      /\ Submitted(rows[s]).status = "submitted"
      /\ UNCHANGED <<decided, at, kind, target>>
  BY DEF SubmitExam, With, Submitted, TypeInv, TypeOK
<1>2. Status' = [Status EXCEPT ![s] = "submitted"] /\ s \in Attempt!Stored
  BY <1>1 DEF Status, Attempt!Stored
<1>3. Overrides' = Overrides
  BY <1>1 DEF Overrides, Loaded
<1>4. Attempt!HandIn(s)
  BY <1>1, <1>2, <1>3 DEF Attempt!HandIn, Attempt!Turn
<1> QED
  BY <1>4 DEF Attempt!Next

LEMMA AttemptsDelete ==
    ASSUME TypeInv, DeleteResults
    PROVE  Attempt!Next
<1>1. /\ rows \in [Sessions -> Rows]
      /\ rows' = [s \in Sessions |-> IF s \in Stored THEN Deleted ELSE rows[s]]
      /\ decided' = {} /\ UNCHANGED <<at, kind, target>>
  BY DEF DeleteResults, TypeInv, TypeOK
<1>2. Stored = Attempt!Stored
  BY <1>1 DEF Stored, With, Attempt!Stored, Status, Rows, Statuses
<1>3. Status' = [s \in Sessions |-> IF s \in Attempt!Stored THEN "deleted" ELSE Status[s]]
  BY <1>1, <1>2, ConstantRows DEF Status
<1>4. Overrides' = Overrides
  BY <1>1 DEF Overrides, Loaded
<1>5. Attempt!DeleteAll
  BY <1>1, <1>3, <1>4 DEF Attempt!DeleteAll
<1> QED
  BY <1>5 DEF Attempt!Next

\* A commit of what was loaded maps to one step, or the transaction failed.
LEMMA AttemptsCommit ==
    ASSUME TypeInv, TypeInv', DecisionsAreLogged, NEW h \in Handlers,
           \/ KickCommit(h) \/ TerminateCommit(h) \/ ForceCommit(h)
           \/ ResetCommit(h) \/ ReopenCommit(h) \/ ExpireCommit(h)
    PROVE  [Attempt!Next]_(Attempt!vars)
<1> DEFINE s == target[h]
           Before == {Entity(h), [Entity(h) EXCEPT !.ended = FALSE]}
<1>0. TypeOK /\ WorkFits /\ KindsFit
  BY DEF TypeInv
<1>1. /\ s \in Sessions /\ rows[s] \in Rows /\ Entity(h) \in Rows
      /\ rows[s].status # "unused" /\ Finish(h)
  BY <1>0, CommitFacts
<1>2. \A loaded \in Before : loaded \in Rows /\ loaded.status = Entity(h).status
  BY <1>1, RowFacts
<1>3. /\ Terminated \in Rows /\ Opened \in Rows /\ Submitted(Entity(h)) \in Rows
      /\ Opened.status = "in_progress" /\ Submitted(Entity(h)).status = "submitted"
      /\ Terminated.status = "terminated"
  BY <1>1, ConstantRows, RowFacts DEF Submitted
<1> HIDE DEF s, Before
<1> DEFINE Put(st) == Status' = [Status EXCEPT ![s] = st]
<1>4. CASE KickCommit(h) \/ TerminateCommit(h) \/ ForceCommit(h)
  <2>1. PICK loaded \in Before, new \in {Terminated, Submitted(Entity(h))} :
           Update(h, s, loaded, new, TRUE)
    BY <1>4 DEF KickCommit, TerminateCommit, ForceCommit, Save, SaveEnd, s, Before
  <2>2. loaded \in Rows /\ new \in Rows /\ new.status \in {"submitted", "terminated"}
    BY <1>2, <1>3, <2>1
  <2>3. ~Loaded(h, "reopen")
    BY <1>4 DEF KickCommit, TerminateCommit, ForceCommit, Loaded
  <2>4. Overrides' = Overrides
    BY <1>1, <2>3, OthersOverrides
  <2>5. \/ Status' = Status /\ decided' = decided
        \/ /\ s \in Attempt!Stored
           /\ \E st \in {new.status, Status[s]} : Put(st)
           /\ decided' = decided \union {s}
    <3>1. Outcome(s, loaded, new, TRUE)
      BY <1>0, <1>1, <2>1, <2>2, Saved
    <3> QED
      BY <3>1 DEF Outcome
  <2>6. CASE Status' = Status /\ decided' = decided
    BY <2>4, <2>6 DEF Attempt!vars
  <2>7. CASE /\ s \in Attempt!Stored
             /\ \E st \in {new.status, Status[s]} : Put(st)
             /\ decided' = decided \union {s}
    <3>1. Attempt!Decide(s)
      BY <2>2, <2>4, <2>7 DEF Attempt!Decide, Attempt!Turn
    <3> QED
      BY <1>1, <3>1 DEF Attempt!Next
  <2> QED
    BY <2>5, <2>6, <2>7
<1>5. CASE ExpireCommit(h)
  <2>1. PICK loaded \in Before : Update(h, s, loaded, Submitted(Entity(h)), FALSE)
    BY <1>5 DEF ExpireCommit, SaveEnd, s, Before
  <2>2. ~Loaded(h, "reopen")
    BY <1>5 DEF ExpireCommit, Loaded
  <2>3. Overrides' = Overrides
    BY <1>1, <2>2, OthersOverrides
  <2>4. \/ Status' = Status /\ decided' = decided
        \/ /\ s \in Attempt!Stored
           /\ \E st \in {"submitted", Status[s]} : Put(st)
           /\ decided' = decided
    <3>1. Outcome(s, loaded, Submitted(Entity(h)), FALSE)
      BY <1>0, <1>1, <1>2, <1>3, <2>1, Saved
    <3> QED
      BY <1>3, <3>1 DEF Outcome
  <2>5. CASE Status' = Status /\ decided' = decided
    BY <2>3, <2>5 DEF Attempt!vars
  <2>6. CASE s \in Attempt!Stored /\ Put("submitted") /\ decided' = decided
    <3>1. Attempt!HandIn(s)
      BY <2>3, <2>6 DEF Attempt!HandIn, Attempt!Turn
    <3> QED
      BY <1>1, <3>1 DEF Attempt!Next
  <2>7. Put(Status[s]) => Status' = Status
    BY <1>1 DEF Status
  <2> QED
    BY <2>4, <2>5, <2>6, <2>7
<1>6. CASE ResetCommit(h)
  <2>1. at[h] = "allowed" /\ Update(h, s, Entity(h), Opened, FALSE)
    BY <1>6 DEF ResetCommit, Save, s
  <2>2. Entity(h).status = "in_progress" \/ rows[s].status = "deleted"
    BY <2>1 DEF DecisionsAreLogged, s
  <2>3. rows[s].status = "deleted" => UNCHANGED <<rows, decided>>
    BY <2>1 DEF Update
  <2>4. Entity(h).status = "in_progress" =>
           \/ Status' = Status
           \/ \E st \in {Status[s]} : Put(st)
    <3>1. Outcome(s, Entity(h), Opened, FALSE)
      BY <1>0, <1>1, <1>3, <2>1, Saved
    <3> QED
      BY <1>3, <3>1 DEF Outcome
  <2>5. Status' = Status
    BY <1>1, <2>2, <2>3, <2>4 DEF Status
  <2>6. decided' = decided
    BY <2>1 DEF Update
  <2>7. Overrides' = Overrides
    <3>1. ~Loaded(h, "reopen")
      BY <2>1 DEF Loaded
    <3> QED
      BY <1>1, <3>1, OthersOverrides
  <2> QED
    BY <2>5, <2>6, <2>7 DEF Attempt!vars
<1>7. CASE ReopenCommit(h)
  <2>1. Loaded(h, "reopen") /\ Update(h, s, Entity(h), Opened, FALSE)
    BY <1>7 DEF ReopenCommit, Save, s
  <2>2. h \in Desks
    BY <1>0, <2>1, LifecycleAssumption DEF Loaded, KindsFit, Handlers, LifecycleAssumption
  <2>3. s \in Overrides
    BY <2>1, <2>2 DEF Overrides, s
  <2>4. Overrides' \in {Overrides, Overrides \ {s}}
    <3>1. ~Loaded(h, "reopen")'
      BY <1>0, <1>1 DEF Finish, Loaded, TypeOK
    <3>2. \A d \in Desks : d # h => UNCHANGED <<at[d], kind[d], target[d]>>
      BY <1>0, <1>1 DEF Finish, TypeOK, Handlers
    <3> QED
      BY <2>1, <3>1, <3>2, OverridesOf DEF s
  <2>5. decided' = decided
    BY <2>1 DEF Update
  <2>6. \/ Status' = Status
        \/ /\ s \in Attempt!Stored
           /\ \E st \in {"in_progress", Status[s]} :
                 Put(st) /\ (st = "in_progress" => Attempt!NoOtherOpen(s))
    <3>1. Outcome(s, Entity(h), Opened, FALSE)
      BY <1>0, <1>1, <1>3, <2>1, Saved
    <3> QED
      BY <1>3, <3>1 DEF Outcome
  <2>7. CASE Status' = Status
    <3>1. Attempt!OverrideFails(s)
      BY <2>4, <2>5, <2>7 DEF Attempt!OverrideFails, Attempt!Answered
    <3> QED
      BY <1>1, <3>1 DEF Attempt!Next
  <2>8. CASE s \in Attempt!Stored /\ Put("in_progress") /\ Attempt!NoOtherOpen(s)
    <3>1. Attempt!Override(s)
      BY <2>3, <2>4, <2>5, <2>8 DEF Attempt!Override, Attempt!Answered, Attempt!Turn
    <3> QED
      BY <1>1, <3>1 DEF Attempt!Next
  <2>9. Put(Status[s]) => Status' = Status
    BY <1>1 DEF Status
  <2> QED
    BY <2>6, <2>7, <2>8, <2>9
<1> QED
  BY <1>4, <1>5, <1>6, <1>7

LEMMA AttemptsStep ==
    TypeInv /\ TypeInv' /\ DecisionsAreLogged /\ [Next]_vars => [Attempt!Next]_(Attempt!vars)
<1> SUFFICES ASSUME TypeInv, TypeInv', DecisionsAreLogged, [Next]_vars
             PROVE  [Attempt!Next]_(Attempt!vars)
  OBVIOUS
<1>1. ASSUME NEW h \in Handlers, UNCHANGED <<rows, decided>>, Finish(h), ~Loaded(h, "reopen")
      PROVE  UNCHANGED Attempt!vars
  BY <1>1, OthersOverrides DEF Attempt!vars, Status
<1>2. CASE UNCHANGED vars
  BY <1>2 DEF vars, Attempt!vars, Status, Overrides, Loaded
<1>3. ASSUME NEW h \in Devices, StartStep(h) PROVE [Attempt!Next]_(Attempt!vars)
  <2>1. h \in Handlers
    BY DEF Handlers
  <2>2. CASE StartResume(h) \/ StartRaced(h)
    BY <1>1, <2>1, <2>2 DEF StartResume, StartRaced, Loaded
  <2>3. CASE StartInsert(h)
    <3>1. rows' = rows => UNCHANGED <<rows, decided>>
      BY <2>3 DEF StartInsert
    <3> QED
      BY <2>1, <2>3, <3>1, AttemptsWait, AttemptsOpen
  <2>4. CASE StartCount(h) \/ StartLoad(h) \/ StartCheck(h)
    <3>1. UNCHANGED <<rows, decided>>
      BY <2>4, StartChecksInVain DEF StartCount, StartLoad
    <3> QED
      BY <2>1, <2>4, <3>1, AttemptsWait
  <2> QED
    BY <1>3, <2>2, <2>3, <2>4 DEF StartStep
<1>4. ASSUME NEW h \in Desks, StaffStep(h) PROVE [Attempt!Next]_(Attempt!vars)
  <2>1. h \in Handlers /\ StaffKinds \subseteq Kinds
    BY DEF Handlers, Kinds
  <2>2. CASE ResetBlocked(h)
    BY <1>1, <2>1, <2>2 DEF ResetBlocked, Loaded
  <2>3. ASSUME NEW k \in StaffKinds, NEW s \in Sessions, Load(h, k, s)
        PROVE  [Attempt!Next]_(Attempt!vars)
    <3>1. UNCHANGED <<rows, decided>>
      BY <2>3 DEF Load
    <3> QED
      BY <2>1, <2>3, <3>1, AttemptsWait
  <2>4. CASE ResetCheck(h)
    <3>1. UNCHANGED <<rows, decided>>
      BY <2>4 DEF ResetCheck
    <3> QED
      BY <2>1, <2>4, <3>1, AttemptsWait
  <2> QED
    BY <1>4, <2>1, <2>2, <2>3, <2>4, AttemptsCommit DEF StaffStep
<1>5. ASSUME NEW h \in Schedulers, SchedulerStep(h) PROVE [Attempt!Next]_(Attempt!vars)
  <2>1. h \in Handlers /\ "expire" \in Kinds
    BY DEF Handlers, Kinds
  <2>2. ASSUME NEW s \in Sessions, Load(h, "expire", s) PROVE [Attempt!Next]_(Attempt!vars)
    <3>1. UNCHANGED <<rows, decided>>
      BY <2>2 DEF Load
    <3> QED
      BY <2>1, <2>2, <3>1, AttemptsWait
  <2> QED
    BY <1>5, <2>1, <2>2, AttemptsCommit DEF SchedulerStep
<1> QED
  BY <1>2, <1>3, <1>4, <1>5, AttemptsSubmit, AttemptsDelete DEF Next

\* AttemptsSpec: requests that load without a lock, commit later and mix their
\* columns open, end, decide and delete as if each were one step, and a session
\* that was deleted stays deleted.
THEOREM Refinement == Spec => AttemptsSpec
<1>1. ASSUME Init PROVE Attempt!Init
  BY <1>1, ConstantRows DEF Init, Attempt!Init, Status, Overrides, Loaded, Handlers
<1>2. TypeInv /\ TypeInv' /\ DecisionsAreLogged /\ [Next]_vars => [Attempt!Next]_(Attempt!vars)
  BY AttemptsStep
<1> QED
  BY <1>1, <1>2, TypeInvariant, PTL DEF Spec, AttemptsSpec, Attempt!Spec
=============================================================================
