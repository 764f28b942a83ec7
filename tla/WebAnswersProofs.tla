-------------------------- MODULE WebAnswersProofs --------------------------
(***************************************************************************)
(* Theorems about WebAnswers, for all questions, edits and faults.         *)
(***************************************************************************)
EXTENDS WebAnswers, TLAPS

\* Sheets are closed under the operators on them.
LEMMA SheetFacts ==
    ASSUME NEW a \in Sheets, NEW b \in Sheets, NEW set
    PROVE  /\ Empty \in Sheets
           /\ Only(a, set) \in Sheets
           /\ Over(a, b) \in Sheets
           /\ Answered(Over(a, b)) = Answered(a) \union Answered(b)
           /\ Answered(Only(a, set)) = Answered(a) \intersect set
           /\ Answered(Empty) = {}
  BY WebAssumption DEF WebAssumption, Sheets, Empty, Only, Over, Answered, Blank

\* An edit has a revision of its own.
LEMMA EditFacts ==
    ASSUME NEW q \in Questions, Edit(q), TypeOK
    PROVE  /\ Edited(q) \in Sheets
           /\ answers' \in Sheets
           /\ edits' \in 0..MaxEdits
           /\ edits' = edits + 1
           /\ Answered(Edited(q)) = {q}
<1>1. edits' = edits + 1 /\ edits + 1 \in 1..MaxEdits
  BY WebAssumption DEF WebAssumption, Edit, TypeOK
<1>2. Edited(q) = [p \in Questions |-> IF p = q THEN edits + 1 ELSE 0]
  BY DEF Edited, Empty, Blank
<1>3. Edited(q) \in Sheets /\ Answered(Edited(q)) = {q}
  BY <1>1, <1>2, WebAssumption DEF WebAssumption, Sheets, Answered, Blank
<1>4. answers' \in Sheets
  BY <1>1 DEF Edit, Sheets, TypeOK
<1> QED
  BY <1>1, <1>3, <1>4

\* Recording adds to the records, and only unmarks.
LEMMA RecordFacts ==
    ASSUME TypeOK, NEW sheet \in Sheets, Record(sheet)
    PROVE  /\ records' \in Sheets
           /\ synced' \subseteq Answered(records')
           /\ recorded' \subseteq Questions
           /\ Answered(records') = Answered(records) \union Answered(sheet)
<1>1. records' = Over(sheet, records) /\ records \in Sheets
  BY DEF Record, TypeOK
<1>2. records' \in Sheets /\ Answered(records') = Answered(records) \union Answered(sheet)
  BY <1>1, SheetFacts
<1>3. Answered(sheet) \subseteq Questions
  BY DEF Answered
<1> QED
  BY <1>2, <1>3 DEF Record, TypeOK

\* The fields of the requests stay of their types.
LEMMA SendFacts ==
    ASSUME TypeOK, NEW c \in Channels, NEW kind \in {"batch", "submit"},
           NEW sheet \in Sheets, Send(c, kind, sheet)
    PROVE  /\ awaited' \in [Channels -> Messages \union {NoMessage}]
           /\ wire' \subseteq Messages
           /\ reply' = reply
  BY DEF Send, TypeOK, Messages

\* A returning request frees its channel and nothing else.
LEMMA ReturnFacts ==
    ASSUME TypeOK, NEW c \in Channels, Return(c)
    PROVE  /\ awaited' \in [Channels -> Messages \union {NoMessage}]
           /\ reply' \in [Channels -> {"none", "ok", "refused", "failed"}]
           /\ wire' = wire
  BY DEF Return, TypeOK

\* What has returned was a request.
LEMMA ReturnedSheet ==
    ASSUME TypeOK, AwaitedFits, NEW c \in Channels, Return(c)
    PROVE  awaited[c] \in Messages /\ awaited[c].sheet \in Sheets
<1>1. awaited[c] \in Messages
  BY DEF Return, AwaitedFits, Free, TypeOK
<1> QED
  BY <1>1 DEF Messages

\* A response is to a request that was on its way.
LEMMA RespondFacts ==
    ASSUME TypeOK, NEW m \in wire, Take(m), NEW r \in {"ok", "refused"}, Respond(m, r)
    PROVE  /\ awaited' = awaited
           /\ reply' \in [Channels -> {"none", "ok", "refused", "failed"}]
           /\ wire' \subseteq Messages
           /\ m \in Messages
  BY DEF Respond, Take, TypeOK, Messages

-----------------------------------------------------------------------------
(* Types.                                                                  *)

\* Every step keeps the types.
LEMMA TypeStep == ASSUME TypeOK, AwaitedFits, [Next]_vars PROVE TypeOK'
<1> USE WebAssumption DEF WebAssumption
<1>1. CASE TypingSettles
  BY <1>1, SheetFacts, RecordFacts
  DEF TypingSettles, TypeOK, requests, server, bounds, history
<1>2. ASSUME NEW q \in Questions, Choose(q) PROVE TypeOK'
  BY <1>2, EditFacts, RecordFacts DEF Choose, TypeOK, requests, server, history
<1>3. ASSUME NEW q \in Questions, Type(q) PROVE TypeOK'
  BY <1>3, EditFacts DEF Type, TypeOK, storage, requests, server, history
<1>4. CASE SyncStart
  <2>1. PICK batch \in SUBSET Unsynced : Send("worker", "batch", Only(records, batch))
    BY <1>4 DEF SyncStart
  <2>2. Only(records, batch) \in Sheets
    BY SheetFacts DEF TypeOK
  <2> QED
    BY <1>4, <2>1, <2>2, SendFacts
    DEF SyncStart, TypeOK, memory, storage, server, bounds, history, Channels
<1>5. CASE SyncDone
  BY <1>5, ReturnFacts DEF SyncDone, TypeOK, memory, server, bounds, history, Channels
<1>6. CASE AutoFlush
  BY <1>6, SendFacts, SheetFacts
  DEF AutoFlush, SendFlush, TypeOK, storage, server, bounds, history, Channels
<1>7. CASE AutoFlushDone
  BY <1>7, ReturnFacts
  DEF AutoFlushDone, TypeOK, memory, storage, server, bounds, history, Channels
<1>8. CASE SubmitStart
  BY <1>8 DEF SubmitStart, Goto, TypeOK, memory, storage, requests, server, bounds, history
<1>9. CASE SubmitFlush
  BY <1>9, SendFacts, SheetFacts
  DEF SubmitFlush, SendFlush, TypeOK, storage, server, bounds, Channels
<1>10. CASE SubmitFlushSkipped
  BY <1>10, SheetFacts
  DEF SubmitFlushSkipped, Goto, TypeOK, storage, requests, server, bounds, history
<1>11. CASE SubmitFlushDone
  <2>1. Return("submit") /\ "submit" \in Channels
    BY <1>11 DEF SubmitFlushDone, Channels
  <2>2. sure' \in Sheets
    BY <1>11, <2>1, ReturnedSheet DEF SubmitFlushDone, TypeOK
  <2> QED
    BY <1>11, <2>1, <2>2, ReturnFacts
    DEF SubmitFlushDone, Goto, TypeOK, memory, storage, server, bounds
<1>12. CASE SubmitSend
  BY <1>12, SendFacts, SheetFacts
  DEF SubmitSend, TypeOK, memory, storage, server, bounds, history, Channels
<1>13. CASE SubmitDone
  BY <1>13, ReturnFacts, SheetFacts
  DEF SubmitDone, TypeOK, memory, server, bounds, history, Channels
<1>14. ASSUME NEW c \in Channels, RequestFails(c) PROVE TypeOK'
  <2>1. awaited[c] \in Messages /\ faults + 1 \in 0..MaxFaults
    BY <1>14 DEF RequestFails, Fault, Free, TypeOK
  <2>2. [awaited[c] EXCEPT !.try = faults + 1] \in Messages
    BY <2>1 DEF Messages
  <2> QED
    BY <1>14, <2>1, <2>2 DEF RequestFails, Fault, TypeOK, memory, storage, server
<1>15. CASE Reload
  <2>1. Empty \in Sheets /\ faults' \in 0..MaxFaults
    BY <1>15, SheetFacts DEF Reload, Fault, TypeOK
  <2>2. /\ awaited' \in [Channels -> Messages \union {NoMessage}]
        /\ reply' \in [Channels -> {"none", "ok", "refused", "failed"}]
    BY <1>15 DEF Reload
  <2> QED
    BY <1>15, <2>1, <2>2 DEF Reload, TypeOK, storage, server
<1>16. CASE LoadRead
  BY <1>16 DEF LoadRead, TypeOK, storage, requests, server, bounds, history
<1>17. CASE LoadStore
  BY <1>17, SheetFacts DEF LoadStore, TypeOK, requests, server, bounds, history
<1>18. CASE LoadFails
  BY <1>18 DEF LoadFails, TypeOK, storage, requests, server, bounds, history
<1>19. ASSUME NEW m \in wire, StoreBatch(m) PROVE TypeOK'
  <2>1. m.sheet \in Sheets
    BY DEF TypeOK, Messages
  <2> QED
    BY <1>19, <2>1, RespondFacts, SheetFacts
    DEF StoreBatch, TypeOK, memory, storage, bounds, history
<1>20. ASSUME NEW m \in wire, HandIn(m) PROVE TypeOK'
  BY <1>20, RespondFacts DEF HandIn, TypeOK, memory, storage, bounds, history
<1>21. ASSUME NEW m \in wire, Refuse(m) PROVE TypeOK'
  BY <1>21, RespondFacts DEF Refuse, Fault, TypeOK, memory, storage, server, history
<1>22. CASE Close
  BY <1>22 DEF Close, TypeOK, memory, storage, requests, bounds, history
<1>23. CASE UNCHANGED vars
  BY <1>23 DEF vars, TypeOK, memory, storage, requests, server, bounds, history
<1> QED
  BY <1>1, <1>2, <1>3, <1>4, <1>5, <1>6, <1>7, <1>8, <1>9, <1>10, <1>11, <1>12, <1>13,
     <1>14, <1>15, <1>16, <1>17, <1>18, <1>19, <1>20, <1>21, <1>22, <1>23
  DEF Next, Student, SubmitStep, ServerStep

-----------------------------------------------------------------------------
(* What is awaited.                                                        *)

\* Every step keeps what the page awaits in order.
LEMMA FitsStep == ASSUME TypeOK, AwaitedFits, [Next]_vars PROVE AwaitedFits'
<1> USE DEF AwaitedFits, Free
<1>1. CASE TypingSettles \/ \E q \in Questions : Choose(q) \/ Type(q)
  BY <1>1 DEF TypingSettles, Choose, Type, Edit, requests, server
<1>2. ASSUME NEW c \in Channels, NEW sheet \in Sheets, NEW kind \in {"batch", "submit"},
             Send(c, kind, sheet), UNCHANGED <<page, loaded, stage>>,
             kind = IF c = "submit" /\ stage = "submit" THEN "submit" ELSE "batch",
             c = "submit" => stage # "idle"
      PROVE  AwaitedFits'
  <2>1. reply' = reply /\ awaited' = [awaited EXCEPT ![c] =
            [from |-> c, try |-> faults, kind |-> kind, sheet |-> sheet]]
    BY <1>2 DEF Send
  <2>2. awaited'[c] # NoMessage /\ awaited'[c].kind = kind
    BY <1>2, <2>1, WebAssumption DEF WebAssumption, Messages, TypeOK
  <2>3. \A d \in Channels : d # c => awaited'[d] = awaited[d]
    BY <2>1 DEF TypeOK
  <2> QED
    BY <1>2, <2>1, <2>2, <2>3 DEF Channels
<1>3. CASE SyncStart
  <2>1. PICK batch \in SUBSET Unsynced : Send("worker", "batch", Only(records, batch))
    BY <1>3 DEF SyncStart
  <2>2. Only(records, batch) \in Sheets
    BY SheetFacts DEF TypeOK
  <2> QED
    BY <1>2, <1>3, <2>1, <2>2 DEF SyncStart, memory, Channels
<1>4. CASE AutoFlush
  BY <1>2, <1>4 DEF AutoFlush, SendFlush, TypeOK, Channels
<1>5. CASE SubmitFlush
  BY <1>2, <1>5 DEF SubmitFlush, SendFlush, TypeOK, Channels
<1>6. CASE SubmitSend
  BY <1>2, <1>6, SheetFacts DEF SubmitSend, TypeOK, Channels, memory
<1>7. CASE SyncDone
  BY <1>7 DEF SyncDone, Return, TypeOK, Channels, memory, server
<1>8. CASE AutoFlushDone
  BY <1>8 DEF AutoFlushDone, Return, TypeOK, Channels, memory, server
<1>9. CASE SubmitStart
  BY <1>9 DEF SubmitStart, Goto, Channels, memory, requests
<1>10. CASE SubmitFlushSkipped
  BY <1>10 DEF SubmitFlushSkipped, Goto, Channels, memory, requests
<1>11. CASE SubmitFlushDone
  BY <1>11 DEF SubmitFlushDone, Goto, Return, TypeOK, Channels, memory
<1>12. CASE SubmitDone
  BY <1>12 DEF SubmitDone, Return, TypeOK, Channels, memory
<1>13. ASSUME NEW c \in Channels, RequestFails(c) PROVE AwaitedFits'
  <2>1. awaited[c] \in Messages
    BY <1>13 DEF RequestFails, TypeOK
  <2>2. CASE UNCHANGED awaited
    BY <1>13, <2>2 DEF RequestFails, TypeOK, memory
  <2>3. CASE awaited' = [awaited EXCEPT ![c] = [awaited[c] EXCEPT !.try = faults + 1]]
    <3>1. faults + 1 \in 0..MaxFaults
      BY <1>13, WebAssumption DEF WebAssumption, RequestFails, Fault, TypeOK
    <3>2. [awaited[c] EXCEPT !.try = faults + 1] \in Messages
      BY <2>1, <3>1 DEF Messages
    <3>3. [awaited[c] EXCEPT !.try = faults + 1].kind = awaited[c].kind
      BY <2>1 DEF Messages
    <3>4. awaited'[c].kind = awaited[c].kind /\ awaited'[c] # NoMessage
      BY <2>3, <3>2, <3>3, WebAssumption DEF WebAssumption, TypeOK
    <3>5. \A d \in Channels : d # c => awaited'[d] = awaited[d]
      BY <2>3 DEF TypeOK
    <3>6. reply'[c] = reply[c] \/ reply'[c] = "failed"
      BY <1>13 DEF RequestFails, TypeOK
    <3>7. \A d \in Channels : d # c => reply'[d] = reply[d]
      BY <1>13 DEF RequestFails, TypeOK
    <3> QED
      BY <1>13, <2>1, <3>4, <3>5, <3>6, <3>7
      DEF RequestFails, memory, Channels
  <2> QED
    BY <1>13, <2>2, <2>3 DEF RequestFails
<1>14. CASE Reload
  BY <1>14 DEF Reload, Channels
<1>15. CASE LoadRead
  BY <1>15 DEF LoadRead, requests
<1>16. CASE LoadStore \/ LoadFails
  BY <1>16 DEF LoadStore, LoadFails, requests
<1>17. ASSUME NEW m \in wire, StoreBatch(m) \/ HandIn(m) \/ Refuse(m) PROVE AwaitedFits'
  <2>1. PICK r \in {"ok", "refused"} : Respond(m, r)
    BY <1>17 DEF StoreBatch, HandIn, Refuse
  <2>2. m.from \in Channels /\ m # NoMessage
    BY WebAssumption DEF WebAssumption, TypeOK, Messages
  <2>3. \A c \in Channels : reply'[c] # reply[c] => awaited[c] # NoMessage
    BY <2>1, <2>2 DEF Respond, TypeOK
  <2> QED
    BY <1>17, <2>1, <2>3 DEF StoreBatch, HandIn, Refuse, Respond, memory
<1>18. CASE Close \/ UNCHANGED vars
  BY <1>18 DEF Close, vars, memory, requests
<1> QED
  BY <1>1, <1>3, <1>4, <1>5, <1>6, <1>7, <1>8, <1>9, <1>10, <1>11, <1>12, <1>13,
     <1>14, <1>15, <1>16, <1>17, <1>18
  DEF Next, Student, SubmitStep, ServerStep

\* Both hold at the start.
LEMMA InitFacts == ASSUME Init PROVE TypeOK /\ AwaitedFits
<1>1. Empty \in Sheets /\ Answered(Empty) = {}
  BY WebAssumption DEF WebAssumption, Empty, Sheets, Answered, Blank
<1>2. TypeOK
  <2>1. 0 \in 0..MaxEdits /\ 0 \in 0..MaxFaults
    BY WebAssumption DEF WebAssumption
  <2>2. /\ awaited \in [Channels -> Messages \union {NoMessage}]
        /\ reply \in [Channels -> {"none", "ok", "refused", "failed"}]
    BY DEF Init
  <2> QED
    BY <1>1, <2>1, <2>2 DEF Init, TypeOK
<1>3. AwaitedFits
  BY DEF Init, AwaitedFits, Free, Channels
<1> QED
  BY <1>2, <1>3

\* Every reachable state of the page, its requests and the server is well typed;
\* in particular only questions with a record are marked as synced.
THEOREM TypeCorrect == Spec => [](TypeOK /\ AwaitedFits)
  BY InitFacts, TypeStep, FitsStep, PTL DEF Spec

-----------------------------------------------------------------------------
(* What was recorded is kept, and the page is left only after a hand-in.   *)

\* The server never loses a row, its paper or the end of the session.
LEMMA ServerFacts ==
    ASSUME TypeOK, [Next]_vars
    PROVE  /\ Answered(rows) \subseteq Answered(rows')
           /\ handed # NoSheet => handed' # NoSheet
           /\ status # "open" => status' = status
           /\ \/ status' = status /\ handed' = handed
              \/ status' = "closed" /\ status = "open" /\ handed' = handed
              \/ status' = "submitted" /\ status = "open" /\ handed' # NoSheet
<1>1. ASSUME NEW m \in wire, StoreBatch(m)
      PROVE  /\ Answered(rows) \subseteq Answered(rows')
             /\ UNCHANGED <<status, handed>>
  <2>1. m.sheet \in Sheets
    BY DEF TypeOK, Messages
  <2>2. Answered(Over(m.sheet, rows)) = Answered(m.sheet) \union Answered(rows)
    BY <2>1, SheetFacts DEF TypeOK
  <2> QED
    BY <1>1, <2>2 DEF StoreBatch
<1>2. ASSUME NEW m \in wire, HandIn(m)
      PROVE  /\ rows' = rows
             /\ \/ UNCHANGED <<status, handed>>
                \/ status' = "submitted" /\ status = "open" /\ handed' # NoSheet
  BY <1>2, WebAssumption DEF WebAssumption, HandIn, TypeOK
<1>3. CASE Close
  BY <1>3 DEF Close, Answered
<1>4. CASE UNCHANGED server
  BY <1>4 DEF server, Answered
<1>5. UNCHANGED server \/ Close \/ \E m \in wire : StoreBatch(m) \/ HandIn(m)
  BY DEF Next, vars, Student, SubmitStep, ServerStep, TypingSettles, Choose, Type, SyncStart,
         SyncDone, AutoFlush, SendFlush, AutoFlushDone, SubmitStart, SubmitFlush,
         SubmitFlushSkipped, SubmitFlushDone, SubmitSend, SubmitDone, RequestFails, Reload,
         LoadRead, LoadStore, LoadFails, Refuse
<1> QED
  BY <1>1, <1>2, <1>3, <1>4, <1>5 DEF Answered

\* A request is answered well only by what the server did for it.
LEMMA ReplyFacts ==
    ASSUME TypeOK, AwaitedFits, [Next]_vars, NEW c \in Channels, Done(c)'
    PROVE  \/ awaited'[c] = awaited[c] /\ reply'[c] = reply[c]
           \/ awaited'[c] \in wire /\ StoreBatch(awaited'[c]) /\ status = "open"
           \/ awaited'[c] \in wire /\ HandIn(awaited'[c]) /\ status # "closed"
<1> USE DEF Done, Free
<1>1. CASE UNCHANGED <<awaited, reply>>
  BY <1>1
<1>2. ASSUME NEW d \in Channels, NEW kind, NEW sheet, Send(d, kind, sheet)
      PROVE  awaited'[c] = awaited[c] /\ reply'[c] = reply[c]
  BY <1>2 DEF Send, AwaitedFits, TypeOK
<1>3. ASSUME NEW d \in Channels, Return(d)
      PROVE  awaited'[c] = awaited[c] /\ reply'[c] = reply[c]
  BY <1>3 DEF Return, TypeOK
<1>4. ASSUME NEW d \in Channels, RequestFails(d)
      PROVE  awaited'[c] = awaited[c] /\ reply'[c] = reply[c]
  BY <1>4 DEF RequestFails, TypeOK
<1>5. CASE Reload
  BY <1>5 DEF Reload
<1>6. ASSUME NEW m \in wire, StoreBatch(m) \/ HandIn(m) \/ Refuse(m)
      PROVE  \/ awaited'[c] = awaited[c] /\ reply'[c] = reply[c]
             \/ awaited'[c] = m /\ StoreBatch(m) /\ status = "open"
             \/ awaited'[c] = m /\ HandIn(m) /\ status # "closed"
  <2>1. m.from \in Channels
    BY DEF TypeOK, Messages
  <2>2. CASE StoreBatch(m)
    BY <2>1, <2>2 DEF StoreBatch, Respond, TypeOK
  <2>3. CASE HandIn(m)
    BY <2>1, <2>3 DEF HandIn, Respond, TypeOK
  <2>4. CASE Refuse(m)
    BY <2>1, <2>4 DEF Refuse, Respond, TypeOK
  <2> QED
    BY <1>6, <2>2, <2>3, <2>4
<1>7. SyncStart => \E sheet : Send("worker", "batch", sheet)
  BY DEF SyncStart
<1>8. AutoFlush => Send("autosave", "batch", answers)
  BY DEF AutoFlush, SendFlush
<1>9. /\ SubmitFlush => Send("submit", "batch", answers)
      /\ SubmitSend => Send("submit", "submit", Empty)
  BY DEF SubmitFlush, SendFlush, SubmitSend
<1>10. /\ SyncDone => Return("worker")
       /\ AutoFlushDone => Return("autosave")
       /\ SubmitFlushDone => Return("submit")
       /\ SubmitDone => Return("submit")
  BY DEF SyncDone, AutoFlushDone, SubmitFlushDone, SubmitDone
<1>11. CASE \/ Student \/ SubmitStart \/ SubmitFlushSkipped \/ LoadRead \/ LoadStore
            \/ LoadFails \/ Close \/ UNCHANGED vars
  BY <1>11
  DEF Student, TypingSettles, Choose, Type, SubmitStart, SubmitFlushSkipped, LoadRead,
      LoadStore, LoadFails, Close, vars, requests
<1> QED
  BY <1>2, <1>3, <1>4, <1>5, <1>6, <1>7, <1>8, <1>9, <1>10, <1>11
  DEF Next, SubmitStep, ServerStep, Channels

\* An answered request stays done.
LEMMA DoneStep ==
    ASSUME TypeOK, AwaitedFits, AnsweredIsDone, [Next]_vars
    PROVE  AnsweredIsDone'
<1>1. ASSUME NEW c \in Channels, Done(c)'
      PROVE  IF awaited'[c].kind = "batch"
             THEN Answered(awaited'[c].sheet) \subseteq Answered(rows')
             ELSE handed' # NoSheet
  <2>1. CASE awaited'[c] = awaited[c] /\ reply'[c] = reply[c]
    BY <1>1, <2>1, ServerFacts DEF AnsweredIsDone, Done, Free
  <2>2. CASE awaited'[c] \in wire /\ StoreBatch(awaited'[c]) /\ status = "open"
    <3>1. awaited'[c].sheet \in Sheets
      BY <2>2 DEF TypeOK, Messages
    <3>2. Answered(awaited'[c].sheet) \subseteq Answered(Over(awaited'[c].sheet, rows))
      BY <3>1, SheetFacts DEF TypeOK
    <3> QED
      BY <2>2, <3>2 DEF StoreBatch
  <2>3. CASE awaited'[c] \in wire /\ HandIn(awaited'[c]) /\ status # "closed"
    BY <2>3, WebAssumption DEF WebAssumption, HandIn, AnsweredIsDone, TypeOK
  <2> QED
    BY <1>1, <2>1, <2>2, <2>3, ReplyFacts
<1>2. loaded' # NoSheet => Answered(loaded') \subseteq Answered(rows')
  <2>1. loaded' = loaded \/ loaded' = NoSheet \/ loaded' = rows
    BY DEF Next, vars, memory, Student, SubmitStep, ServerStep, TypingSettles, Choose, Type,
           SyncStart, SyncDone, AutoFlush, SendFlush, AutoFlushDone, SubmitStart, SubmitFlush,
           SubmitFlushSkipped, SubmitFlushDone, SubmitSend, SubmitDone, RequestFails, Reload,
           LoadRead, LoadStore, LoadFails, StoreBatch, HandIn, Refuse, Close
  <2> QED
    BY <2>1, ServerFacts DEF AnsweredIsDone
<1>3. handed' # NoSheet <=> status' = "submitted"
  BY ServerFacts DEF AnsweredIsDone
<1> QED
  BY <1>1, <1>2, <1>3 DEF AnsweredIsDone, Done, Free

-----------------------------------------------------------------------------
\* A submit that succeeded was handed in.
LEMMA SucceededMeans ==
    ASSUME TokenRefresh = FALSE, TypeOK, AwaitedFits, AnsweredIsDone, SubmitDone, Succeeded
    PROVE  handed # NoSheet /\ status = "submitted"
<1>1. Done("submit") /\ awaited["submit"].kind = "submit"
  BY DEF Succeeded, Done, AwaitedFits, SubmitDone, Return, Channels, Free
<1> QED
  BY <1>1 DEF AnsweredIsDone, Channels

\* Only that leaves the page.
LEMMA LeftStep ==
    ASSUME TokenRefresh = FALSE, TypeOK, AwaitedFits, AnsweredIsDone, LeftMeansHandedIn,
           [Next]_vars
    PROVE  LeftMeansHandedIn'
<1>1. CASE SubmitDone
  BY <1>1, SucceededMeans, ServerFacts DEF LeftMeansHandedIn, SubmitDone
<1>2. CASE page' = page \/ page' \in {"open", "loading"}
  BY <1>2, ServerFacts DEF LeftMeansHandedIn
<1>3. SubmitDone \/ page' = page \/ page' \in {"open", "loading"}
  BY DEF Next, vars, Student, SubmitStep, ServerStep, TypingSettles, Choose, Type,
         SyncStart, SyncDone, AutoFlush, SendFlush, AutoFlushDone, SubmitStart, SubmitFlush,
         SubmitFlushSkipped, SubmitFlushDone, SubmitSend, RequestFails, Reload,
         LoadRead, LoadStore, LoadFails, StoreBatch, HandIn, Refuse, Close
<1> QED
  BY <1>1, <1>2, <1>3

\* A record is unmarked, or stored, and never forgotten.
LEMMA KeptStep ==
    ASSUME TokenRefresh = FALSE, TypeOK, AwaitedFits, AnsweredIsDone, RecordedIsKept,
           [Next]_vars
    PROVE  RecordedIsKept'
<1> SUFFICES ASSUME status' = "open"
             PROVE  recorded' \subseteq Answered(rows') \union Unsynced'
  BY DEF RecordedIsKept
<1>1. status = "open" /\ recorded \subseteq Answered(rows) \union Unsynced
  BY ServerFacts DEF RecordedIsKept
<1>2. Answered(rows) \subseteq Answered(rows')
  BY ServerFacts
<1>3. ASSUME NEW sheet \in Sheets, Record(sheet)
      PROVE  recorded' \subseteq Answered(rows') \union Unsynced'
  <2>1. Answered(records') = Answered(records) \union Answered(sheet)
    BY <1>3, RecordFacts
  <2>2. Unsynced' = Answered(records') \ synced'
    BY DEF Unsynced, Answered
  <2> QED
    BY <1>1, <1>2, <1>3, <2>1, <2>2 DEF Record, Unsynced
<1>4. CASE UNCHANGED <<records, synced, recorded>>
  BY <1>1, <1>2, <1>4 DEF Unsynced, Answered
<1>5. CASE SyncDone
  <2>1. reply["worker"] = "ok" => Sent \subseteq Answered(rows)
    BY <1>5 DEF SyncDone, Return, AwaitedFits, AnsweredIsDone, Done, Free, Sent, Channels
  <2>2. Unsynced \subseteq Unsynced' \union Answered(rows)
    BY <1>5, <2>1 DEF SyncDone, Unsynced, Answered
  <2> QED
    BY <1>1, <1>2, <1>5, <2>2 DEF SyncDone
<1>6. CASE SubmitDone
  <2>1. ~Succeeded
    BY <1>1, <1>6, SucceededMeans
  <2> QED
    BY <1>4, <1>6, <2>1 DEF SubmitDone
<1>7. CASE LoadStore
  <2>1. loaded \in Sheets /\ Answered(loaded) \subseteq Answered(rows)
    BY <1>7 DEF LoadStore, AnsweredIsDone, TypeOK
  <2>2. Answered(records') = Answered(records) \union Answered(loaded)
    BY <1>7, <2>1, SheetFacts DEF LoadStore, TypeOK
  <2>3. Unsynced' = Answered(records') \ synced'
    BY DEF Unsynced, Answered
  <2> QED
    BY <1>1, <1>2, <1>7, <2>1, <2>2, <2>3 DEF LoadStore, Unsynced
<1>8. CASE TypingSettles \/ \E q \in Questions : Choose(q)
  BY <1>3, <1>8, EditFacts DEF TypingSettles, Choose, TypeOK
<1>9. \/ UNCHANGED <<records, synced, recorded>>
      \/ SyncDone \/ SubmitDone \/ LoadStore \/ TypingSettles \/ \E q \in Questions : Choose(q)
  BY DEF Next, vars, storage, Student, SubmitStep, ServerStep, Type,
         SyncStart, AutoFlush, SendFlush, AutoFlushDone, SubmitStart, SubmitFlush,
         SubmitFlushSkipped, SubmitFlushDone, SubmitSend, RequestFails, Reload,
         LoadRead, LoadFails, StoreBatch, HandIn, Refuse, Close
<1> QED
  BY <1>4, <1>5, <1>6, <1>7, <1>8, <1>9

\* The invariant behind both theorems.
LEMMA KeptIsInductive ==
    TokenRefresh = FALSE => (Spec => [](TypeOK /\ KeptInv))
<1> SUFFICES ASSUME TokenRefresh = FALSE PROVE Spec => [](TypeOK /\ KeptInv)
  OBVIOUS
<1>1. Init => TypeOK /\ KeptInv
  <2> SUFFICES ASSUME Init PROVE KeptInv
    BY InitFacts
  <2> QED
    BY InitFacts
    DEF Init, KeptInv, AnsweredIsDone, Done, Free, RecordedIsKept, LeftMeansHandedIn
<1>2. TypeOK /\ KeptInv /\ [Next]_vars => TypeOK' /\ KeptInv'
  BY TypeStep, FitsStep, DoneStep, LeftStep, KeptStep DEF KeptInv
<1> QED
  BY <1>1, <1>2, PTL DEF Spec

\* As long as no access token expires: while the session is open, no question
\* that reached IndexedDB is forgotten by lost or repeated requests, reloads,
\* restores or edits: its answer is stored or still to be sent.
THEOREM RecordedAnswersAreKept == TokenRefresh = FALSE => (Spec => []RecordedIsKept)
  BY KeptIsInductive, PTL DEF KeptInv

\* Under the same condition the page is left only after the paper was handed in.
THEOREM LeavingMeansHandedIn == TokenRefresh = FALSE => (Spec => []LeftMeansHandedIn)
  BY KeptIsInductive, PTL DEF KeptInv

-----------------------------------------------------------------------------
(* What the flush before a submit has saved is handed in.                  *)

\* What the variables hold are sheets, and revisions are numbers.
LEMMA TypedSheets ==
    ASSUME TypeOK
    PROVE  /\ {answers, typing, records, rows, sure} \subseteq Sheets
           /\ loaded # NoSheet => loaded \in Sheets
           /\ \A m \in wire : m \in Messages /\ m.sheet \in Sheets
           /\ \A c \in Channels : ~Free(c) => awaited[c] \in Messages /\ awaited[c].sheet \in Sheets
           /\ edits \in Nat /\ faults \in Nat
           /\ \A sheet \in Sheets, q \in Questions : sheet[q] \in Nat
BY WebAssumption DEF WebAssumption, TypeOK, Messages, Free, Sheets

\* Putting a sheet on another one keeps what is true of both.
LEMMA OverKeeps ==
    ASSUME NEW top \in Sheets, NEW sheet \in Sheets, NEW old \in Sheets
    PROVE  /\ NotAhead(top) /\ NotAhead(sheet) => NotAhead(Over(top, sheet))
           /\ AtLeast(top, old) /\ AtLeast(sheet, old) => AtLeast(Over(top, sheet), old)
           /\ AtLeast(top, old) /\ Reached(sheet, old) => Reached(Over(top, sheet), old)
           /\ Reached(Over(top, sheet), top)
BY WebAssumption DEF WebAssumption, NotAhead, AtLeast, Reached, Over, Sheets, Blank

\* Nothing of a batch is older than the sheet that it is a part of.
LEMMA OnlyKeeps ==
    ASSUME NEW sheet \in Sheets, NEW set, NEW old \in Sheets
    PROVE  /\ NotAhead(sheet) /\ edits \in Nat => NotAhead(Only(sheet, set))
           /\ AtLeast(sheet, old) => AtLeast(Only(sheet, set), old)
           /\ AtLeast(Empty, old)
           /\ Reached(sheet, old) => AtLeast(sheet, old)
BY WebAssumption DEF WebAssumption, NotAhead, AtLeast, Reached, Only, Empty, Sheets, Blank

\* The part of the page that an action leaves alone.
LEMMA FlushInvUnchanged ==
    ASSUME FlushInv, UNCHANGED <<page, memory, records, stage, requests, rows, handed, edits, history>>
    PROVE  FlushInv'
BY DEF FlushInv, AwaitedIsSent, Free, RevisionsFit, NotAhead, SureIsSafe, NothingOlder,
       AtLeast, Reached, AloneIsSafe, FlushedIsHandedIn, memory, requests, history

\* An edit is newer than everything.
LEMMA EditingStep ==
    ASSUME TypeOK, AwaitedFits, FlushInv, Student
    PROVE  FlushInv'
<1> USE DEF FlushInv
<1>0. /\ {answers, typing, records, rows, sure} \subseteq Sheets /\ edits \in Nat
      /\ \A m \in wire : m.sheet \in Sheets
      /\ ~Free("submit") => awaited["submit"].sheet \in Sheets
  BY TypedSheets DEF Channels
<1>1. CASE TypingSettles
  <2>1. /\ records' = Over(typing, records) /\ typing' = Empty
        /\ UNCHANGED <<page, answers, loaded, stage, requests, server, edits, history>>
    BY <1>1 DEF TypingSettles, Record, bounds
  <2>2. \A old \in Sheets : AtLeast(records, old) => AtLeast(records', old)
    BY <1>0, <2>1, OverKeeps DEF RevisionsFit, AtLeast
  <2>3. \A q \in Questions \ TextQuestions : records'[q] = records[q]
    BY <2>1 DEF RevisionsFit, Over
  <2>4. NotAhead(records') /\ NotAhead(typing')
    BY <1>0, <2>1, OverKeeps DEF RevisionsFit, NotAhead, Empty, Blank
  <2>5. RevisionsFit'
    BY <2>1, <2>3, <2>4 DEF RevisionsFit, NotAhead, Free, requests, server, Empty, Blank
  <2>6. SureIsSafe' /\ AloneIsSafe'
    BY <1>0, <2>1, <2>2
    DEF SureIsSafe, AloneIsSafe, NothingOlder, AtLeast, Reached, Free, requests, server, history
  <2> QED
    BY <2>1, <2>5, <2>6 DEF AwaitedIsSent, Free, FlushedIsHandedIn, requests, server, history
<1>2. ASSUME NEW q \in Questions, Choose(q) \/ Type(q) PROVE FlushInv'
  <2>1. /\ answers' = [answers EXCEPT ![q] = edits + 1] /\ edits' = edits + 1
        /\ UNCHANGED <<page, loaded, stage, requests, server, history>>
    BY <1>2 DEF Choose, Type, Edit
  <2>2. \/ q \notin TextQuestions /\ records' = Over(Edited(q), records) /\ typing' = typing
        \/ q \in TextQuestions /\ records' = records /\ typing' = Edited(q)
    BY <1>2 DEF Choose, Type, Record, storage
  <2>3. Edited(q) = [p \in Questions |-> IF p = q THEN edits + 1 ELSE 0]
    BY DEF Edited, Empty, Blank
  <2>4. \A p \in Questions : records'[p] = IF p = q /\ q \notin TextQuestions
                                          THEN edits + 1 ELSE records[p]
    BY <1>0, <2>2, <2>3 DEF Over, Blank
  <2>5. \A p \in Questions : typing'[p] = typing[p] \/ (q \in TextQuestions /\ p = q /\ typing'[p] = edits + 1)
                               \/ typing'[p] = 0
    BY <2>2, <2>3
  <2>6. \A sheet \in Sheets, p \in Questions : sheet[p] <= edits => sheet[p] <= edits'
    BY <1>0, <2>1, TypedSheets
  <2>7. RevisionsFit'
    <3>1. (NotAhead(answers) /\ NotAhead(typing) /\ NotAhead(records))'
      BY <1>0, <2>1, <2>4, <2>5, <2>6 DEF RevisionsFit, NotAhead, Sheets
    <3>2. \A p \in Questions \ TextQuestions : typing'[p] = Blank
      BY <2>5 DEF RevisionsFit, Blank
    <3>3. page' # "left" => \A p \in Questions \ TextQuestions : answers'[p] <= records'[p]
      BY <1>0, <2>1, <2>4 DEF RevisionsFit, Sheets
    <3>4. \A m \in wire' : NotAhead(m.sheet)'
      BY <1>0, <2>1, <2>6 DEF RevisionsFit, NotAhead, requests
    <3>5. NotAhead(rows)' /\ (loaded' # NoSheet => NotAhead(loaded)')
      BY <1>0, <2>1, <2>6, TypedSheets DEF RevisionsFit, NotAhead, server
    <3>6. \A c \in Channels : ~Free(c)' => NotAhead(awaited[c].sheet)'
      BY <2>1, <2>6, TypedSheets DEF RevisionsFit, NotAhead, Free, requests
    <3> QED
      BY <3>1, <3>2, <3>3, <3>4, <3>5, <3>6 DEF RevisionsFit, NotAhead
  <2>9. ASSUME NEW p \in Questions \ TextQuestions PROVE sure[p] <= edits
    BY <1>0, TypedSheets DEF SureIsSafe, Reached, RevisionsFit, NotAhead
  <2>10. ASSUME NEW old \in Sheets, NothingOlder(old), \A p \in Questions \ TextQuestions : old[p] <= edits
         PROVE  /\ AtLeast(records', old) /\ AtLeast(answers', old)
                /\ \A m \in wire' : AtLeast(m.sheet, old)
    <3>1. AtLeast(records', old) /\ AtLeast(answers', old)
      BY <1>0, <2>1, <2>4, <2>10, TypedSheets DEF NothingOlder, AtLeast, Sheets, Blank
    <3> QED
      BY <2>1, <2>10, <3>1 DEF NothingOlder, requests
  <2>11. SureIsSafe'
    <3>1. NothingOlder(sure)'
      BY <1>0, <2>1, <2>9, <2>10 DEF SureIsSafe, history, NothingOlder
    <3> QED
      BY <2>1, <3>1 DEF SureIsSafe, Reached, server, history
  <2>12. AloneIsSafe'
    <3> SUFFICES ASSUME alone PROVE AloneIsSafe'
      BY <2>1 DEF AloneIsSafe, history
    <3>1. /\ awaited["submit"].sheet \in Sheets /\ NothingOlder(awaited["submit"].sheet)
          /\ NotAhead(awaited["submit"].sheet)
      BY <1>0 DEF AloneIsSafe, RevisionsFit, Channels
    <3>2. NothingOlder(awaited["submit"].sheet)'
      BY <2>1, <2>10, <3>1 DEF NotAhead, requests, NothingOlder
    <3> QED
      BY <2>1, <3>2 DEF AloneIsSafe, Free, Reached, requests, server, history
  <2> QED
    BY <2>1, <2>7, <2>11, <2>12 DEF AwaitedIsSent, Free, FlushedIsHandedIn, requests, server, history
<1> QED
  BY <1>1, <1>2 DEF Student

\* A request may carry whatever is not older than what is sure.
LEMMA SendKeeps ==
    ASSUME TypeOK, AwaitedFits, FlushInv,
           NEW c \in Channels, NEW kind \in {"batch", "submit"}, NEW sheet \in Sheets,
           Send(c, kind, sheet), NotAhead(sheet), AtLeast(sheet, sure),
           UNCHANGED <<page, answers, records, loaded, rows, handed, edits, sure>>,
           typing' \in {typing, Empty}
    PROVE  /\ AwaitedIsSent' /\ RevisionsFit' /\ SureIsSafe' /\ FlushedIsHandedIn'
           /\ /\ kind = "batch" /\ UNCHANGED <<stage, alone>>
              /\ alone => AtLeast(sheet, awaited["submit"].sheet)
              => AloneIsSafe'
<1> USE DEF FlushInv
<1> DEFINE m == [from |-> c, try |-> faults, kind |-> kind, sheet |-> sheet]
<1>0. m \in Messages /\ m # NoMessage /\ m.from = c /\ m.kind = kind /\ m.sheet = sheet
  BY WebAssumption DEF WebAssumption, Messages, TypeOK
<1>1. /\ Free(c) /\ awaited' = [awaited EXCEPT ![c] = m] /\ wire' = wire \union {m}
      /\ reply' = reply
  BY DEF Send
<1> HIDE DEF m
<1>2. /\ \A d \in Channels : awaited'[d] = IF d = c THEN m ELSE awaited[d]
      /\ \A d \in Channels \ {c} : ~Free(d)' => ~Free(d)
      /\ ~Free(c)'
  BY <1>0, <1>1 DEF TypeOK, Free
<1>3. AwaitedIsSent'
  BY <1>0, <1>1, <1>2 DEF AwaitedIsSent
<1>4. RevisionsFit'
  <2>1. \A q \in Questions \ TextQuestions : typing'[q] = Blank
    BY DEF RevisionsFit, Empty
  <2>2. NotAhead(typing)'
    BY TypedSheets DEF RevisionsFit, NotAhead, Empty, Blank
  <2>3. \A x \in wire' : NotAhead(x.sheet)'
    BY <1>0, <1>1 DEF RevisionsFit, NotAhead
  <2>4. \A d \in Channels : ~Free(d)' => NotAhead(awaited[d].sheet)'
    BY <1>0, <1>2 DEF RevisionsFit, NotAhead
  <2> QED
    BY <2>1, <2>2, <2>3, <2>4 DEF RevisionsFit, NotAhead
<1>5. SureIsSafe' /\ FlushedIsHandedIn'
  BY <1>0, <1>1 DEF SureIsSafe, NothingOlder, AtLeast, Reached, FlushedIsHandedIn
<1>6. ASSUME kind = "batch", UNCHANGED <<stage, alone>>,
             alone => AtLeast(sheet, awaited["submit"].sheet)
      PROVE  AloneIsSafe'
  <2> SUFFICES ASSUME alone PROVE AloneIsSafe'
    BY <1>6 DEF AloneIsSafe
  <2>1. c # "submit" /\ awaited'["submit"] = awaited["submit"] /\ ~Free("submit")'
    BY <1>1, <1>2 DEF AloneIsSafe, Free, Channels
  <2>2. NothingOlder(awaited["submit"].sheet)'
    BY <1>0, <1>1, <1>6, <2>1 DEF AloneIsSafe, NothingOlder, AtLeast
  <2> QED
    BY <1>0, <1>1, <1>6, <2>1, <2>2 DEF AloneIsSafe, Reached
<1> QED
  BY <1>3, <1>4, <1>5, <1>6

\* The page sends what it shows or has recorded.
LEMMA SendingStep ==
    ASSUME TypeOK, AwaitedFits, FlushInv, SyncStart \/ AutoFlush \/ SubmitFlush \/ SubmitSend
    PROVE  FlushInv'
<1> USE DEF FlushInv
<1>0. /\ {answers, records, sure} \subseteq Sheets /\ edits \in Nat
      /\ ~Free("submit") => awaited["submit"].sheet \in Sheets
      /\ NotAhead(answers) /\ NotAhead(records) /\ AtLeast(answers, sure) /\ AtLeast(records, sure)
      /\ alone => /\ ~Free("submit") /\ stage = "flush"
                  /\ AtLeast(answers, awaited["submit"].sheet)
                  /\ AtLeast(records, awaited["submit"].sheet)
  BY TypedSheets DEF Channels, RevisionsFit, SureIsSafe, AloneIsSafe, NothingOlder
<1>1. CASE SyncStart
  <2>1. PICK batch \in SUBSET Unsynced : Send("worker", "batch", Only(records, batch))
    BY <1>1 DEF SyncStart
  <2> DEFINE sheet == Only(records, batch)
  <2>2. sheet \in Sheets /\ NotAhead(sheet) /\ AtLeast(sheet, sure)
    BY <1>0, SheetFacts, OnlyKeeps
  <2>3. alone => AtLeast(sheet, awaited["submit"].sheet)
    BY <1>0, OnlyKeeps
  <2>4. UNCHANGED <<page, answers, records, loaded, rows, handed, edits, sure, typing, stage, alone>>
    BY <1>1 DEF SyncStart, memory, storage, server, bounds, history
  <2> HIDE DEF sheet
  <2> QED
    BY <2>1, <2>2, <2>3, <2>4, SendKeeps DEF Channels, sheet
<1>2. CASE AutoFlush
  <2>1. /\ Send("autosave", "batch", answers) /\ typing' = Empty
        /\ UNCHANGED <<page, answers, records, loaded, rows, handed, edits, sure, stage, alone>>
    BY <1>2 DEF AutoFlush, SendFlush, storage, server, bounds, history
  <2> QED
    BY <1>0, <2>1, SendKeeps DEF Channels
<1>3. CASE SubmitFlush
  <2>1. /\ Send("submit", "batch", answers) /\ typing' = Empty
        /\ stage = "flush" /\ stage' = stage /\ alone' = (wire = {})
        /\ UNCHANGED <<page, answers, records, loaded, rows, handed, edits, sure>>
    BY <1>3 DEF SubmitFlush, SendFlush, storage, server, bounds
  <2>2. AwaitedIsSent' /\ RevisionsFit' /\ SureIsSafe' /\ FlushedIsHandedIn'
    BY <1>0, <2>1, SendKeeps DEF Channels
  <2>3. AloneIsSafe'
    <3> SUFFICES ASSUME wire = {} PROVE AloneIsSafe'
      BY <2>1 DEF AloneIsSafe
    <3> DEFINE m == [from |-> "submit", try |-> faults, kind |-> "batch", sheet |-> answers]
    <3>1. m \in Messages /\ m # NoMessage
      BY <1>0, WebAssumption DEF WebAssumption, Messages, TypeOK, Channels
    <3>2. /\ awaited'["submit"] = m /\ wire' = {m} /\ reply' = reply /\ Free("submit")
          /\ m.sheet = answers /\ m.kind = "batch"
      BY <2>1 DEF Send, TypeOK, Channels
    <3> HIDE DEF m
    <3>3. reply["submit"] = "none" /\ ~Free("submit")'
      BY <3>1, <3>2 DEF AwaitedFits, Channels, Free
    <3>4. page # "left"
      BY <2>1 DEF AwaitedFits
    <3>5. NothingOlder(awaited["submit"].sheet)'
      BY <1>0, <2>1, <3>2, <3>4, TypedSheets DEF NothingOlder, AtLeast, RevisionsFit
    <3> QED
      BY <2>1, <3>2, <3>3, <3>5 DEF AloneIsSafe
  <2> QED
    BY <2>2, <2>3
<1>4. CASE SubmitSend
  <2>1. /\ Send("submit", "submit", Empty) /\ stage = "submit"
        /\ UNCHANGED <<page, answers, records, loaded, rows, handed, edits, sure, typing, stage, alone>>
    BY <1>4 DEF SubmitSend, memory, storage, server, bounds, history
  <2>2. Empty \in Sheets /\ NotAhead(Empty) /\ AtLeast(Empty, sure)
    BY <1>0, WebAssumption DEF WebAssumption, NotAhead, AtLeast, Sheets, Empty, Blank
  <2>3. AwaitedIsSent' /\ RevisionsFit' /\ SureIsSafe' /\ FlushedIsHandedIn'
    BY <2>1, <2>2, SendKeeps DEF Channels
  <2>4. ~alone'
    BY <1>0, <2>1
  <2> QED
    BY <2>3, <2>4 DEF AloneIsSafe
<1> QED
  BY <1>1, <1>2, <1>3, <1>4

\* A request that has returned leaves the others as they were.
LEMMA ReturnKeeps ==
    ASSUME TypeOK, AwaitedFits, FlushInv, NEW c \in Channels, Return(c)
    PROVE  /\ wire' = wire /\ Free(c)' /\ reply'[c] = "none"
           /\ \A d \in Channels \ {c} : awaited'[d] = awaited[d] /\ reply'[d] = reply[d]
           /\ AwaitedIsSent'
<1>1. /\ wire' = wire /\ awaited' = [awaited EXCEPT ![c] = NoMessage]
      /\ reply' = [reply EXCEPT ![c] = "none"]
  BY DEF Return
<1>2. /\ Free(c)' /\ reply'[c] = "none"
      /\ \A d \in Channels \ {c} : awaited'[d] = awaited[d] /\ reply'[d] = reply[d]
  BY <1>1 DEF TypeOK, Free
<1> QED
  BY <1>1, <1>2 DEF FlushInv, AwaitedIsSent, Free

\* A returning request marks records, ends a stage or clears the page.
LEMMA ReturningStep ==
    ASSUME TypeOK, AwaitedFits, AnsweredIsDone, FlushInv,
           SyncDone \/ AutoFlushDone \/ SubmitFlushDone \/ SubmitDone
    PROVE  FlushInv'
<1> USE DEF FlushInv
<1>0. "worker" \in Channels /\ "autosave" \in Channels /\ "submit" \in Channels
  BY DEF Channels
<1>1. ASSUME NEW c \in {"worker", "autosave"}, SyncDone \/ AutoFlushDone, Return(c)
      PROVE  FlushInv'
  <2>1. UNCHANGED <<page, memory, records, stage, rows, handed, edits, history>>
    BY <1>1 DEF SyncDone, AutoFlushDone, memory, storage, server, bounds, history
  <2>2. /\ wire' = wire /\ AwaitedIsSent'
        /\ awaited'["submit"] = awaited["submit"] /\ reply'["submit"] = reply["submit"]
        /\ \A d \in Channels : ~Free(d)' => ~Free(d) /\ awaited'[d] = awaited[d]
    BY <1>0, <1>1, ReturnKeeps DEF Free
  <2>3. RevisionsFit'
    BY <2>1, <2>2 DEF RevisionsFit, NotAhead, memory
  <2>4. SureIsSafe' /\ AloneIsSafe' /\ FlushedIsHandedIn'
    BY <2>1, <2>2
    DEF SureIsSafe, AloneIsSafe, FlushedIsHandedIn, NothingOlder, AtLeast, Reached, Free,
        memory, history
  <2> QED
    BY <2>2, <2>3, <2>4
<1>2. ASSUME SubmitFlushDone \/ SubmitDone
      PROVE  /\ wire' = wire /\ AwaitedIsSent' /\ ~alone'
             /\ \A d \in Channels : ~Free(d)' => ~Free(d) /\ awaited'[d] = awaited[d]
             /\ UNCHANGED <<answers, typing, loaded, rows, handed, edits>>
  <2>1. Return("submit")
    BY <1>2 DEF SubmitFlushDone, SubmitDone
  <2>2. /\ wire' = wire /\ AwaitedIsSent'
        /\ \A d \in Channels : ~Free(d)' => ~Free(d) /\ awaited'[d] = awaited[d]
    BY <1>0, <2>1, ReturnKeeps DEF Free
  <2>3. ~alone'
    BY <1>2 DEF SubmitFlushDone, SubmitDone, AloneIsSafe, history
  <2> QED
    BY <1>2, <2>2, <2>3 DEF SubmitFlushDone, SubmitDone, memory, server, bounds
<1>3. CASE SubmitFlushDone
  <2>1. /\ UNCHANGED <<page, records>> /\ Return("submit")
        /\ sure' = IF alone /\ reply["submit"] = "ok" THEN awaited["submit"].sheet ELSE sure
    BY <1>3 DEF SubmitFlushDone, storage
  <2>2. RevisionsFit'
    BY <1>2, <1>3, <2>1 DEF RevisionsFit, NotAhead
  <2>3. SureIsSafe' /\ FlushedIsHandedIn'
    <3>1. CASE alone /\ reply["submit"] = "ok"
      <4>1. /\ NothingOlder(awaited["submit"].sheet) /\ Reached(rows, awaited["submit"].sheet)
            /\ handed = NoSheet /\ stage = "flush"
        BY <3>1 DEF AloneIsSafe
      <4>2. loaded = NoSheet
        BY <4>1 DEF AwaitedFits
      <4> QED
        BY <1>2, <1>3, <2>1, <3>1, <4>1, <4>2
        DEF SureIsSafe, FlushedIsHandedIn, NothingOlder, AtLeast, Reached
    <3>2. CASE ~(alone /\ reply["submit"] = "ok")
      BY <1>2, <1>3, <2>1, <3>2
      DEF SureIsSafe, FlushedIsHandedIn, NothingOlder, AtLeast, Reached
    <3> QED
      BY <3>1, <3>2
  <2> QED
    BY <1>2, <1>3, <2>2, <2>3 DEF AloneIsSafe
<1>4. CASE SubmitDone
  <2>1. /\ sure' = sure
        /\ (page' = "left" /\ records' = Empty) \/ UNCHANGED <<page, records>>
    BY <1>4 DEF SubmitDone, history
  <2>2. \A q \in Questions : Empty[q] = 0
    BY DEF Empty, Blank
  <2>3. RevisionsFit'
    BY <1>2, <1>4, <2>1, <2>2, TypedSheets DEF RevisionsFit, NotAhead
  <2>4. SureIsSafe' /\ FlushedIsHandedIn'
    BY <1>2, <1>4, <2>1, <2>2
    DEF SureIsSafe, FlushedIsHandedIn, NothingOlder, AtLeast, Reached, Blank
  <2> QED
    BY <1>2, <1>4, <2>3, <2>4 DEF AloneIsSafe
<1> QED
  BY <1>1, <1>3, <1>4 DEF SyncDone, AutoFlushDone

\* A repeated request carries what is on its way already.
LEMMA FailingStep ==
    ASSUME TypeOK, AwaitedFits, FlushInv, NEW c \in Channels, RequestFails(c)
    PROVE  FlushInv'
<1> USE DEF FlushInv
<1>0. /\ ~Free(c) /\ reply[c] = "none" /\ awaited[c] \in wire /\ awaited[c].from = c
      /\ UNCHANGED <<page, memory, records, stage, rows, handed, edits, sure>>
  BY DEF RequestFails, AwaitedIsSent, storage, server
<1>1. CASE /\ reply' = [reply EXCEPT ![c] = "failed"]
           /\ UNCHANGED <<awaited, wire, alone>>
  <2>1. AwaitedIsSent'
    BY <1>0, <1>1 DEF AwaitedIsSent, Free, TypeOK
  <2>2. RevisionsFit' /\ SureIsSafe' /\ FlushedIsHandedIn'
    BY <1>0, <1>1
    DEF RevisionsFit, NotAhead, SureIsSafe, FlushedIsHandedIn, NothingOlder, AtLeast, Reached,
        Free, memory
  <2>3. reply'["submit"] = "ok" => reply["submit"] = "ok"
    BY <1>0, <1>1 DEF TypeOK, Channels
  <2>4. AloneIsSafe'
    BY <1>0, <1>1, <2>3 DEF AloneIsSafe, NothingOlder, AtLeast, Reached, Free, memory
  <2> QED
    BY <2>1, <2>2, <2>4
<1>2. CASE /\ LET m == [awaited[c] EXCEPT !.try = faults + 1] IN
                 awaited' = [awaited EXCEPT ![c] = m] /\ wire' = wire \union {m}
           /\ alone' = FALSE /\ reply' = reply
  <2> DEFINE m == [awaited[c] EXCEPT !.try = faults + 1]
  <2>1. awaited[c] \in Messages
    BY <1>0, TypedSheets
  <2>2. m.from = c /\ m.sheet = awaited[c].sheet /\ m \in Messages
    <3>1. faults + 1 \in 0..MaxFaults
      BY WebAssumption DEF WebAssumption, RequestFails, Fault, TypeOK
    <3> QED
      BY <1>0, <2>1, <3>1 DEF Messages
  <2>3. /\ \A d \in Channels : awaited'[d] = IF d = c THEN m ELSE awaited[d]
        /\ wire' = wire \union {m}
    BY <1>2 DEF TypeOK
  <2>4. \A d \in Channels : ~Free(d)' => ~Free(d)
    BY <1>0, <2>3 DEF Free
  <2> HIDE DEF m
  <2>5. AwaitedIsSent'
    BY <1>2, <2>2, <2>3, <2>4 DEF AwaitedIsSent
  <2>6. RevisionsFit'
    <3>1. \A x \in wire' : NotAhead(x.sheet)'
      BY <1>0, <2>2, <2>3 DEF RevisionsFit, NotAhead
    <3>2. \A d \in Channels : ~Free(d)' => NotAhead(awaited[d].sheet)'
      BY <1>0, <2>2, <2>3, <2>4 DEF RevisionsFit, NotAhead
    <3> QED
      BY <1>0, <3>1, <3>2 DEF RevisionsFit, NotAhead, memory
  <2>7. SureIsSafe' /\ FlushedIsHandedIn'
    BY <1>0, <2>2, <2>3
    DEF SureIsSafe, FlushedIsHandedIn, NothingOlder, AtLeast, Reached, memory
  <2> QED
    BY <1>2, <2>5, <2>6, <2>7 DEF AloneIsSafe
<1> QED
  BY <1>1, <1>2 DEF RequestFails

\* The page starts again with what the server has.
LEMMA ReloadingStep ==
    ASSUME TypeOK, AwaitedFits, FlushInv, Reload \/ LoadRead \/ LoadStore \/ LoadFails
    PROVE  FlushInv'
<1> USE DEF FlushInv
<1>0. /\ {answers, records, rows, sure} \subseteq Sheets /\ (loaded # NoSheet => loaded \in Sheets)
      /\ \A sheet \in Sheets, q \in Questions : sheet[q] \in Nat
      /\ edits \in Nat /\ \A q \in Questions : Empty[q] = 0
  BY TypedSheets DEF Empty, Blank
<1>1. CASE Reload
  <2>1. /\ page' = "loading" /\ answers' = Empty /\ typing' = Empty /\ loaded' = NoSheet
        /\ alone' = FALSE /\ \A c \in Channels : Free(c)'
        /\ UNCHANGED <<records, wire, rows, handed, edits, sure>>
    BY <1>1 DEF Reload, Free, storage, server
  <2>2. AwaitedIsSent' /\ RevisionsFit'
    BY <1>0, <2>1 DEF AwaitedIsSent, RevisionsFit, NotAhead, Blank
  <2>3. SureIsSafe' /\ FlushedIsHandedIn' /\ AloneIsSafe'
    BY <1>0, <2>1
    DEF SureIsSafe, AloneIsSafe, FlushedIsHandedIn, NothingOlder, AtLeast, Reached, Blank
  <2> QED
    BY <2>2, <2>3
<1>2. CASE LoadRead
  <2>1. /\ loaded' = rows
        /\ UNCHANGED <<page, answers, typing, records, stage, requests, rows, handed, edits, history>>
    BY <1>2 DEF LoadRead, storage, server, bounds
  <2>2. AwaitedIsSent' /\ RevisionsFit'
    BY <2>1 DEF AwaitedIsSent, RevisionsFit, NotAhead, Free, requests
  <2>3. SureIsSafe' /\ FlushedIsHandedIn' /\ AloneIsSafe'
    BY <2>1
    DEF SureIsSafe, AloneIsSafe, FlushedIsHandedIn, NothingOlder, AtLeast, Reached, Free,
        requests, history
  <2> QED
    BY <2>2, <2>3
<1>3. CASE LoadStore
  <2>1. /\ answers' = loaded /\ records' = Over(loaded, records) /\ loaded' = NoSheet
        /\ loaded # NoSheet /\ page = "loading"
        /\ UNCHANGED <<typing, stage, requests, rows, handed, edits, history>>
    BY <1>3 DEF LoadStore, server, bounds
  <2>2. ~alone'
    BY <2>1 DEF AloneIsSafe, AwaitedFits, history
  <2>3. \A q \in Questions : records'[q] = IF loaded[q] = Blank THEN records[q] ELSE loaded[q]
    BY <2>1 DEF Over
  <2>4. RevisionsFit'
    <3>1. \A q \in Questions : answers'[q] <= records'[q] /\ records'[q] <= edits
      BY <1>0, <2>1, <2>3 DEF RevisionsFit, NotAhead, Blank
    <3> QED
      BY <2>1, <3>1 DEF RevisionsFit, NotAhead, Free, requests
  <2>5. SureIsSafe'
    <3>1. AtLeast(loaded, sure) /\ AtLeast(records', sure)
      BY <1>0, <2>1, <2>3 DEF SureIsSafe, NothingOlder, AtLeast, Reached
    <3> QED
      BY <2>1, <3>1 DEF SureIsSafe, NothingOlder, AtLeast, Reached, requests, history
  <2> QED
    BY <2>1, <2>2, <2>4, <2>5
    DEF AwaitedIsSent, AloneIsSafe, FlushedIsHandedIn, Free, requests, history
<1>4. CASE LoadFails
  <2>1. /\ loaded' = NoSheet /\ page = "loading"
        /\ UNCHANGED <<answers, typing, records, stage, requests, rows, handed, edits, history>>
    BY <1>4 DEF LoadFails, storage, server, bounds
  <2>2. AwaitedIsSent' /\ RevisionsFit'
    BY <2>1 DEF AwaitedIsSent, RevisionsFit, NotAhead, Free, requests
  <2>3. SureIsSafe' /\ FlushedIsHandedIn' /\ AloneIsSafe'
    BY <2>1
    DEF SureIsSafe, AloneIsSafe, FlushedIsHandedIn, NothingOlder, AtLeast, Reached, Free,
        requests, history
  <2> QED
    BY <2>2, <2>3
<1> QED
  BY <1>1, <1>2, <1>3, <1>4

\* Only the request that is served gets the reply.
LEMMA ServeKeeps ==
    ASSUME TypeOK, FlushInv, NEW m, Take(m), NEW r \in {"ok", "refused"}, Respond(m, r)
    PROVE  /\ wire' \subseteq wire /\ awaited' = awaited
           /\ AwaitedIsSent'
           /\ \A c \in Channels : reply'[c] = reply[c] \/ (awaited[c] = m /\ reply'[c] = r)
<1>1. /\ m \in wire /\ wire' = wire \ {m} /\ awaited' = awaited /\ m.from \in Channels
      /\ reply' = IF awaited[m.from] = m /\ reply[m.from] = "none"
                  THEN [reply EXCEPT ![m.from] = r] ELSE reply
  BY DEF Take, Respond, TypeOK, Messages
<1>2. \A c \in Channels : reply'[c] = reply[c] \/ (awaited[c] = m /\ reply'[c] = r)
  BY <1>1 DEF TypeOK
<1>3. ASSUME NEW c \in Channels, ~Free(c), reply'[c] = "none" PROVE awaited[c] \in wire'
  <2>1. reply[c] = "none"
    BY <1>1, <1>3 DEF TypeOK
  <2>2. awaited[c] \in wire /\ awaited[c].from = c
    BY <1>3, <2>1 DEF FlushInv, AwaitedIsSent
  <2>3. awaited[c] # m
    BY <1>1, <1>3, <2>1, <2>2 DEF TypeOK
  <2> QED
    BY <1>1, <2>2, <2>3
<1>4. AwaitedIsSent'
  BY <1>1, <1>3 DEF FlushInv, AwaitedIsSent, Free
<1> QED
  BY <1>1, <1>2, <1>4

\* What reaches the rows is not older than what is sure, and what is handed in is
\* what has reached them.
LEMMA ServingStep ==
    ASSUME TypeOK, AwaitedFits, AnsweredIsDone, FlushInv,
           NEW m \in wire, StoreBatch(m) \/ HandIn(m) \/ Refuse(m)
    PROVE  FlushInv'
<1> USE DEF FlushInv
<1>0. PICK r \in {"ok", "refused"} :
        /\ Take(m) /\ Respond(m, r)
        /\ r = "ok" => HandIn(m) \/ (StoreBatch(m) /\ status = "open")
  <2>1. CASE StoreBatch(m)
    BY <2>1 DEF StoreBatch
  <2>2. CASE HandIn(m)
    BY <2>2 DEF HandIn
  <2>3. CASE Refuse(m)
    BY <2>3 DEF Refuse
  <2> QED
    BY <2>1, <2>2, <2>3
<1>1. /\ wire' \subseteq wire /\ awaited' = awaited /\ AwaitedIsSent'
      /\ \A c \in Channels : reply'[c] = reply[c] \/ (awaited[c] = m /\ reply'[c] = r)
  BY <1>0, ServeKeeps
<1>2. UNCHANGED <<page, memory, records, stage, edits, history>>
  BY DEF StoreBatch, HandIn, Refuse, storage, bounds
<1>3. /\ rows \in Sheets /\ sure \in Sheets /\ m.sheet \in Sheets
      /\ \A c \in Channels : ~Free(c) => awaited[c].sheet \in Sheets
      /\ NotAhead(rows) /\ NotAhead(m.sheet) /\ AtLeast(m.sheet, sure) /\ Reached(rows, sure)
  BY TypedSheets DEF RevisionsFit, SureIsSafe, NothingOlder
<1>4. \/ rows' = rows
      \/ rows' = Over(m.sheet, rows) /\ StoreBatch(m)
  BY DEF StoreBatch, HandIn, Refuse, server
<1>5. RevisionsFit'
  <2>1. NotAhead(rows)'
    <3>1. NotAhead(rows')
      BY <1>3, <1>4, OverKeeps
    <3> QED
      BY <1>2, <3>1 DEF NotAhead
  <2> QED
    BY <1>1, <1>2, <2>1 DEF RevisionsFit, NotAhead, Free, memory
<1>6. SureIsSafe'
  <2>1. Reached(rows', sure)
    BY <1>3, <1>4, OverKeeps
  <2> QED
    BY <1>1, <1>2, <2>1 DEF SureIsSafe, NothingOlder, AtLeast, Reached, memory, history
<1>7. FlushedIsHandedIn'
  <2>1. handed' = handed \/ handed' = rows
    BY DEF StoreBatch, HandIn, Refuse, server
  <2> QED
    BY <1>2, <1>3, <2>1 DEF FlushedIsHandedIn, Reached, history
<1>8. AloneIsSafe'
  <2> SUFFICES ASSUME alone PROVE AloneIsSafe'
    BY <1>2 DEF AloneIsSafe, history
  <2> DEFINE mine == awaited["submit"].sheet
  <2>1. /\ ~Free("submit") /\ stage = "flush" /\ NothingOlder(mine) /\ mine \in Sheets
        /\ m.kind = "batch" /\ awaited["submit"] \in Messages
        /\ reply["submit"] = "ok" => handed = NoSheet /\ Reached(rows, mine)
    BY <1>3, TypedSheets DEF AloneIsSafe, Channels
  <2>2. NothingOlder(awaited["submit"].sheet)'
    BY <1>1, <1>2, <2>1 DEF NothingOlder, AtLeast, memory
  <2>3. handed' = handed /\ ~HandIn(m)
    BY <2>1 DEF StoreBatch, HandIn, Refuse, server
  <2>4. ASSUME reply["submit"] = "ok" PROVE handed' = NoSheet /\ Reached(rows', mine)
    <3>1. AtLeast(m.sheet, mine)
      BY <2>1 DEF NothingOlder
    <3> QED
      BY <1>3, <1>4, <2>1, <2>3, <2>4, <3>1, OverKeeps
  <2>5. ASSUME reply["submit"] # "ok", reply'["submit"] = "ok"
        PROVE  handed' = NoSheet /\ Reached(rows', mine)
    <3>1. awaited["submit"] = m /\ r = "ok"
      BY <1>1, <2>5 DEF Channels
    <3>2. status = "open" /\ rows' = Over(m.sheet, rows)
      BY <1>0, <2>3, <3>1 DEF StoreBatch
    <3> QED
      BY <1>3, <2>3, <3>1, <3>2, OverKeeps DEF AnsweredIsDone
  <2> QED
    BY <1>1, <1>2, <2>1, <2>2, <2>4, <2>5 DEF AloneIsSafe, Free, Reached
<1> QED
  BY <1>1, <1>5, <1>6, <1>7, <1>8

\* Every step keeps it.
LEMMA FlushStep ==
    ASSUME TypeOK, AwaitedFits, AnsweredIsDone, FlushInv, [Next]_vars
    PROVE  FlushInv'
<1>1. CASE UNCHANGED vars
  BY <1>1, FlushInvUnchanged DEF vars, memory, storage, requests, server, bounds, history
<1>2. CASE Close
  BY <1>2, FlushInvUnchanged DEF Close, memory, storage, requests, bounds, history
<1>3. CASE SubmitStart \/ SubmitFlushSkipped
  <2>1. /\ UNCHANGED <<page, answers, records, loaded, requests, rows, handed, edits, history>>
        /\ typing' = typing \/ typing' = Empty
        /\ ~alone
    <3>1. ~alone
      BY <1>3, AwaitedFits
      DEF FlushInv, AloneIsSafe, AwaitedFits, SubmitStart, SubmitFlushSkipped, Goto, Free
    <3> QED
      BY <1>3, <3>1 DEF SubmitStart, SubmitFlushSkipped, memory, storage, server, bounds
  <2>2. RevisionsFit'
    BY <2>1, TypedSheets DEF FlushInv, RevisionsFit, NotAhead, Free, Empty, Blank, requests
  <2> QED
    BY <2>1, <2>2
    DEF FlushInv, AwaitedIsSent, Free, SureIsSafe, NothingOlder, AtLeast, Reached, AloneIsSafe,
        FlushedIsHandedIn, requests, history
<1> QED
  BY <1>1, <1>2, <1>3, EditingStep, SendingStep, ReturningStep, FailingStep, ReloadingStep,
     ServingStep
  DEF Next, SubmitStep, ServerStep

\* It holds at the start.
LEMMA FlushInit == ASSUME Init PROVE FlushInv
BY WebAssumption
DEF WebAssumption, Init, FlushInv, AwaitedIsSent, Free, RevisionsFit, NotAhead, SureIsSafe,
    NothingOlder, AtLeast, Reached, AloneIsSafe, FlushedIsHandedIn, Empty, Blank

\* Whatever repeats, arrives late or is reloaded afterwards, what a flush has saved
\* when nothing else was under way is in the paper, or something newer is.
THEOREM FlushedAnswersAreHandedIn == Spec => []FlushedIsHandedIn
<1>1. Init => TypeOK /\ AwaitedFits /\ AnsweredIsDone /\ FlushInv
  <2>1. Init => AnsweredIsDone
    BY DEF Init, AnsweredIsDone, Done, Free
  <2> QED
    BY <2>1, InitFacts, FlushInit
<1>2. TypeOK /\ AwaitedFits /\ AnsweredIsDone /\ FlushInv /\ [Next]_vars =>
         (TypeOK /\ AwaitedFits /\ AnsweredIsDone /\ FlushInv)'
  BY TypeStep, FitsStep, DoneStep, FlushStep
<1>3. FlushInv => FlushedIsHandedIn
  BY DEF FlushInv
<1> QED
  BY <1>1, <1>2, <1>3, PTL DEF Spec

-----------------------------------------------------------------------------
(* The server of the web client is the abstract paper.                     *)

LEMMA PaperStep == TypeOK /\ [Next]_vars => [Paper!Next]_(Paper!vars)
<1> SUFFICES ASSUME TypeOK, [Next]_vars PROVE [Paper!Next]_(Paper!vars)
  OBVIOUS
<1>1. CASE UNCHANGED server
  BY <1>1 DEF server, Paper!vars
<1>2. ASSUME NEW m \in wire, StoreBatch(m) PROVE [Paper!Next]_(Paper!vars)
  <2>1. CASE status = "open"
    <3>1. m.sheet \in Paper!Sheets
      BY WebAssumption
      DEF WebAssumption, TypeOK, Messages, Sheets, Paper!Sheets, Revisions, Blank
    <3>2. Paper!Save(m.sheet)
      BY <1>2, <2>1 DEF StoreBatch, Over, Paper!Save
    <3> QED
      BY <3>1, <3>2 DEF Paper!Next
  <2>2. CASE status # "open"
    BY <1>2, <2>2 DEF StoreBatch, Paper!vars
  <2> QED
    BY <2>1, <2>2
<1>3. ASSUME NEW m \in wire, HandIn(m) PROVE [Paper!Next]_(Paper!vars)
  BY <1>3 DEF HandIn, Paper!HandIn, Paper!Next, Paper!vars
<1>4. CASE Close
  BY <1>4 DEF Close, Paper!Close, Paper!Next
<1>5. \/ UNCHANGED server \/ Close
      \/ \E m \in wire : StoreBatch(m) \/ HandIn(m)
  BY DEF Next, vars, Student, TypingSettles, Choose, Type, SyncStart, SyncDone, AutoFlush,
         AutoFlushDone, SendFlush, SubmitStep, SubmitStart, SubmitFlush, SubmitFlushSkipped,
         SubmitFlushDone, SubmitSend, SubmitDone, RequestFails, Reload, LoadRead, LoadStore,
         LoadFails, ServerStep, Refuse, server
<1> QED
  BY <1>1, <1>2, <1>3, <1>4, <1>5

\* PaperSpec: what was lost, repeated, reloaded or served late by the page is for
\* the server one save, one hand-in or nothing.
THEOREM Refinement == Spec => PaperSpec
<1>1. ASSUME Init PROVE Paper!Init
  BY <1>1 DEF Init, Empty, Paper!Init
<1>2. TypeOK /\ [Next]_vars => [Paper!Next]_(Paper!vars)
  BY PaperStep
<1>3. Spec => []TypeOK
  BY TypeCorrect, PTL
<1> QED
  BY <1>1, <1>2, <1>3, PTL DEF Spec, PaperSpec, Paper!Spec
=============================================================================
