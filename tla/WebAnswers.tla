----------------------------- MODULE WebAnswers -----------------------------
(***************************************************************************)
(* The exam page of the web client: answers in memory and in IndexedDB,    *)
(* the worker that synchronizes them, autosave, the final submit, and a    *)
(* reload that restores the page from the server; requests are lost, time  *)
(* out, are repeated, and are processed in any order.                      *)
(*                                                                         *)
(* The n-th edit of the student has revision n, so that "older" and "lost" *)
(* can be said of payloads.  The server side is that of ExamPaper: a batch *)
(* is stored while the session is open, a submit grades what is stored.    *)
(* (What SessionWrites adds, a batch that is stored too late, changes the  *)
(* rows after they were graded.)                                           *)
(*                                                                         *)
(* Simplifications. One page, one session, and an IndexedDB that opens:    *)
(* its transactions on one store run in the order they were made, so a put *)
(* is one step. Matching questions, which are posted at once, emptying an  *)
(* answer, which is not recorded, and the native journal, which is told of *)
(* every answer, are left out. Backoff and debouncing only delay the       *)
(* worker. autoSave awaits the worker, but not one that is busy or backing *)
(* off, so it may go on at any time; one autosave at a time stands for     *)
(* that of the interval and that submitExam begins with, whose failure it  *)
(* does not notice.                                                        *)
(***************************************************************************)
EXTENDS Integers, FiniteSets

CONSTANTS
    Questions,      \* ids of the exam's questions: IndexedDB sorts by them
    TextQuestions,  \* those that are typed: recorded two seconds later
    MaxEdits,       \* bound: edits of the student
    BatchSize,      \* AnswerSyncWorker.batchSize
    MaxFaults,      \* bound: timeouts, refusals, reloads
    TokenRefresh,   \* whether the access token can expire during the exam
    NoMessage,      \* no request is awaited
    NoSheet         \* nothing was handed in, or loaded

Revisions == 1..MaxEdits
Blank == 0
Sheets == [Questions -> 0..MaxEdits]
Channels == {"worker", "autosave", "submit"}
Messages == [from : Channels, try : 0..MaxFaults, kind : {"batch", "submit"}, sheet : Sheets]

ASSUME WebAssumption ==
    /\ Questions \subseteq Nat
    /\ TextQuestions \subseteq Questions
    /\ MaxEdits \in Nat /\ MaxFaults \in Nat
    /\ BatchSize \in Nat \ {0}
    /\ TokenRefresh \in BOOLEAN
    /\ NoMessage \notin Messages
    /\ NoSheet \notin Sheets

VARIABLES
    page,       \* "open", "loading" after a reload, "left" after a submit
    answers,    \* ExamSystem.answers
    typing,     \* what the one textAnswerTimeout will record
    records,    \* answer_data of the IndexedDB records
    synced,     \* questions whose record says synced
    stage,      \* where submitExam is
    awaited,    \* the request each part of the page awaits
    reply,      \* how it ended
    loaded,     \* what GET .../answers returned
    wire,       \* requests the server has not served
    rows,       \* the answers rows
    status,     \* exam_sessions.status
    handed,     \* what the final submit graded
    edits,      \* edits made so far
    faults,     \* faults so far
    recorded,   \* history: questions that were recorded in IndexedDB
    alone,      \* history: nothing else was under way when the last flush left
    sure        \* history: what such a flush has saved

memory == <<answers, typing, loaded>>
storage == <<records, synced, recorded>>
requests == <<awaited, reply, wire>>
server == <<rows, status, handed>>
bounds == <<edits, faults>>
history == <<alone, sure>>
vars == <<page, memory, storage, stage, requests, server, bounds, history>>

Empty == [q \in Questions |-> Blank]
Answered(sheet) == {q \in Questions : sheet[q] # Blank}
Unsynced == Answered(records) \ synced
Only(sheet, set) == [q \in Questions |-> IF q \in set THEN sheet[q] ELSE Blank]
Over(top, sheet) == [q \in Questions |-> IF top[q] = Blank THEN sheet[q] ELSE top[q]]

TypeOK ==
    /\ page \in {"open", "loading", "left"}
    /\ answers \in Sheets /\ typing \in Sheets
    /\ loaded \in Sheets \union {NoSheet}
    /\ records \in Sheets
    /\ synced \subseteq Answered(records)
    /\ recorded \subseteq Questions
    /\ stage \in {"idle", "flush", "submit"}
    /\ awaited \in [Channels -> Messages \union {NoMessage}]
    /\ reply \in [Channels -> {"none", "ok", "refused", "failed"}]
    /\ wire \subseteq Messages
    /\ rows \in Sheets
    /\ status \in {"open", "submitted", "closed"}
    /\ handed \in Sheets \union {NoSheet}
    /\ edits \in 0..MaxEdits /\ faults \in 0..MaxFaults
    /\ alone \in BOOLEAN /\ sure \in Sheets

Init ==
    /\ page = "open"
    /\ answers = Empty /\ typing = Empty /\ loaded = NoSheet
    /\ records = Empty /\ synced = {} /\ recorded = {}
    /\ stage = "idle"
    /\ awaited = [c \in Channels |-> NoMessage]
    /\ reply = [c \in Channels |-> "none"]
    /\ wire = {}
    /\ rows = Empty /\ status = "open" /\ handed = NoSheet
    /\ edits = 0 /\ faults = 0
    /\ alone = FALSE /\ sure = Empty

-----------------------------------------------------------------------------
(* Answering.                                                              *)

\* saveAnswerLocal, for all questions of a sheet.
Record(sheet) ==
    /\ records' = Over(sheet, records)
    /\ synced' = synced \ Answered(sheet)
    /\ recorded' = recorded \union Answered(sheet)

Edit(q) ==
    /\ page = "open"
    /\ edits < MaxEdits
    /\ edits' = edits + 1
    /\ answers' = [answers EXCEPT ![q] = edits']

Edited(q) == [Empty EXCEPT ![q] = edits + 1]

\* selectOption, toggleComplexOption, setStatementAnswer.
Choose(q) ==
    /\ q \notin TextQuestions
    /\ Edit(q)
    /\ Record(Edited(q))
    /\ UNCHANGED <<page, typing, loaded, stage, requests, server, faults, history>>

\* updateTextAnswer: one timer for all questions.
Type(q) ==
    /\ q \in TextQuestions
    /\ Edit(q)
    /\ typing' = Edited(q)
    /\ UNCHANGED <<page, loaded, storage, stage, requests, server, faults, history>>

TypingSettles ==
    /\ page = "open"
    /\ typing # Empty
    /\ Record(typing)
    /\ typing' = Empty
    /\ UNCHANGED <<page, answers, loaded, stage, requests, server, bounds, history>>

-----------------------------------------------------------------------------
(* Requests of the page.                                                   *)

Free(c) == awaited[c] = NoMessage

Send(c, kind, sheet) ==
    LET m == [from |-> c, try |-> faults, kind |-> kind, sheet |-> sheet] IN
    /\ Free(c)
    /\ awaited' = [awaited EXCEPT ![c] = m]
    /\ wire' = wire \union {m}
    /\ UNCHANGED reply

\* The await on a request returns.
Return(c) ==
    /\ reply[c] # "none"
    /\ awaited' = [awaited EXCEPT ![c] = NoMessage]
    /\ reply' = [reply EXCEPT ![c] = "none"]
    /\ UNCHANGED wire

Fault == faults < MaxFaults /\ faults' = faults + 1

\* A request times out, or its connection breaks: api.request repeats it, the
\* worker's fetch does not.  The server may still process what was sent.
RequestFails(c) ==
    /\ ~Free(c) /\ reply[c] = "none"
    /\ Fault
    /\ \/ /\ c # "worker"
          /\ LET m == [awaited[c] EXCEPT !.try = faults + 1] IN
             /\ awaited' = [awaited EXCEPT ![c] = m]
             /\ wire' = wire \union {m}
          /\ alone' = FALSE
          /\ UNCHANGED reply
       \/ /\ reply' = [reply EXCEPT ![c] = "failed"]
          /\ UNCHANGED <<awaited, wire, alone>>
    /\ UNCHANGED <<page, memory, storage, stage, server, edits, sure>>

\* AnswerSyncWorker.syncNow: the first unsynced records, in the order of their
\* keys.
SyncStart ==
    /\ page # "left"
    /\ \E batch \in SUBSET Unsynced :
        /\ batch # {} /\ Cardinality(batch) <= BatchSize
        /\ Cardinality(batch) = BatchSize \/ batch = Unsynced
        /\ \A q \in batch, p \in Unsynced \ batch : q < p
        /\ Send("worker", "batch", Only(records, batch))
    /\ UNCHANGED <<page, memory, storage, stage, server, bounds, history>>

Sent == Answered(awaited["worker"].sheet)

\* Bug (mutant of SyncDone): the status of the response is not looked at.
SyncDoneAnyway ==
    /\ Return("worker")
    /\ synced' = synced \union (Sent \intersect Answered(records))
    /\ UNCHANGED <<page, memory, records, recorded, stage, server, bounds, history>>

\* Bug (mutant of SyncDone): markAsSynced without looking for the record.
SyncDoneBlindly ==
    /\ Return("worker")
    /\ synced' = IF reply["worker"] = "ok" THEN synced \union Sent ELSE synced
    /\ UNCHANGED <<page, memory, records, recorded, stage, server, bounds, history>>

\* Bug (mutant of SyncDone): syncInFlight is reset only after a success.
SyncDoneKeepsFlag ==
    /\ reply["worker"] = "ok"
    /\ Return("worker")
    /\ synced' = synced \union (Sent \intersect Answered(records))
    /\ UNCHANGED <<page, memory, records, recorded, stage, server, bounds, history>>

\* markAsSynced: by question, whatever the record holds by now.
SyncDone ==
    /\ Return("worker")
    /\ synced' = IF reply["worker"] = "ok"
                 THEN synced \union (Sent \intersect Answered(records))
                 ELSE synced
    /\ UNCHANGED <<page, memory, records, recorded, stage, server, bounds, history>>

\* flushPendingAnswersForForceSubmit, which stops the typing timer.
SendFlush(c) ==
    /\ typing' = Empty
    /\ answers # Empty
    /\ Send(c, "batch", answers)
    /\ UNCHANGED <<page, answers, loaded, storage, server, bounds>>

AutoFlush ==
    /\ page = "open"
    /\ Unsynced # {}
    /\ SendFlush("autosave")
    /\ UNCHANGED <<stage, history>>

AutoFlushDone ==
    /\ Return("autosave")
    /\ UNCHANGED <<page, memory, storage, stage, server, bounds, history>>

-----------------------------------------------------------------------------
(* submitExam: flush, submit.                                              *)

Goto(from, to) == stage = from /\ stage' = to

SubmitStart ==
    /\ page = "open"
    /\ Goto("idle", "flush")
    /\ UNCHANGED <<page, memory, storage, requests, server, bounds, history>>

SubmitFlush ==
    /\ stage = "flush"
    /\ SendFlush("submit")
    /\ alone' = (wire = {})
    /\ UNCHANGED <<stage, sure>>

SubmitFlushSkipped ==
    /\ answers = Empty
    /\ Free("submit")
    /\ Goto("flush", "submit")
    /\ typing' = Empty
    /\ UNCHANGED <<page, answers, loaded, storage, requests, server, bounds, history>>

\* Whatever the flush has come to.
SubmitFlushDone ==
    /\ Return("submit")
    /\ Goto("flush", "submit")
    /\ sure' = IF alone /\ reply["submit"] = "ok" THEN awaited["submit"].sheet ELSE sure
    /\ alone' = FALSE
    /\ UNCHANGED <<page, memory, storage, server, bounds>>

SubmitSend ==
    /\ stage = "submit"
    /\ Send("submit", "submit", Empty)
    /\ UNCHANGED <<page, memory, storage, stage, server, bounds, history>>

\* A request that waited for another one's token refresh takes any response of
\* its second attempt for a success.
Succeeded == reply["submit"] = "ok" \/ (TokenRefresh /\ reply["submit"] = "refused")

\* Bug (mutant of SubmitDone): the reply is not looked at.
SubmitDoneAnyway ==
    /\ stage = "submit"
    /\ Return("submit")
    /\ stage' = "idle"
    /\ page' = "left"
    /\ records' = Empty /\ synced' = {}
    /\ UNCHANGED <<memory, recorded, server, bounds, history>>

\* Either the local answers are cleared and the page is left, or the student
\* may try again.
SubmitDone ==
    /\ stage = "submit"
    /\ Return("submit")
    /\ stage' = "idle"
    /\ IF Succeeded
       THEN page' = "left" /\ records' = Empty /\ synced' = {}
       ELSE UNCHANGED <<page, records, synced>>
    /\ UNCHANGED <<memory, recorded, server, bounds, history>>

-----------------------------------------------------------------------------
(* Reloading the page.                                                     *)

Reload ==
    /\ page # "left"
    /\ Fault
    /\ page' = "loading"
    /\ answers' = Empty /\ typing' = Empty /\ loaded' = NoSheet
    /\ stage' = "idle"
    /\ awaited' = [c \in Channels |-> NoMessage]
    /\ reply' = [c \in Channels |-> "none"]
    /\ alone' = FALSE
    /\ UNCHANGED <<storage, wire, server, edits, sure>>

\* The exam starts again only while the session is open.
LoadRead ==
    /\ page = "loading" /\ loaded = NoSheet
    /\ status = "open"
    /\ loaded' = rows
    /\ UNCHANGED <<page, answers, typing, storage, stage, requests, server, bounds, history>>

\* loadPreviousAnswers: the server's answers over the local ones, as synced.
LoadStore ==
    /\ page = "loading" /\ loaded # NoSheet
    /\ page' = "open"
    /\ answers' = loaded
    /\ records' = Over(loaded, records)
    /\ synced' = synced \union Answered(loaded)
    /\ loaded' = NoSheet
    /\ UNCHANGED <<typing, recorded, stage, requests, server, bounds, history>>

\* The error is logged and the page opens without them.
LoadFails ==
    /\ page = "loading"
    /\ page' = "open"
    /\ loaded' = NoSheet
    /\ UNCHANGED <<answers, typing, storage, stage, requests, server, bounds, history>>

-----------------------------------------------------------------------------
(* The server.                                                             *)

Respond(m, r) ==
    /\ reply' = IF awaited[m.from] = m /\ reply[m.from] = "none"
                THEN [reply EXCEPT ![m.from] = r]
                ELSE reply
    /\ UNCHANGED awaited

Take(m) == m \in wire /\ wire' = wire \ {m}

\* Bug (mutant of StoreBatch): only questions without a row are stored.
StoreBatchInsertsOnly(m) ==
    /\ Take(m) /\ m.kind = "batch"
    /\ rows' = IF status = "open" THEN Over(rows, m.sheet) ELSE rows
    /\ Respond(m, IF status = "open" THEN "ok" ELSE "refused")
    /\ UNCHANGED <<page, memory, storage, stage, status, handed, bounds, history>>

\* Bug (mutant of StoreBatch): the status is checked for the reply only.
StoreBatchLate(m) ==
    /\ Take(m) /\ m.kind = "batch"
    /\ rows' = Over(m.sheet, rows)
    /\ Respond(m, IF status = "open" THEN "ok" ELSE "refused")
    /\ UNCHANGED <<page, memory, storage, stage, status, handed, bounds, history>>

StoreBatch(m) ==
    /\ Take(m) /\ m.kind = "batch"
    /\ rows' = IF status = "open" THEN Over(m.sheet, rows) ELSE rows
    /\ Respond(m, IF status = "open" THEN "ok" ELSE "refused")
    /\ UNCHANGED <<page, memory, storage, stage, status, handed, bounds, history>>

HandIn(m) ==
    /\ Take(m) /\ m.kind = "submit"
    /\ IF status = "open"
       THEN status' = "submitted" /\ handed' = rows
       ELSE UNCHANGED <<status, handed>>
    /\ Respond(m, IF status = "closed" THEN "refused" ELSE "ok")
    /\ UNCHANGED <<page, memory, storage, stage, rows, bounds, history>>

\* Busy, rate limited, or rejected by a check: nothing is stored.
Refuse(m) ==
    /\ Take(m)
    /\ Fault
    /\ Respond(m, "refused")
    /\ UNCHANGED <<page, memory, storage, stage, server, edits, history>>

\* A proctor or the scheduler ends the session.
Close ==
    /\ status = "open"
    /\ status' = "closed"
    /\ UNCHANGED <<page, memory, storage, stage, requests, rows, handed, bounds, history>>

Student == TypingSettles \/ \E q \in Questions : Choose(q) \/ Type(q)

SubmitStep ==
    \/ SubmitStart \/ SubmitFlush \/ SubmitFlushSkipped \/ SubmitFlushDone
    \/ SubmitSend \/ SubmitDone

ServerStep == \E m \in wire : StoreBatch(m) \/ HandIn(m) \/ Refuse(m)

Next ==
    \/ Student
    \/ SyncStart \/ SyncDone \/ AutoFlush \/ AutoFlushDone
    \/ SubmitStep
    \/ \E c \in Channels : RequestFails(c)
    \/ Reload \/ LoadRead \/ LoadStore \/ LoadFails
    \/ ServerStep
    \/ Close

Spec == Init /\ [][Next]_vars

\* The worker's interval, the restoring of the page and the server go on; nothing
\* is asked of the student, of autosave and submit, or of faults.
Serve(c) == \E m \in wire : m.from = c /\ (StoreBatch(m) \/ HandIn(m))

Fairness ==
    /\ WF_vars(SyncStart) /\ WF_vars(SyncDone)
    /\ WF_vars(LoadRead) /\ WF_vars(LoadStore)
    /\ \A c \in Channels : WF_vars(Serve(c))

FairSpec == Spec /\ Fairness

-----------------------------------------------------------------------------
(* Properties.                                                             *)

\* While the session is open, a question whose answer once reached IndexedDB has
\* an answer on the server or a record that is still to be sent, whatever was
\* lost, repeated, reloaded or edited meanwhile.  (Not always the last one:
\* markAsSynced and a reload can put an older answer in its place.)
RecordedIsKept ==
    status = "open" => recorded \subseteq Answered(rows) \union Unsynced

\* If the flush of a submit was saved, and no other request was under way when
\* it left, no chosen option is handed in older than the page had it then.
FlushedIsHandedIn ==
    handed # NoSheet =>
        \A q \in Questions \ TextQuestions : handed[q] >= sure[q]

\* The page is left, and the native shell told that the exam is over, only when
\* the server has the paper.
LeftMeansHandedIn == page = "left" => handed # NoSheet

\* With no more than MaxFaults faults, a record that is not synced is sent,
\* unless the session ends first.
UnsyncedIsSent ==
    \A q \in Questions : q \in Unsynced ~> (q \notin Unsynced \/ status # "open")

\* Whatever the page sends, repeats or gives up, the server side is the abstract
\* paper, which SessionWrites implements: the two modules meet in it.
Paper == INSTANCE ExamPaper WITH
    Values <- Revisions, NoAnswer <- Blank, NoScore <- NoSheet,
    paper <- status, sheet <- rows, result <- handed

PaperSpec == Paper!Spec

-----------------------------------------------------------------------------
(* The inductive invariant behind them.                                    *)

\* What the page awaits, and what an answered request has done.
AwaitedFits ==
    /\ \A c \in Channels : reply[c] # "none" => ~Free(c)
    /\ \A c \in Channels : ~Free(c) =>
          awaited[c].kind = IF c = "submit" /\ stage = "submit" THEN "submit" ELSE "batch"
    /\ stage = "idle" => Free("submit")
    /\ page # "open" => stage = "idle"
    /\ loaded # NoSheet => page = "loading"

Done(c) == ~Free(c) /\ reply[c] = "ok"

AnsweredIsDone ==
    /\ \A c \in Channels : Done(c) =>
          IF awaited[c].kind = "batch"
          THEN Answered(awaited[c].sheet) \subseteq Answered(rows)
          ELSE handed # NoSheet
    /\ loaded # NoSheet => Answered(loaded) \subseteq Answered(rows)
    /\ handed # NoSheet <=> status = "submitted"

\* A request that has no reply yet is still on its way.
AwaitedIsSent ==
    \A c \in Channels : ~Free(c) =>
        /\ awaited[c].from = c
        /\ reply[c] = "none" => awaited[c] \in wire

\* No revision is ahead of the student; what the page shows of a chosen option
\* is in its record.
NotAhead(sheet) == \A q \in Questions : sheet[q] <= edits

RevisionsFit ==
    /\ NotAhead(answers) /\ NotAhead(typing) /\ NotAhead(records) /\ NotAhead(rows)
    /\ loaded # NoSheet => NotAhead(loaded)
    /\ \A m \in wire : NotAhead(m.sheet)
    /\ \A c \in Channels : ~Free(c) => NotAhead(awaited[c].sheet)
    /\ \A q \in Questions \ TextQuestions : typing[q] = Blank
    /\ page # "left" =>
          \A q \in Questions \ TextQuestions : answers[q] <= records[q]

\* Nothing that can still reach the rows is older than the sheet.
AtLeast(new, old) ==
    \A q \in Questions \ TextQuestions : new[q] # Blank => old[q] <= new[q]

NothingOlder(sheet) ==
    /\ AtLeast(records, sheet)
    /\ AtLeast(answers, sheet)
    /\ \A m \in wire : AtLeast(m.sheet, sheet)

Reached(sheet, old) == \A q \in Questions \ TextQuestions : old[q] <= sheet[q]

SureIsSafe ==
    /\ NothingOlder(sure)
    /\ Reached(rows, sure)
    /\ loaded # NoSheet => Reached(loaded, sure)

AloneIsSafe ==
    alone =>
        /\ ~Free("submit") /\ stage = "flush"
        /\ \A m \in wire : m.kind = "batch"
        /\ NothingOlder(awaited["submit"].sheet)
        /\ reply["submit"] = "ok" =>
              handed = NoSheet /\ Reached(rows, awaited["submit"].sheet)

KeptInv ==
    /\ AwaitedFits
    /\ AnsweredIsDone
    /\ RecordedIsKept
    /\ LeftMeansHandedIn

FlushInv ==
    /\ AwaitedIsSent
    /\ RevisionsFit
    /\ SureIsSafe
    /\ AloneIsSafe
    /\ FlushedIsHandedIn
=============================================================================
