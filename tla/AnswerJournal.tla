--------------------------- MODULE AnswerJournal ---------------------------
(***************************************************************************)
(* The native client's journal of answers and its synchronization:         *)
(*   ExamResilienceService (Dart) keeps the journal in secure storage,     *)
(*   AnswerSyncService.accept_journal_events (direct mode) stores it.      *)
(*                                                                         *)
(* Every read and write of the secure storage is awaited, so tasks of the  *)
(* app interleave there: a task works on the journal as it was when it     *)
(* read it.  A request goes on in the server after the client has given it *)
(* up (receiveTimeout), so several requests of one client may overlap.     *)
(*                                                                         *)
(* Simplifications.  The n-th answer the student gives is event n, with a  *)
(* payload and a local timestamp of its own: n stands for all three.  An   *)
(* event for no question of this exam was left by another session.  The    *)
(* status of the session is the subject of SessionWrites: a request that   *)
(* is refused for it, or for any other reason, is a Refuse.  Backoff only  *)
(* delays.  Diagnostics and answered-count markers are not modelled.       *)
(***************************************************************************)
EXTENDS Naturals, FiniteSets

CONSTANTS
    Questions,   \* questions of the exam
    Foreign,     \* stands for the question of an event of another session
    LeftBehind,  \* events of another session in the journal at the start
    MaxEvents,   \* bound: events LeftBehind + 1 .. MaxEvents are given here
    MaxJournal,  \* _maxJournalEvents
    BatchSize,   \* events in one request
    Flushes,     \* activations of flushAnswerJournal that may overlap
    Requests,    \* slots for requests the server may be working on
    MaxFaults    \* bound on timeouts, refusals, crashes and evictions

ASSUME JournalAssumption ==
    /\ Foreign \notin Questions
    /\ LeftBehind \in Nat /\ MaxEvents \in Nat /\ LeftBehind <= MaxEvents
    /\ MaxJournal \in Nat \ {0} /\ LeftBehind <= MaxJournal
    /\ BatchSize \in Nat \ {0} /\ MaxFaults \in Nat

VARIABLES
    journal,     \* secure storage: the events, oldest first is by id
    nextSeq,     \* secure storage: next_sequence
    given,       \* answers the student has given so far
    appends,     \* appendAnswerEvent tasks that have read the journal
    flushes,     \* where every flushAnswerJournal task is, and what it read
    inFlight,    \* _journalSyncInFlight
    requests,    \* what the server does with every request
    table,       \* the answers rows: event stored for the question, or 0
    seen,        \* Redis: event ids already applied
    stored,      \* history: events of committed requests
    faults       \* bound: faults so far

vars == <<journal, nextSeq, given, appends, flushes, inFlight, requests, table,
          seen, stored, faults>>
clientVars == <<journal, nextSeq, given, appends, flushes, inFlight>>
serverVars == <<requests, table, seen, stored>>

Ids == 1..MaxEvents
NoEvent == 0
Rows == [Questions -> Ids \union {NoEvent}]
Events == [id : Ids, seq : Nat \ {0}, q : Questions \union {Foreign}]

Idle == [at |-> "idle", snap |-> {}, next |-> 1, req |-> "none"]
FlushStates ==
    [at : {"idle", "started", "waiting"}, snap : SUBSET Events, next : Nat \ {0},
     req : Requests \union {"none"}]

Free == [at |-> "free", evs |-> {}, rows |-> [q \in Questions |-> NoEvent], known |-> {}]
RequestStates ==
    [at : {"free", "sent", "loaded", "checked", "committed", "answered", "refused"},
     evs : SUBSET Events, rows : Rows, known : SUBSET Ids]

JournalTypeOK ==
    /\ journal \in SUBSET Events
    /\ nextSeq \in Nat \ {0}
    /\ given \in 0..MaxEvents
    /\ appends \in SUBSET [id : Ids, q : Questions, snap : SUBSET Events, next : Nat \ {0}]
    /\ flushes \in [Flushes -> FlushStates]
    /\ inFlight \in BOOLEAN
    /\ requests \in [Requests -> RequestStates]
    /\ table \in Rows
    /\ seen \in SUBSET Ids
    /\ stored \in SUBSET Ids
    /\ faults \in 0..MaxFaults

Init ==
    /\ journal = {[id |-> n, seq |-> n, q |-> Foreign] : n \in 1..LeftBehind}
    /\ nextSeq = LeftBehind + 1
    /\ given = LeftBehind
    /\ appends = {}
    /\ flushes = [f \in Flushes |-> Idle]
    /\ inFlight = FALSE
    /\ requests = [k \in Requests |-> Free]
    /\ table = [q \in Questions |-> NoEvent]
    /\ seen = {}
    /\ stored = {}
    /\ faults = 0

Fault == faults < MaxFaults /\ faults' = faults + 1

-----------------------------------------------------------------------------
(* Orders and selections of events.                                        *)

\* (sequence, local_timestamp_ms), the order of client and server.
Before(e, f) == e.seq < f.seq \/ (e.seq = f.seq /\ e.id < f.id)

IdsOf(evs) == {e.id : e \in evs}

\* The first n events in that order.
Oldest(evs, n) == {e \in evs : Cardinality({f \in evs : Before(f, e)}) < n}

\* Bug (mutant of Trimmed): the cap is forgotten.
Untrimmed(evs) == evs

\* events.removeRange: the list is in the order of appending.
Trimmed(evs) == {e \in evs : Cardinality({f \in evs : f.id > e.id}) < MaxJournal}

Valid(evs) == {e \in evs : e.q \in Questions}

\* _latest_journal_events_by_question
Latest(evs, q) ==
    {e \in evs : e.q = q /\ \A f \in evs : f.q = q => f = e \/ Before(f, e)}

-----------------------------------------------------------------------------
(* The app.                                                                *)

\* appendAnswerEvent is called by the web page and reads the journal.
AppendRead(q) ==
    /\ given < MaxEvents
    /\ given' = given + 1
    /\ appends' = appends \union
           {[id |-> given + 1, q |-> q, snap |-> journal, next |-> nextSeq]}
    /\ UNCHANGED <<journal, nextSeq, flushes, inFlight, serverVars, faults>>

\* ... and writes it back with the event added; storage calls are in order.
AppendWrite(a) ==
    /\ \A b \in appends : a.id <= b.id
    /\ journal' = Trimmed(a.snap \union {[id |-> a.id, seq |-> a.next, q |-> a.q]})
    /\ nextSeq' = a.next + 1
    /\ appends' = appends \ {a}
    /\ UNCHANGED <<given, flushes, inFlight, serverVars, faults>>

\* flushAnswerJournal, by timer or after an append: the flag is only tested.
FlushStart(f) ==
    /\ flushes[f].at = "idle"
    /\ ~inFlight
    /\ flushes' = [flushes EXCEPT ![f].at = "started"]
    /\ UNCHANGED <<journal, nextSeq, given, appends, inFlight, serverVars, faults>>

\* The timer calls it during a synchronization: it returns at once.
FlushSkipped == inFlight /\ UNCHANGED vars

\* The journal has been read: nothing to do, or the flag is set and the
\* oldest events are posted.
FlushSend(f) ==
    /\ flushes[f].at = "started"
    /\ IF journal = {}
       THEN /\ flushes' = [flushes EXCEPT ![f] = Idle]
            /\ UNCHANGED <<inFlight, requests>>
       ELSE \E k \in Requests :
            /\ requests[k].at = "free"
            /\ requests' = [requests EXCEPT ![k] =
                   [Free EXCEPT !.at = "sent", !.evs = Oldest(journal, BatchSize)]]
            /\ flushes' = [flushes EXCEPT ![f] =
                   [at |-> "waiting", snap |-> journal, next |-> nextSeq, req |-> k]]
            /\ inFlight' = TRUE
    /\ UNCHANGED <<journal, nextSeq, given, appends, table, seen, stored, faults>>

\* Bug (mutant of GiveUp): the flag is not reset on a failure.
GiveUpKeepsFlag(f) ==
    /\ flushes' = [flushes EXCEPT ![f] = Idle]
    /\ UNCHANGED inFlight

GiveUp(f) ==
    /\ flushes' = [flushes EXCEPT ![f] = Idle]
    /\ inFlight' = FALSE

\* syncAnswerJournal returned null: the request was refused.
FlushRefused(f) ==
    /\ flushes[f].at = "waiting"
    /\ requests[flushes[f].req].at = "refused"
    /\ GiveUp(f)
    /\ requests' = [requests EXCEPT ![flushes[f].req] = Free]
    /\ UNCHANGED <<journal, nextSeq, given, appends, table, seen, stored, faults>>

\* ... or there was no answer in time: the server does not know.
FlushTimeout(f) ==
    /\ flushes[f].at = "waiting"
    /\ GiveUp(f)
    /\ Fault
    /\ UNCHANGED <<journal, nextSeq, given, appends, serverVars>>

\* The events acked as applied or duplicate: all but the invalid ones.
Acks(k) == IdsOf(Valid(requests[k].evs))

\* Events acked as applied or duplicate leave the journal: what is written
\* back is the journal that was read before the request, without them.
FlushAcked(f) ==
    LET k == flushes[f].req IN
    /\ flushes[f].at = "waiting"
    /\ requests[k].at = "answered"
    /\ IF Acks(k) = {}
       THEN UNCHANGED <<journal, nextSeq>>
       ELSE /\ journal' = {e \in flushes[f].snap : e.id \notin Acks(k)}
            /\ nextSeq' = flushes[f].next
    /\ GiveUp(f)
    /\ requests' = [requests EXCEPT ![k] = Free]
    /\ UNCHANGED <<given, appends, table, seen, stored, faults>>

\* The app is killed and started again: only the secure storage remains.
Restart ==
    /\ appends' = {}
    /\ flushes' = [f \in Flushes |-> Idle]
    /\ inFlight' = FALSE
    /\ Fault
    /\ UNCHANGED <<journal, nextSeq, given, serverVars>>

-----------------------------------------------------------------------------
(* The server.                                                             *)

Accepted(k) == {e \in Valid(requests[k].evs) : e.id \notin requests[k].known}

\* The session is loaded, and its answers with it.
Load(k) ==
    /\ requests[k].at = "sent"
    /\ requests' = [requests EXCEPT ![k].at = "loaded", ![k].rows = table]
    /\ UNCHANGED <<clientVars, table, seen, stored, faults>>

\* Bug (mutant of AskRedis): the ids are remembered when they are looked up.
RememberEarly(k) == seen' = seen \union IdsOf(Valid(requests[k].evs))

\* Looking ids up changes nothing.
AskRedis(k) == UNCHANGED seen

\* _read_existing_journal_event_ids and _classify_journal_events: if no event
\* is new the request is answered at once.
Check(k) ==
    LET known == seen \intersect IdsOf(requests[k].evs) IN
    /\ requests[k].at = "loaded"
    /\ AskRedis(k)
    /\ requests' = [requests EXCEPT
           ![k].at = IF IdsOf(Valid(requests[k].evs)) \subseteq known
                     THEN "answered" ELSE "checked",
           ![k].known = known]
    /\ UNCHANGED <<clientVars, table, stored, faults>>

\* What the request believes is stored: the rows it loaded first.
Believed(k, q) == IF requests[k].rows[q] = NoEvent THEN table[q] ELSE requests[k].rows[q]

\* Bug (mutant of StoreEvents): the commit fails and the error is swallowed.
StoreNothing(k) == UNCHANGED <<table, stored>>

\* _apply_journal_answers and the commit: the latest event of every question.
StoreEvents(k) ==
    /\ table' = [q \in Questions |->
           IF \E e \in Latest(Accepted(k), q) : e.id # Believed(k, q)
           THEN (CHOOSE e \in Latest(Accepted(k), q) : TRUE).id
           ELSE table[q]]
    /\ stored' = stored \union IdsOf(Accepted(k))

Commit(k) ==
    /\ requests[k].at = "checked"
    /\ StoreEvents(k)
    /\ requests' = [requests EXCEPT ![k].at = "committed"]
    /\ UNCHANGED <<clientVars, seen, faults>>

\* Remembering the ids is best effort; the answer acks them all the same.
Reply(k) ==
    LET ids == IdsOf(Accepted(k)) IN
    /\ requests[k].at = "committed"
    /\ \/ seen' = seen \union ids /\ UNCHANGED faults
       \/ seen' = seen /\ Fault
    /\ requests' = [requests EXCEPT ![k].at = "answered"]
    /\ UNCHANGED <<clientVars, table, stored>>

Abandoned(k) == \A f \in Flushes : flushes[f].at = "waiting" => flushes[f].req # k

\* Nobody waits for this answer any more.
Forgotten(k) ==
    /\ requests[k].at \in {"answered", "refused"}
    /\ Abandoned(k)
    /\ requests' = [requests EXCEPT ![k] = Free]
    /\ UNCHANGED <<clientVars, table, seen, stored, faults>>

\* The request is lost, is answered with an error status, or its worker dies.
Refuse(k) ==
    /\ requests[k].at \in {"sent", "loaded", "checked", "committed"}
    /\ requests' = [requests EXCEPT ![k].at = "refused"]
    /\ Fault
    /\ UNCHANGED <<clientVars, table, seen, stored>>

\* Redis forgets the ids: after their time to live, or with its memory.
Evict ==
    /\ seen # {}
    /\ seen' = {}
    /\ Fault
    /\ UNCHANGED <<clientVars, requests, table, stored>>

-----------------------------------------------------------------------------
ServerStep(k) == Load(k) \/ Check(k) \/ Commit(k) \/ Reply(k) \/ Forgotten(k)
FlushEnds(f) == FlushSend(f) \/ FlushRefused(f) \/ FlushAcked(f)

Next ==
    \/ \E q \in Questions : AppendRead(q)
    \/ \E a \in appends : AppendWrite(a)
    \/ \E f \in Flushes : FlushStart(f) \/ FlushEnds(f) \/ FlushTimeout(f)
    \/ FlushSkipped
    \/ \E k \in Requests : ServerStep(k) \/ Refuse(k)
    \/ Restart
    \/ Evict

Spec == Init /\ [][Next]_vars

\* The sync timer, the app and the server go on; faults end (MaxFaults).
FairSpec ==
    /\ Spec
    /\ WF_vars(\E a \in appends : AppendWrite(a))
    /\ \A f \in Flushes : WF_vars(FlushStart(f)) /\ WF_vars(FlushEnds(f))
    /\ \A k \in Requests : WF_vars(ServerStep(k))

-----------------------------------------------------------------------------
(* Properties.                                                             *)

\* Redis remembers an event, and so the server answers "duplicate" without
\* applying it, only if its answer is durable: whatever crashes between the
\* commit and the sadd, a retry never skips an event that was not stored.
SeenIsStored == seen \subseteq stored

\* The journal on the device never outgrows its cap, however long the client is
\* offline and however appends and flushes overwrite each other's list.
JournalIsBounded == Cardinality(journal) <= MaxJournal

\* The flag that keeps other flushes from starting is set only while a flush waits
\* for its answer: also if two of them wait, one times out, or the app is killed.
FlagHasOwner == inFlight => \E f \in Flushes : flushes[f].at = "waiting"

\* What a flush takes out of the journal it read because the server acked it
\* is durable in the database.
AckedIsStored ==
    [][\A f \in Flushes :
        FlushAcked(f) => \A e \in flushes[f].snap :
            e \in journal' \/ journal' = journal \/ e.id \in stored]_vars

\* Retries go on until an event is stored: no crash, timeout or forgotten flag
\* leaves it in the journal for ever, and events of another session that the
\* server will never ack do not block the batch (LeftBehind < BatchSize).
EventsAreSynced ==
    \A n \in (LeftBehind + 1)..MaxEvents :
        n \in IdsOf(journal) ~> (n \in stored \/ n \notin IdsOf(journal))

\* docs/APK_VNEXT_UX_OFFLINE_ROADMAP.md:9: "Sync Engine idempotent (no
\* duplicate/no loss)": an event leaves the journal only when it is stored.
NoLoss ==
    [][\A n \in IdsOf(journal) : n \in IdsOf(journal') \/ n \in stored]_vars

\* The same line, "no duplicate", and the docstring of accept_journal_events,
\* "Apply idempotent answer journal events": an event that has been stored is
\* never written over what replaced it.
NoDuplicate ==
    [][\A q \in Questions : table'[q] # table[q] => table'[q] \notin stored]_vars

-----------------------------------------------------------------------------
(* The inductive invariant behind them.                                    *)

RequestsTellTheTruth == \A k \in Requests :
    /\ requests[k].known \subseteq stored
    /\ requests[k].at \in {"committed", "answered"} => Acks(k) \subseteq stored

FlushesWaitForRequests == \A f \in Flushes :
    flushes[f].at = "waiting" => flushes[f].req \in Requests

JournalInv ==
    /\ JournalTypeOK
    /\ FlushesWaitForRequests
    /\ SeenIsStored
    /\ RequestsTellTheTruth

\* A list holds an answer once, and none that is still to be given.
Distinct(evs, top) ==
    /\ \A e \in evs : e.id <= top
    /\ \A e, f \in evs : e.id = f.id => e = f

\* So do the lists that the app has read and may write back, and an append adds
\* a later answer than those it has read.
ListsAreDistinct ==
    /\ Distinct(journal, given)
    /\ \A a \in appends : a.id <= given /\ Distinct(a.snap, a.id - 1)
    /\ \A f \in Flushes : flushes[f].at = "waiting" => Distinct(flushes[f].snap, given)

ListsAreBounded ==
    /\ JournalIsBounded
    /\ \A f \in Flushes :
          flushes[f].at = "waiting" => Cardinality(flushes[f].snap) <= MaxJournal
=============================================================================
