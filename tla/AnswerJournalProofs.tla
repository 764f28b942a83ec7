------------------------ MODULE AnswerJournalProofs ------------------------
(* Proofs about AnswerJournal, for every number of questions, events,      *)
(* requests, overlapping flushes and faults.                               *)
EXTENDS AnswerJournal, FiniteSetTheorems, WellFoundedInduction, TLAPS

\* The request that a flush waits for, and the sets a request is made of.
LEMMA RequestTypes ==
    ASSUME JournalTypeOK, NEW k \in Requests
    PROVE  /\ requests[k].evs \in SUBSET Events
           /\ requests[k].rows \in Rows
           /\ requests[k].known \in SUBSET Ids
           /\ Accepted(k) \in SUBSET Events
           /\ IdsOf(Accepted(k)) \in SUBSET Ids
           /\ Acks(k) \in SUBSET Ids
           /\ Acks(k) \subseteq IdsOf(Accepted(k)) \union requests[k].known
<1> USE DEF JournalTypeOK, RequestStates
<1>1. requests[k] \in RequestStates
  OBVIOUS
<1>2. requests[k].evs \in SUBSET Events /\ requests[k].rows \in Rows
      /\ requests[k].known \in SUBSET Ids
  BY <1>1
<1>3. Accepted(k) \in SUBSET Events /\ Valid(requests[k].evs) \in SUBSET Events
  BY <1>2 DEF Accepted, Valid
<1>4. \A e \in Events : e.id \in Ids
  BY DEF Events
<1>5. IdsOf(Accepted(k)) \in SUBSET Ids /\ Acks(k) \in SUBSET Ids
  BY <1>3, <1>4 DEF IdsOf, Acks
<1>6. Acks(k) \subseteq IdsOf(Accepted(k)) \union requests[k].known
  BY DEF Acks, IdsOf, Accepted
<1>7. QED
  BY <1>2, <1>3, <1>5, <1>6

\* What an append and a flush write back is a list of events again.
LEMMA Selections ==
    ASSUME NEW evs \in SUBSET Events, NEW n \in Nat
    PROVE  Trimmed(evs) \in SUBSET Events /\ Oldest(evs, n) \in SUBSET Events
BY DEF Trimmed, Oldest

\* The latest event of a question is one of the events.
LEMMA StoredRow ==
    ASSUME JournalTypeOK, NEW k \in Requests
    PROVE  StoreEvents(k) => table' \in Rows
<1> SUFFICES ASSUME StoreEvents(k) PROVE table' \in Rows
  OBVIOUS
<1>1. ASSUME NEW q \in Questions, NEW e \in Latest(Accepted(k), q)
      PROVE  (CHOOSE f \in Latest(Accepted(k), q) : TRUE).id \in Ids
  <2>1. (CHOOSE f \in Latest(Accepted(k), q) : TRUE) \in Latest(Accepted(k), q)
    BY <1>1
  <2>2. (CHOOSE f \in Latest(Accepted(k), q) : TRUE) \in Events
    BY <2>1, RequestTypes DEF Latest
  <2>3. QED
    BY <2>2 DEF Events
<1>2. \A q \in Questions : table[q] \in Ids \union {NoEvent}
  BY DEF JournalTypeOK, Rows
<1>3. table' = [q \in Questions |->
           IF \E e \in Latest(Accepted(k), q) : e.id # Believed(k, q)
           THEN (CHOOSE e \in Latest(Accepted(k), q) : TRUE).id
           ELSE table[q]]
  BY DEF StoreEvents
<1>4. QED
  BY <1>1, <1>2, <1>3 DEF Rows
-----------------------------------------------------------------------------
\* It holds at the start.
LEMMA InitInv == Init => JournalInv
<1> SUFFICES ASSUME Init PROVE JournalInv
  OBVIOUS
<1> USE JournalAssumption DEF Init
<1>1. journal \in SUBSET Events
  BY DEF Events, Ids
<1>2. /\ Idle \in FlushStates
      /\ Free \in RequestStates
      /\ table \in Rows
  BY DEF Idle, FlushStates, Free, RequestStates, Rows, NoEvent
<1>3. /\ nextSeq \in Nat \ {0} /\ given \in 0..MaxEvents /\ faults \in 0..MaxFaults
      /\ appends = {} /\ seen = {} /\ stored = {} /\ inFlight = FALSE
      /\ flushes \in [Flushes -> FlushStates] /\ requests \in [Requests -> RequestStates]
  BY <1>2
<1>4. JournalTypeOK /\ FlushesWaitForRequests
  BY <1>1, <1>2, <1>3 DEF JournalTypeOK, FlushesWaitForRequests, Idle
<1>5. SeenIsStored
  BY DEF SeenIsStored
<1>6. RequestsTellTheTruth
  BY DEF RequestsTellTheTruth, Free
<1>7. QED
  BY <1>4, <1>5, <1>6 DEF JournalInv

\* The tasks of the app write only lists of events, and send events.
LEMMA ClientSteps ==
    ASSUME JournalInv,
           \/ \E q \in Questions : AppendRead(q)
           \/ \E a \in appends : AppendWrite(a)
           \/ \E f \in Flushes : FlushStart(f) \/ FlushEnds(f) \/ FlushTimeout(f)
           \/ Restart
    PROVE  JournalInv'
<1> USE JournalAssumption DEF JournalInv, JournalTypeOK
<1> DEFINE Appends == [id : Ids, q : Questions, snap : SUBSET Events, next : Nat \ {0}]
<1>0. Idle \in FlushStates /\ Free \in RequestStates
  BY DEF Idle, FlushStates, Free, RequestStates, Rows, NoEvent
<1>1. CASE \E q \in Questions : AppendRead(q)
  <2> PICK q \in Questions : AppendRead(q)
    BY <1>1
  <2>1. given' \in 0..MaxEvents /\ given + 1 \in Ids
    BY DEF AppendRead, Ids
  <2>2. [id |-> given + 1, q |-> q, snap |-> journal, next |-> nextSeq] \in Appends
    BY <2>1
  <2>3. JournalTypeOK'
    BY <2>1, <2>2 DEF AppendRead, serverVars
  <2>4. QED
    BY <2>3
       DEF AppendRead, serverVars, SeenIsStored, RequestsTellTheTruth, Acks,
           FlushesWaitForRequests
<1>2. CASE \E a \in appends : AppendWrite(a)
  <2> PICK a \in appends : AppendWrite(a)
    BY <1>2
  <2>1. [id |-> a.id, seq |-> a.next, q |-> a.q] \in Events
    BY DEF Events
  <2>2. journal' \in SUBSET Events
    BY <2>1, Selections DEF AppendWrite
  <2>3. nextSeq' \in Nat \ {0}
    BY DEF AppendWrite
  <2>4. JournalTypeOK'
    BY <2>2, <2>3 DEF AppendWrite, serverVars
  <2>5. QED
    BY <2>4
       DEF AppendWrite, serverVars, SeenIsStored, RequestsTellTheTruth, Acks,
           FlushesWaitForRequests
<1>3. ASSUME NEW f \in Flushes, FlushStart(f)
      PROVE  JournalInv'
  <2>1. flushes' \in [Flushes -> FlushStates]
    BY <1>3 DEF FlushStart, FlushStates
  <2>2. FlushesWaitForRequests'
    BY <1>3 DEF FlushStart, FlushesWaitForRequests
  <2>3. QED
    BY <1>3, <2>1, <2>2
       DEF FlushStart, serverVars, SeenIsStored, RequestsTellTheTruth, Acks
<1>4. ASSUME NEW f \in Flushes, FlushSend(f)
      PROVE  JournalInv'
  <2>1. CASE journal = {}
    <3>1. /\ flushes' = [flushes EXCEPT ![f] = Idle]
          /\ UNCHANGED <<inFlight, requests>>
      BY <1>4, <2>1 DEF FlushSend
    <3>2. flushes' \in [Flushes -> FlushStates] /\ FlushesWaitForRequests'
      BY <1>0, <3>1 DEF FlushesWaitForRequests, Idle
    <3>3. JournalTypeOK'
      BY <1>4, <3>1, <3>2 DEF FlushSend
    <3>4. QED
      BY <1>4, <3>1, <3>2, <3>3 DEF FlushSend, SeenIsStored, RequestsTellTheTruth, Acks
  <2>2. CASE journal # {}
    <3>1. PICK k \in Requests :
            /\ requests' = [requests EXCEPT ![k] =
                   [Free EXCEPT !.at = "sent", !.evs = Oldest(journal, BatchSize)]]
            /\ flushes' = [flushes EXCEPT ![f] =
                   [at |-> "waiting", snap |-> journal, next |-> nextSeq, req |-> k]]
            /\ inFlight' = TRUE
      BY <1>4, <2>2 DEF FlushSend
    <3>2. [Free EXCEPT !.at = "sent", !.evs = Oldest(journal, BatchSize)] \in RequestStates
      BY <1>0, Selections DEF RequestStates
    <3>3. [at |-> "waiting", snap |-> journal, next |-> nextSeq, req |-> k] \in FlushStates
      BY DEF FlushStates
    <3>4. JournalTypeOK'
      BY <1>4, <3>1, <3>2, <3>3 DEF FlushSend
    <3>5. RequestsTellTheTruth'
      BY <1>4, <3>1 DEF FlushSend, RequestsTellTheTruth, Acks, Free
    <3>6. FlushesWaitForRequests'
      BY <3>1 DEF FlushesWaitForRequests
    <3>7. QED
      BY <1>4, <3>4, <3>5, <3>6 DEF FlushSend, SeenIsStored
  <2>3. QED
    BY <2>1, <2>2
<1>5. ASSUME NEW f \in Flushes, FlushTimeout(f)
      PROVE  JournalInv'
  <2>1. flushes' \in [Flushes -> FlushStates] /\ inFlight' = FALSE /\ faults' \in 0..MaxFaults
    BY <1>0, <1>5 DEF FlushTimeout, GiveUp, Fault
  <2>2. FlushesWaitForRequests'
    BY <1>5 DEF FlushTimeout, GiveUp, FlushesWaitForRequests, Idle
  <2>3. QED
    BY <1>5, <2>1, <2>2
       DEF FlushTimeout, serverVars, SeenIsStored, RequestsTellTheTruth, Acks
<1>6. ASSUME NEW f \in Flushes, FlushRefused(f) \/ FlushAcked(f)
      PROVE  JournalInv'
  <2>1. flushes[f] \in FlushStates
    OBVIOUS
  <2>2. journal' \in SUBSET Events /\ nextSeq' \in Nat \ {0}
    BY <1>6, <2>1 DEF FlushRefused, FlushAcked, FlushStates
  <2>3. requests' = [requests EXCEPT ![flushes[f].req] = Free]
    BY <1>6 DEF FlushRefused, FlushAcked
  <2>4. requests' \in [Requests -> RequestStates]
    BY <1>0, <2>3
  <2>5. flushes' \in [Flushes -> FlushStates] /\ inFlight' \in BOOLEAN
    BY <1>0, <1>6 DEF FlushRefused, FlushAcked, GiveUp
  <2>6. RequestsTellTheTruth'
    BY <1>6, <2>3 DEF FlushRefused, FlushAcked, RequestsTellTheTruth, Acks, Free
  <2>7. FlushesWaitForRequests'
    BY <1>6 DEF FlushRefused, FlushAcked, GiveUp, FlushesWaitForRequests, Idle
  <2>8. QED
    BY <1>6, <2>2, <2>4, <2>5, <2>6, <2>7 DEF FlushRefused, FlushAcked, SeenIsStored
<1>7. CASE Restart
  <2>1. flushes' \in [Flushes -> FlushStates] /\ inFlight' = FALSE /\ faults' \in 0..MaxFaults
    BY <1>0, <1>7 DEF Restart, Fault
  <2>2. FlushesWaitForRequests'
    BY <1>7 DEF Restart, FlushesWaitForRequests, Idle
  <2>3. QED
    BY <1>7, <2>1, <2>2
       DEF Restart, serverVars, SeenIsStored, RequestsTellTheTruth, Acks
<1>8. QED
  BY <1>1, <1>2, <1>3, <1>4, <1>5, <1>6, <1>7 DEF FlushEnds

\* A request remembers, and acks, only what was committed before.
LEMMA ServerSteps ==
    ASSUME JournalInv, NEW k \in Requests, ServerStep(k) \/ Refuse(k)
    PROVE  JournalInv'
<1> USE DEF JournalInv
<1>1. requests[k] \in RequestStates
  BY DEF JournalTypeOK
<1>0. FlushesWaitForRequests'
  BY DEF ServerStep, Load, Check, Commit, Reply, Forgotten, Refuse, clientVars,
         FlushesWaitForRequests
<1>2. CASE Load(k)
  <2>1. JournalTypeOK'
    BY <1>1, <1>2 DEF Load, JournalTypeOK, RequestStates, clientVars
  <2>2. QED
    BY <1>0, <1>1, <1>2, <2>1
       DEF Load, clientVars, JournalTypeOK, SeenIsStored, RequestsTellTheTruth, Acks, RequestStates
<1>3. CASE Check(k)
  <2> DEFINE known == seen \intersect IdsOf(requests[k].evs)
  <2>1. known \in SUBSET Ids /\ known \subseteq stored
    BY DEF JournalTypeOK, SeenIsStored
  <2>2. JournalTypeOK'
    BY <1>1, <1>3, <2>1 DEF Check, AskRedis, JournalTypeOK, RequestStates, clientVars
  <2>3. /\ \A s \in Requests \ {k} : requests'[s] = requests[s]
        /\ requests'[k].evs = requests[k].evs
        /\ requests'[k].known = known
        /\ requests'[k].at = "answered" => IdsOf(Valid(requests[k].evs)) \subseteq known
        /\ requests'[k].at # "committed"
        /\ stored' = stored
    BY <1>1, <1>3 DEF Check, JournalTypeOK, RequestStates
  <2>4. RequestsTellTheTruth'
    BY <2>1, <2>3 DEF RequestsTellTheTruth, Acks
  <2>5. QED
    BY <1>0, <1>3, <2>2, <2>4 DEF Check, AskRedis, SeenIsStored
<1>4. CASE Commit(k)
  <2>1. stored' = stored \union IdsOf(Accepted(k)) /\ StoreEvents(k)
    BY <1>4 DEF Commit, StoreEvents
  <2>2. table' \in Rows /\ stored' \in SUBSET Ids
    BY <2>1, StoredRow, RequestTypes DEF JournalTypeOK
  <2>3. JournalTypeOK'
    BY <1>1, <1>4, <2>2 DEF Commit, JournalTypeOK, RequestStates, clientVars
  <2>4. /\ \A s \in Requests \ {k} : requests'[s] = requests[s]
        /\ requests'[k].evs = requests[k].evs
        /\ requests'[k].known = requests[k].known
    BY <1>1, <1>4 DEF Commit, JournalTypeOK, RequestStates
  <2>5. Acks(k) \subseteq stored'
    BY <2>1, RequestTypes DEF RequestsTellTheTruth
  <2>6. RequestsTellTheTruth'
    BY <2>1, <2>4, <2>5 DEF RequestsTellTheTruth, Acks
  <2>7. QED
    BY <1>0, <1>4, <2>1, <2>3, <2>6 DEF Commit, SeenIsStored
<1>5. CASE Reply(k)
  <2>1. requests[k].at = "committed" /\ Acks(k) \subseteq stored
    BY <1>5 DEF Reply, RequestsTellTheTruth
  <2>2. IdsOf(Accepted(k)) \subseteq Acks(k)
    BY DEF IdsOf, Accepted, Acks
  <2>3. seen' \subseteq stored' /\ seen' \in SUBSET Ids
    BY <1>5, <2>1, <2>2, RequestTypes DEF Reply, SeenIsStored, JournalTypeOK
  <2>4. faults' \in 0..MaxFaults
    BY <1>5, JournalAssumption DEF Reply, Fault, JournalTypeOK
  <2>5. JournalTypeOK'
    BY <1>1, <1>5, <2>3, <2>4 DEF Reply, JournalTypeOK, RequestStates, clientVars
  <2>6. RequestsTellTheTruth'
    BY <1>1, <1>5, <2>1 DEF Reply, RequestsTellTheTruth, Acks, JournalTypeOK, RequestStates
  <2>7. QED
    BY <1>0, <2>3, <2>5, <2>6 DEF SeenIsStored
<1>6. CASE Forgotten(k)
  <2>1. Free \in RequestStates
    BY DEF Free, RequestStates, Rows, NoEvent
  <2>2. JournalTypeOK'
    BY <1>6, <2>1 DEF Forgotten, JournalTypeOK, clientVars
  <2>3. QED
    BY <1>0, <1>6, <2>2
       DEF Forgotten, JournalTypeOK, SeenIsStored, RequestsTellTheTruth, Acks, Free
<1>7. CASE Refuse(k)
  <2>1. JournalTypeOK'
    BY <1>1, <1>7, JournalAssumption
       DEF Refuse, Fault, JournalTypeOK, RequestStates, clientVars
  <2>2. QED
    BY <1>0, <1>1, <1>7, <2>1
       DEF Refuse, JournalTypeOK, SeenIsStored, RequestsTellTheTruth, Acks, RequestStates
<1>8. QED
  BY <1>2, <1>3, <1>4, <1>5, <1>6, <1>7 DEF ServerStep

\* Every step of the app, the server and Redis keeps it.
LEMMA NextKeepsInv == JournalInv /\ [Next]_vars => JournalInv'
<1> SUFFICES ASSUME JournalInv, [Next]_vars PROVE JournalInv'
  OBVIOUS
<1>1. CASE Evict
  BY <1>1, JournalAssumption
     DEF Evict, Fault, clientVars, JournalInv, JournalTypeOK, SeenIsStored,
         RequestsTellTheTruth, Acks, FlushesWaitForRequests
<1>2. CASE UNCHANGED vars
  BY <1>2 DEF vars, JournalInv, JournalTypeOK, SeenIsStored, RequestsTellTheTruth,
             Acks, FlushesWaitForRequests
<1>3. QED
  BY <1>1, <1>2, ClientSteps, ServerSteps DEF Next, FlushSkipped

-----------------------------------------------------------------------------
\* The inductive invariant holds in every reachable state.
THEOREM JournalInvHolds == Spec => []JournalInv
BY InitInv, NextKeepsInv, PTL DEF Spec

\* However requests, timeouts, crashes and evictions follow each other, an id
\* in the Redis set is that of an event whose answer has been committed, so a
\* retry answered "duplicate" was stored (accept_journal_events).
THEOREM SeenStored == Spec => []SeenIsStored
<1>1. JournalInv => SeenIsStored
  BY DEF JournalInv
<1>2. QED
  BY <1>1, JournalInvHolds, PTL

\* flushAnswerJournal takes an event out of the journal it read only if the
\* event has been committed by the server.
THEOREM AckedStored == Spec => AckedIsStored
<1>1. ASSUME JournalInv, [Next]_vars, NEW f \in Flushes, FlushAcked(f),
             NEW e \in flushes[f].snap
      PROVE  e \in journal' \/ journal' = journal \/ e.id \in stored
  <2> DEFINE k == flushes[f].req
  <2>1. k \in Requests /\ requests[k].at = "answered"
    BY <1>1 DEF JournalInv, FlushesWaitForRequests, FlushAcked
  <2>2. Acks(k) \subseteq stored
    BY <1>1, <2>1 DEF JournalInv, RequestsTellTheTruth
  <2>3. journal' = journal \/ journal' = {d \in flushes[f].snap : d.id \notin Acks(k)}
    BY <1>1 DEF FlushAcked
  <2>4. QED
    BY <1>1, <2>2, <2>3
<1>2. JournalInv /\ [Next]_vars =>
        [\A f \in Flushes : FlushAcked(f) => \A e \in flushes[f].snap :
            e \in journal' \/ journal' = journal \/ e.id \in stored]_vars
  BY <1>1
<1>3. QED
  BY <1>2, JournalInvHolds, PTL DEF AckedIsStored, Spec

\* Every way out of a flush, an early return, a refusal, a timeout or an answer,
\* leaves the flag to the flushes that still wait, or reset.
THEOREM FlagIsOwned == Spec => []FlagHasOwner
<1>1. Init => FlagHasOwner
  BY DEF Init, FlagHasOwner
<1>2. ASSUME JournalInv, FlagHasOwner, [Next]_vars PROVE FlagHasOwner'
  <2> USE DEF FlagHasOwner, JournalInv, JournalTypeOK
  <2>1. ASSUME NEW f \in Flushes, FlushStart(f) \/ FlushEnds(f) \/ FlushTimeout(f)
        PROVE  FlagHasOwner'
    <3>1. CASE FlushStart(f) \/ FlushSend(f)
      <4>1. flushes[f].at # "waiting" /\ \A g \in Flushes \ {f} : flushes'[g] = flushes[g]
        BY <1>2, <3>1 DEF FlushStart, FlushSend
      <4>2. UNCHANGED inFlight \/ flushes'[f].at = "waiting"
        BY <1>2, <3>1 DEF FlushStart, FlushSend
      <4> QED
        BY <1>2, <4>1, <4>2
    <3>2. CASE FlushRefused(f) \/ FlushAcked(f) \/ FlushTimeout(f)
      BY <3>2 DEF FlushRefused, FlushAcked, FlushTimeout, GiveUp
    <3> QED
      BY <2>1, <3>1, <3>2 DEF FlushEnds
  <2>2. CASE Restart
    BY <2>2 DEF Restart
  <2>3. CASE UNCHANGED <<flushes, inFlight>>
    BY <1>2, <2>3
  <2> QED
    BY <1>2, <2>1, <2>2, <2>3
       DEF Next, vars, AppendRead, AppendWrite, FlushSkipped, ServerStep, Load, Check, Commit,
           Reply, Forgotten, Refuse, Evict, clientVars
<1> QED
  BY <1>1, <1>2, JournalInvHolds, PTL DEF Spec

-----------------------------------------------------------------------------
(* The cap of the journal.                                                 *)

\* A list of distinct events is finite, and has no more events than ids.
LEMMA DistinctIsFinite ==
    ASSUME NEW evs \in SUBSET Events, NEW top \in Nat, Distinct(evs, top)
    PROVE  IsFiniteSet(evs) /\ Cardinality(evs) <= top
<1> DEFINE id == [e \in evs |-> e.id]
<1>1. id \in Injection(evs, 1..top)
  BY DEF Distinct, Events, Ids, Injection, IsInjective
<1>2. IsFiniteSet(1..top) /\ Cardinality(1..top) = top
  BY FS_Interval
<1> HIDE DEF id
<1> QED
  BY <1>1, <1>2, FS_Injection

\* events.removeRange leaves no more than the cap: two events of the rest do not
\* have equally many behind them.
LEMMA TrimmedIsBounded ==
    ASSUME NEW evs \in SUBSET Events, NEW top \in Nat, Distinct(evs, top)
    PROVE  Cardinality(Trimmed(evs)) <= MaxJournal
<1> DEFINE Behind(e) == {f \in evs : f.id > e.id}
           behind == [e \in Trimmed(evs) |-> Cardinality(Behind(e))]
           Places == 0..(MaxJournal - 1)
<1> USE JournalAssumption
<1>1. IsFiniteSet(evs) /\ Trimmed(evs) \in SUBSET evs
  BY DistinctIsFinite DEF Trimmed
<1>2. IsFiniteSet(Trimmed(evs)) /\ Cardinality(Trimmed(evs)) \in Nat
  BY <1>1, FS_Subset, FS_CardinalityType
<1>3. ASSUME NEW e \in evs PROVE IsFiniteSet(Behind(e)) /\ Cardinality(Behind(e)) \in Nat
  <2>1. Behind(e) \in SUBSET evs
    OBVIOUS
  <2> QED
    BY <1>1, <2>1, FS_Subset, FS_CardinalityType
<1>4. behind \in [Trimmed(evs) -> Places]
  BY <1>1, <1>3 DEF Trimmed
<1>5. ASSUME NEW e \in evs, NEW f \in evs, e.id < f.id
      PROVE  Cardinality(Behind(e)) # Cardinality(Behind(f))
  <2>1. e.id \in Nat /\ f.id \in Nat /\ \A x \in evs : x.id \in Nat
    BY DEF Events, Ids
  <2>2. Behind(f) \in SUBSET Behind(e) /\ f \in Behind(e) /\ f \notin Behind(f)
    BY <1>5, <2>1
  <2>3. IsFiniteSet(Behind(e))
    BY <1>3
  <2> HIDE DEF Behind
  <2> QED
    BY <2>2, <2>3, FS_Subset
<1>6. ASSUME NEW e \in Trimmed(evs), NEW f \in Trimmed(evs), e # f
      PROVE  behind[e] # behind[f]
  <2>1. e \in evs /\ f \in evs /\ e.id \in Nat /\ f.id \in Nat /\ e.id # f.id
    BY <1>1, <1>6 DEF Distinct, Events, Ids
  <2>2. e.id < f.id \/ f.id < e.id
    BY <2>1
  <2>3. Cardinality(Behind(e)) # Cardinality(Behind(f))
    BY <1>5, <2>1, <2>2
  <2> QED
    BY <2>3
<1>7. IsFiniteSet(Places) /\ Cardinality(Places) = MaxJournal
  BY FS_Interval
<1> HIDE DEF behind, Places
<1> QED
  BY <1>2, <1>4, <1>6, <1>7, FS_PigeonHole

\* Of a list of distinct events, any selection is one.
LEMMA DistinctParts ==
    ASSUME NEW evs \in SUBSET Events, NEW top \in Nat, Distinct(evs, top),
           NEW part \in SUBSET evs, NEW more \in Nat, top <= more
    PROVE  Distinct(part, more)
BY DEF Distinct, Events, Ids

\* The journal and the lists that flushes hold stay distinct and within the cap.
LEMMA ListsStep ==
    ASSUME JournalInv, ListsAreDistinct, ListsAreBounded, [Next]_vars
    PROVE  (ListsAreDistinct /\ ListsAreBounded)'
<1> USE DEF JournalInv, JournalTypeOK, ListsAreDistinct, ListsAreBounded, JournalIsBounded
<1>0. given \in Nat /\ flushes \in [Flushes -> FlushStates] /\ journal \in SUBSET Events
  OBVIOUS
<1>1. ASSUME NEW q \in Questions, AppendRead(q)
      PROVE  (ListsAreDistinct /\ ListsAreBounded)'
  <2>1. given' = given + 1 /\ journal' = journal /\ flushes' = flushes
    BY <1>1 DEF AppendRead
  <2>2. Distinct(journal, given + 1)
    BY <1>0, DistinctParts
  <2>3. ASSUME NEW f \in Flushes, flushes[f].at = "waiting"
        PROVE  Distinct(flushes[f].snap, given + 1)
    <3>1. flushes[f].snap \in SUBSET Events
      BY <1>0 DEF FlushStates
    <3> QED
      BY <1>0, <2>3, <3>1, DistinctParts
  <2>4. \A a \in appends' : a.id <= given + 1 /\ Distinct(a.snap, a.id - 1)
    BY <1>0, <1>1 DEF AppendRead, Ids
  <2> QED
    BY <2>1, <2>2, <2>3, <2>4
<1>2. ASSUME NEW a \in appends, AppendWrite(a)
      PROVE  (ListsAreDistinct /\ ListsAreBounded)'
  <2> DEFINE new == a.snap \union {[id |-> a.id, seq |-> a.next, q |-> a.q]}
  <2>1. /\ a.id \in Nat /\ a.id >= 1 /\ a.id <= given
        /\ a.snap \in SUBSET Events /\ Distinct(a.snap, a.id - 1)
    BY DEF Ids
  <2>2. new \in SUBSET Events /\ Distinct(new, a.id)
    BY <2>1 DEF Distinct, Events, Ids
  <2>3. journal' = Trimmed(new) /\ Trimmed(new) \in SUBSET new
    BY <1>2 DEF AppendWrite, Trimmed
  <2> HIDE DEF new
  <2>4. Distinct(journal', given) /\ Cardinality(journal') <= MaxJournal
    BY <1>0, <2>1, <2>2, <2>3, DistinctParts, TrimmedIsBounded
  <2>5. given' = given /\ flushes' = flushes /\ appends' \subseteq appends
    BY <1>2 DEF AppendWrite
  <2> QED
    BY <2>4, <2>5
<1>3. ASSUME NEW f \in Flushes, FlushStart(f) \/ FlushSend(f) \/ FlushTimeout(f) \/ FlushRefused(f)
      PROVE  (ListsAreDistinct /\ ListsAreBounded)'
  <2>1. journal' = journal /\ given' = given /\ appends' = appends
    BY <1>3 DEF FlushStart, FlushSend, FlushTimeout, FlushRefused
  <2>2. \A g \in Flushes : flushes'[g].at = "waiting" =>
           flushes'[g] = flushes[g] \/ flushes'[g].snap = journal
    BY <1>0, <1>3 DEF FlushStart, FlushSend, FlushTimeout, FlushRefused, GiveUp, Idle, FlushStates
  <2> QED
    BY <2>1, <2>2
<1>4. ASSUME NEW f \in Flushes, FlushAcked(f)
      PROVE  (ListsAreDistinct /\ ListsAreBounded)'
  <2>1. /\ given' = given /\ appends' = appends /\ flushes[f].at = "waiting"
        /\ \A g \in Flushes : flushes'[g].at = "waiting" => flushes'[g] = flushes[g]
    BY <1>0, <1>4 DEF FlushAcked, GiveUp, Idle
  <2>2. journal' = journal \/ journal' \in SUBSET flushes[f].snap
    BY <1>4 DEF FlushAcked
  <2>3. /\ flushes[f].snap \in SUBSET Events /\ Distinct(flushes[f].snap, given)
        /\ Cardinality(flushes[f].snap) <= MaxJournal
    BY <1>0, <2>1 DEF FlushStates
  <2>4. IsFiniteSet(flushes[f].snap)
    BY <1>0, <2>3, DistinctIsFinite
  <2>5. Distinct(journal', given) /\ Cardinality(journal') <= MaxJournal
    <3>1. CASE journal' = journal
      BY <3>1
    <3>2. CASE journal' \in SUBSET flushes[f].snap
      <4>1. Cardinality(journal') <= Cardinality(flushes[f].snap) /\ IsFiniteSet(journal')
        BY <2>4, <3>2, FS_Subset
      <4>2. Cardinality(journal') \in Nat /\ Cardinality(flushes[f].snap) \in Nat
        BY <2>4, <4>1, FS_CardinalityType
      <4> QED
        BY <1>0, <2>3, <3>2, <4>1, <4>2, DistinctParts, JournalAssumption
    <3> QED
      BY <2>2, <3>1, <3>2
  <2> QED
    BY <2>1, <2>5
<1>5. CASE Restart
  BY <1>5 DEF Restart, Idle
<1>6. ASSUME NEW k \in Requests, ServerStep(k) \/ Refuse(k)
      PROVE  (ListsAreDistinct /\ ListsAreBounded)'
  BY <1>6 DEF ServerStep, Load, Check, Commit, Reply, Forgotten, Refuse, clientVars
<1>7. CASE Evict \/ UNCHANGED vars
  BY <1>7 DEF Evict, clientVars, vars
<1> QED
  BY <1>1, <1>2, <1>3, <1>4, <1>5, <1>6, <1>7 DEF Next, FlushEnds, FlushSkipped

\* What was left behind fits the journal.
LEMMA ListsInit == ASSUME Init PROVE ListsAreDistinct /\ ListsAreBounded
<1> USE JournalAssumption
<1>1. journal \in SUBSET Events /\ Distinct(journal, LeftBehind)
  BY DEF Init, Distinct, Events, Ids
<1>2. IsFiniteSet(journal) /\ Cardinality(journal) <= LeftBehind
  BY <1>1, DistinctIsFinite
<1>3. Cardinality(journal) <= MaxJournal
  BY <1>2, FS_CardinalityType
<1> QED
  BY <1>1, <1>3 DEF Init, Idle, ListsAreDistinct, ListsAreBounded, JournalIsBounded

\* Whatever lists appendAnswerEvent and flushAnswerJournal write over each other,
\* the journal never has more than _maxJournalEvents events.
THEOREM JournalBounded == Spec => []JournalIsBounded
<1>1. ListsAreBounded => JournalIsBounded
  BY DEF ListsAreBounded
<1> QED
  BY <1>1, ListsInit, ListsStep, JournalInvHolds, PTL DEF Spec

-----------------------------------------------------------------------------
(* Losses come from stale lists and from the cap only.                     *)

\* No task of the app works on a list while another does: what a queue around the
\* reads and writes of the secure storage would guarantee.
OneAtATime ==
    /\ \A a, b \in appends : a = b
    /\ \A f \in Flushes : flushes[f].at = "waiting" => appends = {}
    /\ \A f, g \in Flushes : flushes[f].at = "waiting" /\ flushes[g].at = "waiting" => f = g

\* The list that a task has read is then still the one in the storage.
ListsAreFresh ==
    /\ \A a \in appends : a.snap = journal
    /\ \A f \in Flushes : flushes[f].at = "waiting" => flushes[f].snap = journal

\* A list of distinct events below a bound that the cap does not cut is kept whole.
LEMMA TrimsNothing ==
    ASSUME NEW evs \in SUBSET Events, NEW top \in Nat, Distinct(evs, top), top <= MaxJournal
    PROVE  Trimmed(evs) = evs
<1>1. ASSUME NEW e \in evs PROVE Cardinality({f \in evs : f.id > e.id}) < MaxJournal
  <2> DEFINE behind == {f \in evs : f.id > e.id}
  <2>1. behind \in SUBSET evs /\ e \notin behind
    BY DEF Events, Ids
  <2>2. IsFiniteSet(evs) /\ Cardinality(evs) <= top
    BY DistinctIsFinite
  <2> HIDE DEF behind
  <2>3. Cardinality(behind) <= Cardinality(evs) /\ Cardinality(behind) # Cardinality(evs)
    BY <2>1, <2>2, FS_Subset
  <2>4. Cardinality(behind) \in Nat /\ Cardinality(evs) \in Nat
    BY <2>1, <2>2, FS_Subset, FS_CardinalityType
  <2>5. Cardinality(behind) < MaxJournal
    BY <2>2, <2>3, <2>4, JournalAssumption
  <2> QED
    BY <2>5 DEF behind
<1> QED
  BY <1>1 DEF Trimmed

\* A task that works alone writes back the list it has read.
LEMMA FreshStep ==
    ASSUME JournalInv, ListsAreFresh, OneAtATime, OneAtATime', [Next]_vars
    PROVE  ListsAreFresh'
<1> USE DEF JournalInv, JournalTypeOK, ListsAreFresh, OneAtATime
<1>1. ASSUME NEW q \in Questions, AppendRead(q)
      PROVE  ListsAreFresh'
  BY <1>1 DEF AppendRead
<1>2. ASSUME NEW a \in appends, AppendWrite(a)
      PROVE  ListsAreFresh'
  BY <1>2 DEF AppendWrite
<1>3. ASSUME NEW f \in Flushes, FlushStart(f) \/ FlushSend(f) \/ FlushTimeout(f) \/ FlushRefused(f)
      PROVE  ListsAreFresh'
  <2>1. journal' = journal /\ appends' = appends
    BY <1>3 DEF FlushStart, FlushSend, FlushTimeout, FlushRefused
  <2>2. \A g \in Flushes : flushes'[g].at = "waiting" =>
           flushes'[g] = flushes[g] \/ flushes'[g].snap = journal
    BY <1>3 DEF FlushStart, FlushSend, FlushTimeout, FlushRefused, GiveUp, Idle, FlushStates
  <2> QED
    BY <2>1, <2>2
<1>4. ASSUME NEW f \in Flushes, FlushAcked(f)
      PROVE  ListsAreFresh'
  <2>1. /\ appends' = appends /\ flushes[f].at = "waiting"
        /\ \A g \in Flushes : flushes'[g].at = "waiting" => g # f /\ flushes'[g] = flushes[g]
    BY <1>4 DEF FlushAcked, GiveUp, Idle
  <2> QED
    BY <2>1
<1>5. CASE Restart
  BY <1>5 DEF Restart, Idle
<1>6. ASSUME NEW k \in Requests, ServerStep(k) \/ Refuse(k)
      PROVE  ListsAreFresh'
  BY <1>6 DEF ServerStep, Load, Check, Commit, Reply, Forgotten, Refuse, clientVars
<1>7. CASE Evict \/ UNCHANGED vars
  BY <1>7 DEF Evict, clientVars, vars
<1> QED
  BY <1>1, <1>2, <1>3, <1>4, <1>5, <1>6, <1>7 DEF Next, FlushEnds, FlushSkipped

\* The losses of the run journal_loss come from overlapping tasks alone: if the
\* app worked on its journal one task at a time, and gave no more answers than the
\* cap, whatever crashes, times out or is forgotten, no event would leave the
\* journal before it is stored.
THEOREM NothingLostOneAtATime ==
    ASSUME MaxEvents <= MaxJournal
    PROVE  Spec /\ []OneAtATime => NoLoss
<1>1. ASSUME JournalInv, ListsAreDistinct, ListsAreFresh, [Next]_vars, NEW e \in journal
      PROVE  e \in journal' \/ e.id \in stored
  <2> USE DEF JournalInv, JournalTypeOK, ListsAreFresh, ListsAreDistinct
  <2>1. ASSUME NEW a \in appends, AppendWrite(a)
        PROVE  e \in journal'
    <3> DEFINE new == a.snap \union {[id |-> a.id, seq |-> a.next, q |-> a.q]}
    <3>1. /\ a \in [id : Ids, q : Questions, snap : SUBSET Events, next : Nat \ {0}]
          /\ a.id <= given /\ given <= MaxEvents /\ Distinct(a.snap, a.id - 1)
      BY <1>1, JournalAssumption
    <3>2. a.id \in Nat /\ a.id <= MaxJournal /\ a.snap \in SUBSET Events
      BY <1>1, <3>1, JournalAssumption DEF Ids
    <3>3. new \in SUBSET Events /\ Distinct(new, a.id)
      BY <3>1 DEF Distinct, Events, Ids
    <3>4. journal' = Trimmed(new) /\ e \in new
      BY <1>1, <2>1 DEF AppendWrite
    <3> HIDE DEF new
    <3> QED
      BY <3>2, <3>3, <3>4, TrimsNothing
  <2>2. ASSUME NEW f \in Flushes, FlushAcked(f)
        PROVE  e \in journal' \/ e.id \in stored
    <3> DEFINE k == flushes[f].req
    <3>1. k \in Requests /\ requests[k].at = "answered" /\ flushes[f].snap = journal
      BY <1>1, <2>2 DEF FlushesWaitForRequests, FlushAcked
    <3>2. Acks(k) \subseteq stored
      BY <1>1, <3>1 DEF RequestsTellTheTruth
    <3>3. journal' = journal \/ journal' = {d \in journal : d.id \notin Acks(k)}
      BY <2>2, <3>1 DEF FlushAcked
    <3> QED
      BY <1>1, <3>2, <3>3
  <2>3. CASE UNCHANGED journal
    BY <1>1, <2>3
  <2> QED
    BY <1>1, <2>1, <2>2, <2>3
       DEF Next, vars, AppendRead, FlushStart, FlushEnds, FlushSend, FlushRefused, FlushTimeout,
           FlushSkipped, ServerStep, Load, Check, Commit, Reply, Forgotten, Refuse, Restart,
           Evict, clientVars
<1>2. JournalInv /\ ListsAreDistinct /\ ListsAreFresh /\ [Next]_vars =>
        [\A n \in IdsOf(journal) : n \in IdsOf(journal') \/ n \in stored]_vars
  BY <1>1 DEF IdsOf
<1>3. Init => ListsAreFresh
  BY DEF Init, ListsAreFresh, Idle
<1>4. Spec => []ListsAreDistinct
  BY ListsInit, ListsStep, JournalInvHolds, PTL DEF Spec
<1> QED
  BY <1>2, <1>3, <1>4, FreshStep, JournalInvHolds, PTL DEF Spec, NoLoss

-----------------------------------------------------------------------------
(* Duplicates come from overlaps and from what Redis forgets only.         *)

\* No two requests of the client overlap in the server.
OneRequest ==
    \A k, l \in Requests : requests[k].at # "free" /\ requests[l].at # "free" => k = l

\* The events that may still reach the database.
Live == journal \union UNION {requests[k].evs : k \in Requests}

\* They were given, and got their sequence numbers, in the order of their ids; the
\* next one comes after all of them.
LiveIsOrdered ==
    /\ Distinct(Live, given)
    /\ \A e \in Live : e.seq < nextSeq
    /\ \A e, f \in Live : e.id < f.id => e.seq < f.seq
    /\ \A n \in stored : n <= given

NextIsLast ==
    /\ \A a \in appends :
          /\ a.next = nextSeq
          /\ \A e \in Live : e.id < a.id
          /\ \A n \in stored : n < a.id
    /\ \A f \in Flushes : flushes[f].at = "waiting" => flushes[f].next = nextSeq
    /\ \A k \in Requests : requests[k].at = "free" => requests[k].evs = {}

\* A row holds the newest stored event of its question, and a request in progress
\* has read it so.
TableIsNewest ==
    /\ \A q \in Questions : table[q] # NoEvent => table[q] \in stored
    /\ \A e \in Live, q \in Questions : e.id = table[q] => e.q = q
    /\ \A e \in Valid(Live) : e.id \in stored => e.id <= table[e.q]
    /\ \A k \in Requests : requests[k].at \in {"loaded", "checked"} => requests[k].rows = table

\* An event is stored only with those before it, and leaves the journal only after
\* them: what is younger than an event of the journal is there too when it is stored,
\* and is soon sent.
OldestFirst ==
    /\ \A e \in Valid(journal), n \in stored : e.id < n => n \in IdsOf(journal)
    /\ \A f \in journal : f.id \in stored => f \in Oldest(journal, BatchSize)

\* A request has all of the journal that is older than its events, and all stored
\* events that are younger.
SentInOrder(k) ==
    /\ \A e \in Valid(journal), f \in Valid(requests[k].evs) :
          e.id < f.id => f \in journal /\ e \in requests[k].evs
    /\ requests[k].evs \intersect journal \subseteq Oldest(journal, BatchSize)
    /\ \A e \in Valid(requests[k].evs), n \in stored :
          e.id < n => n \in IdsOf(requests[k].evs)

\* Redis remembers an event only with those before it.
SeenFirst ==
    /\ \A e, f \in Valid(Live) : e.id < f.id /\ f.id \in seen => e.id \in seen
    /\ \A k \in Requests :
          /\ requests[k].known \subseteq seen
          /\ \A e, f \in Valid(requests[k].evs) :
                e.id < f.id /\ f.id \in requests[k].known => e.id \in requests[k].known

\* Ids and sequence numbers are natural numbers.
LEMMA EventTypes ==
    \A e \in Events : e.id \in Nat /\ e.id >= 1 /\ e.id <= MaxEvents /\ e.seq \in Nat
BY DEF Events, Ids

\* What is before the end of the oldest events is one of them.
LEMMA OldestIsPrefix ==
    ASSUME NEW evs \in SUBSET Events, IsFiniteSet(evs), NEW n \in Nat,
           NEW f \in Oldest(evs, n), NEW e \in evs, e.seq < f.seq
    PROVE  e \in Oldest(evs, n)
<1> DEFINE Sooner(g) == {d \in evs : Before(d, g)}
<1>1. f \in evs /\ Cardinality(Sooner(f)) < n
  BY DEF Oldest
<1>2. Sooner(e) \in SUBSET Sooner(f) /\ Sooner(f) \in SUBSET evs
  BY <1>1, EventTypes DEF Before
<1> HIDE DEF Sooner
<1>3. IsFiniteSet(Sooner(f))
  BY <1>2, FS_Subset
<1>4. IsFiniteSet(Sooner(e)) /\ Cardinality(Sooner(e)) <= Cardinality(Sooner(f))
  BY <1>2, <1>3, FS_Subset
<1>5. Cardinality(Sooner(e)) < n
  BY <1>1, <1>3, <1>4, FS_CardinalityType
<1> QED
  BY <1>5 DEF Sooner, Oldest

\* In a part of a list an event is no later than in the whole.
LEMMA OldestOfPart ==
    ASSUME NEW evs \in SUBSET Events, IsFiniteSet(evs), NEW n \in Nat,
           NEW part \in SUBSET evs, NEW e \in part, e \in Oldest(evs, n)
    PROVE  e \in Oldest(part, n)
<1> DEFINE all == {d \in evs : Before(d, e)}
           some == {d \in part : Before(d, e)}
<1>1. Cardinality(all) < n
  BY DEF Oldest
<1>2. some \in SUBSET all /\ all \in SUBSET evs
  OBVIOUS
<1> HIDE DEF all, some
<1>3. IsFiniteSet(all)
  BY <1>2, FS_Subset
<1>4. IsFiniteSet(some) /\ Cardinality(some) <= Cardinality(all)
  BY <1>2, <1>3, FS_Subset
<1>5. Cardinality(some) < n
  BY <1>1, <1>3, <1>4, FS_CardinalityType
<1> QED
  BY <1>5 DEF some, Oldest

\* An event that is added at the end moves no other.
LEMMA OldestOfMore ==
    ASSUME NEW evs \in SUBSET Events, NEW n \in Nat, NEW new \in Events,
           \A e \in evs : e.seq < new.seq,
           NEW e \in Oldest(evs, n)
    PROVE  e \in Oldest(evs \union {new}, n)
<1>1. e \in evs
  BY DEF Oldest
<1>2. {d \in evs \union {new} : Before(d, e)} = {d \in evs : Before(d, e)}
  BY <1>1, EventTypes DEF Before
<1> QED
  BY <1>1, <1>2 DEF Oldest

\* The cap cuts from the front only.
LEMMA TrimmedIsSuffix ==
    ASSUME NEW evs \in SUBSET Events, IsFiniteSet(evs),
           NEW e \in Trimmed(evs), NEW f \in evs, e.id < f.id
    PROVE  f \in Trimmed(evs)
<1> DEFINE Behind(g) == {d \in evs : d.id > g.id}
<1>1. e \in evs /\ Cardinality(Behind(e)) < MaxJournal
  BY DEF Trimmed
<1>2. Behind(f) \in SUBSET Behind(e) /\ Behind(e) \in SUBSET evs
  BY <1>1, EventTypes
<1> HIDE DEF Behind
<1>3. IsFiniteSet(Behind(e))
  BY <1>2, FS_Subset
<1>4. IsFiniteSet(Behind(f)) /\ Cardinality(Behind(f)) <= Cardinality(Behind(e))
  BY <1>2, <1>3, FS_Subset
<1>5. Cardinality(Behind(f)) < MaxJournal
  BY <1>1, <1>3, <1>4, FS_CardinalityType, JournalAssumption
<1> QED
  BY <1>5 DEF Behind, Trimmed

\* What may reach the database are events; if a request is in progress, those of
\* the journal and of the request (LiveOfRequest).
LEMMA LiveTypes ==
    ASSUME JournalInv
    PROVE  /\ Live \in SUBSET Events /\ journal \in SUBSET Live
           /\ \A k \in Requests : requests[k].evs \in SUBSET Live
           /\ given \in Nat /\ nextSeq \in Nat
           /\ stored \in SUBSET Nat /\ seen \in SUBSET stored
           /\ \A q \in Questions : table[q] \in Nat
           /\ \A k \in Requests : requests[k].evs \in SUBSET Events
<1>1. \A k \in Requests : requests[k].evs \in SUBSET Events
  BY RequestTypes DEF JournalInv
<1>2. Live \in SUBSET Events
  BY <1>1 DEF Live, JournalInv, JournalTypeOK
<1> QED
  BY <1>1, <1>2 DEF Live, JournalInv, JournalTypeOK, SeenIsStored, Ids, Rows, NoEvent

\* No other request holds events.
LEMMA LiveOfRequest ==
    ASSUME OneRequest, NextIsLast, NEW k \in Requests, requests[k].at # "free"
    PROVE  Live = journal \union requests[k].evs
BY DEF OneRequest, NextIsLast, Live

\* The event that an append adds.
Appended(a) == [id |-> a.id, seq |-> a.next, q |-> a.q]

\* A list that a task writes back adds at most the event of an append.
LEMMA LiveStep ==
    ASSUME JournalInv, ListsAreFresh, NextIsLast, [Next]_vars
    PROVE  \/ Live' \in SUBSET Live /\ nextSeq' = nextSeq
           \/ \E a \in appends :
                 AppendWrite(a) /\ Live' \in SUBSET (Live \union {Appended(a)})
<1> USE DEF JournalInv, JournalTypeOK
<1>1. ASSUME NEW a \in appends, AppendWrite(a)
      PROVE  Live' \in SUBSET (Live \union {Appended(a)})
  <2>1. journal' \in SUBSET (journal \union {Appended(a)}) /\ requests' = requests
    BY <1>1 DEF AppendWrite, serverVars, Trimmed, ListsAreFresh, Appended
  <2> QED
    BY <2>1 DEF Live
<1>2. ASSUME NEW f \in Flushes, FlushStart(f) \/ FlushTimeout(f)
      PROVE  Live' = Live /\ nextSeq' = nextSeq
  BY <1>2 DEF FlushStart, FlushTimeout, serverVars, Live
<1>3. ASSUME NEW f \in Flushes, FlushSend(f)
      PROVE  Live' \in SUBSET Live /\ nextSeq' = nextSeq
  <2>1. journal' = journal /\ nextSeq' = nextSeq
    BY <1>3 DEF FlushSend
  <2>2. \A k \in Requests :
           requests'[k] = requests[k] \/ requests'[k].evs = Oldest(journal, BatchSize)
    BY <1>3 DEF FlushSend, Free
  <2>3. \A k \in Requests : requests'[k].evs \in SUBSET Live
    BY <2>2 DEF Live, Oldest
  <2> QED
    BY <2>1, <2>3 DEF Live
<1>4. ASSUME NEW f \in Flushes, FlushRefused(f) \/ FlushAcked(f)
      PROVE  Live' \in SUBSET Live /\ nextSeq' = nextSeq
  <2>1. journal' \in SUBSET journal /\ nextSeq' = nextSeq
    BY <1>4 DEF FlushRefused, FlushAcked, ListsAreFresh, NextIsLast
  <2>2. \A k \in Requests : requests'[k] = requests[k] \/ requests'[k].evs = {}
    BY <1>4 DEF FlushRefused, FlushAcked, Free
  <2> QED
    BY <2>1, <2>2 DEF Live
<1>5. ASSUME NEW k \in Requests, ServerStep(k) \/ Refuse(k)
      PROVE  Live' \in SUBSET Live /\ nextSeq' = nextSeq
  <2>1. journal' = journal /\ nextSeq' = nextSeq
    BY <1>5 DEF ServerStep, Load, Check, Commit, Reply, Forgotten, Refuse, clientVars
  <2>2. \A l \in Requests : requests'[l].evs = requests[l].evs \/ requests'[l].evs = {}
    BY <1>5 DEF ServerStep, Load, Check, Commit, Reply, Forgotten, Refuse, Free, RequestStates
  <2> QED
    BY <2>1, <2>2 DEF Live
<1>6. CASE (\E q \in Questions : AppendRead(q)) \/ Restart \/ Evict \/ UNCHANGED vars
  BY <1>6 DEF AppendRead, Restart, Evict, clientVars, serverVars, vars, Live
<1> QED
  BY <1>1, <1>2, <1>3, <1>4, <1>5, <1>6 DEF Next, FlushEnds, FlushSkipped

\* Sequence numbers follow the ids, and so will the next one.
LEMMA OrderStep ==
    ASSUME JournalInv, ListsAreFresh, ListsAreDistinct, OneAtATime, LiveIsOrdered, NextIsLast,
           [Next]_vars
    PROVE  LiveIsOrdered' /\ NextIsLast'
<1>0. given' \in Nat /\ given <= given'
  <2>1. given' = given + 1 \/ given' = given
    BY DEF Next, vars, AppendRead, AppendWrite, FlushStart, FlushEnds, FlushSend, FlushRefused,
           FlushTimeout, FlushAcked, FlushSkipped, ServerStep, Load, Check, Commit, Reply,
           Forgotten, Refuse, Restart, Evict, clientVars
  <2> QED
    BY <2>1, LiveTypes
<1>1. stored' \in SUBSET (stored \union IdsOf(Live))
  <2>1. \A k \in Requests : Commit(k) => stored' = stored \union IdsOf(Accepted(k))
    BY DEF Commit, StoreEvents
  <2>2. \A k \in Requests : IdsOf(Accepted(k)) \in SUBSET IdsOf(Live)
    BY DEF IdsOf, Accepted, Valid, Live
  <2> QED
    BY <2>1, <2>2
       DEF Next, vars, AppendRead, AppendWrite, FlushStart, FlushEnds, FlushSend, FlushRefused,
           FlushTimeout, FlushAcked, FlushSkipped, ServerStep, Load, Check, Reply,
           Forgotten, Refuse, Restart, Evict, clientVars, serverVars
<1>2. \A n \in stored' : n <= given'
  BY <1>0, <1>1, LiveTypes, EventTypes DEF LiveIsOrdered, Distinct, IdsOf
<1>3. CASE Live' \in SUBSET Live /\ nextSeq' = nextSeq
  <2>1. LiveIsOrdered'
    <3>1. Distinct(Live', given')
      BY <1>0, <1>3, LiveTypes, DistinctParts DEF LiveIsOrdered
    <3> QED
      BY <1>2, <1>3, <3>1 DEF LiveIsOrdered
  <2>2. ASSUME NEW a \in appends'
        PROVE  a.next = nextSeq /\ (\A e \in Live' : e.id < a.id) /\ (\A n \in stored' : n < a.id)
    <3>1. CASE a \in appends
      BY <1>1, <1>3, <3>1 DEF NextIsLast, IdsOf
    <3>2. CASE a \notin appends
      <4>1. \E q \in Questions : AppendRead(q)
        BY <2>2, <3>2
           DEF Next, vars, AppendRead, AppendWrite, FlushStart, FlushEnds, FlushSend, FlushRefused,
               FlushTimeout, FlushAcked, FlushSkipped, ServerStep, Load, Check, Commit, Reply,
               Forgotten, Refuse, Restart, Evict, clientVars
      <4>2. a.id = given + 1 /\ a.next = nextSeq /\ stored' = stored
        BY <2>2, <3>2, <4>1 DEF AppendRead, serverVars
      <4> QED
        BY <1>3, <4>2, LiveTypes, EventTypes DEF LiveIsOrdered, Distinct
    <3> QED
      BY <3>1, <3>2
  <2>3. ASSUME NEW f \in Flushes, flushes'[f].at = "waiting"
        PROVE  flushes'[f].next = nextSeq
    <3>1. flushes \in [Flushes -> FlushStates]
      BY DEF JournalInv, JournalTypeOK
    <3>2. ASSUME NEW g \in Flushes, FlushStart(g) \/ FlushEnds(g) \/ FlushTimeout(g)
          PROVE  flushes'[f].next = nextSeq \/ flushes'[f] = flushes[f]
      BY <2>3, <3>1, <3>2
         DEF FlushStart, FlushEnds, FlushSend, FlushRefused, FlushTimeout, FlushAcked, GiveUp, Idle,
             FlushStates
    <3>3. ~Restart
      BY <2>3 DEF Restart, Idle
    <3>4. flushes'[f].next = nextSeq \/ flushes'[f] = flushes[f]
      BY <3>2, <3>3
         DEF Next, vars, AppendRead, AppendWrite, FlushSkipped, ServerStep, Load, Check, Commit,
             Reply, Forgotten, Refuse, Evict, clientVars
    <3> QED
      BY <2>3, <3>4 DEF NextIsLast
  <2>4. ASSUME NEW k \in Requests, requests'[k].at = "free"
        PROVE  requests'[k].evs = {}
    <3>1. requests \in [Requests -> RequestStates]
      BY DEF JournalInv, JournalTypeOK
    <3>2. ASSUME NEW g \in Flushes, FlushEnds(g)
          PROVE  requests'[k] = requests[k] \/ requests'[k] = Free
      BY <2>4, <3>1, <3>2 DEF FlushEnds, FlushSend, FlushRefused, FlushAcked, Free
    <3>3. ASSUME NEW l \in Requests, ServerStep(l) \/ Refuse(l)
          PROVE  requests'[k] = requests[k] \/ requests'[k] = Free
      BY <2>4, <3>1, <3>3
         DEF ServerStep, Load, Check, Commit, Reply, Forgotten, Refuse, RequestStates
    <3>4. requests'[k] = requests[k] \/ requests'[k] = Free
      BY <3>2, <3>3
         DEF Next, vars, AppendRead, AppendWrite, FlushStart, FlushTimeout, FlushSkipped, Restart,
             Evict, clientVars, serverVars
    <3> QED
      BY <2>4, <3>4 DEF NextIsLast, Free
  <2> QED
    BY <1>3, <2>1, <2>2, <2>3, <2>4 DEF NextIsLast
<1>4. ASSUME NEW a \in appends, AppendWrite(a), Live' \in SUBSET (Live \union {Appended(a)})
      PROVE  LiveIsOrdered' /\ NextIsLast'
  <2>1. /\ a.id \in Nat /\ a.next = nextSeq /\ a.id <= given /\ \A e \in Live : e.id < a.id
        /\ nextSeq' = nextSeq + 1 /\ given' = given /\ stored' = stored
        /\ appends' = {} /\ requests' = requests
        /\ \A f \in Flushes : flushes'[f].at # "waiting"
    BY <1>4, LiveTypes
       DEF NextIsLast, AppendWrite, JournalInv, JournalTypeOK, serverVars, Ids, OneAtATime,
           ListsAreDistinct
  <2>2. Appended(a).id = a.id /\ Appended(a).seq = nextSeq
    BY <2>1 DEF Appended
  <2>3. Distinct(Live', given)
    BY <1>4, <2>1, <2>2, LiveTypes, EventTypes DEF LiveIsOrdered, Distinct
  <2>4. \A e \in Live' : e.seq < nextSeq + 1
    BY <1>4, <2>1, <2>2, LiveTypes, EventTypes DEF LiveIsOrdered
  <2>5. \A e, f \in Live' : e.id < f.id => e.seq < f.seq
    BY <1>4, <2>1, <2>2, LiveTypes, EventTypes DEF LiveIsOrdered
  <2> QED
    BY <1>2, <2>1, <2>3, <2>4, <2>5 DEF LiveIsOrdered, NextIsLast
<1> QED
  BY <1>3, <1>4, LiveStep

\* The journal keeps the order, and so does every request that is made from it.
LEMMA FirstStep ==
    ASSUME JournalInv, ListsAreFresh, ListsAreDistinct, OneAtATime, OneRequest, OneRequest',
           LiveIsOrdered, NextIsLast, OldestFirst, \A k \in Requests : SentInOrder(k), [Next]_vars
    PROVE  OldestFirst' /\ \A k \in Requests : SentInOrder(k)'
<1>0. /\ journal \in SUBSET Events /\ IsFiniteSet(journal) /\ BatchSize \in Nat
      /\ stored \in SUBSET Nat /\ requests \in [Requests -> RequestStates]
  <2>1. journal \in SUBSET Events /\ given \in Nat /\ Distinct(journal, given)
    BY LiveTypes DEF ListsAreDistinct, JournalInv, JournalTypeOK
  <2> QED
    BY <2>1, LiveTypes, DistinctIsFinite, JournalAssumption DEF JournalInv, JournalTypeOK
<1>1. ASSUME journal' = journal, stored' = stored,
             \A k \in Requests : requests'[k].evs = requests[k].evs \/ requests'[k].evs = {}
      PROVE  OldestFirst' /\ \A k \in Requests : SentInOrder(k)'
  BY <1>1 DEF OldestFirst, SentInOrder, Valid, IdsOf, Oldest
<1>2. ASSUME NEW a \in appends, AppendWrite(a)
      PROVE  OldestFirst' /\ \A k \in Requests : SentInOrder(k)'
  <2> DEFINE all == journal \union {Appended(a)}
  <2>0. a \in [id : Ids, q : Questions, snap : SUBSET Events, next : Nat \ {0}] /\ a.snap = journal
    BY DEF ListsAreFresh, JournalInv, JournalTypeOK
  <2>1. /\ journal' = Trimmed(all) /\ requests' = requests /\ stored' = stored
        /\ Appended(a) \in Events /\ all \in SUBSET Events /\ IsFiniteSet(all)
    <3>1. Appended(a) \in Events
      BY <2>0 DEF Appended, Events
    <3>2. IsFiniteSet(all)
      BY <1>0, FS_AddElement
    <3> QED
      BY <1>0, <1>2, <2>0, <3>1, <3>2 DEF AppendWrite, Appended, serverVars
  <2>2. /\ \A e \in Live : e.id < Appended(a).id /\ e.seq < Appended(a).seq
        /\ \A n \in stored : n < Appended(a).id
    BY DEF NextIsLast, LiveIsOrdered, Appended
  <2>3. /\ \A e \in journal' : e \in journal \/ e = Appended(a)
        /\ \A e \in journal', f \in journal : e.id < f.id => f \in journal'
    BY <1>0, <2>1, TrimmedIsSuffix DEF Trimmed
  <2>4. \A e \in Oldest(journal, BatchSize) :
           e \in journal' => e \in Oldest(journal', BatchSize)
    <3>1. \A e \in Oldest(journal, BatchSize) : e \in Oldest(all, BatchSize)
      BY <1>0, <2>1, <2>2, OldestOfMore DEF Live
    <3>2. journal' \in SUBSET all
      BY <2>1 DEF Trimmed
    <3> HIDE DEF all
    <3> QED
      BY <1>0, <2>1, <3>1, <3>2, OldestOfPart
  <2> HIDE DEF all
  <2>5. OldestFirst'
    <3>1. \A e \in Valid(journal'), n \in stored : e.id < n => n \in IdsOf(journal')
      <4> SUFFICES ASSUME NEW e \in Valid(journal'), NEW n \in stored, e.id < n
                   PROVE  n \in IdsOf(journal')
        OBVIOUS
      <4>1. e \in Valid(journal) /\ e \in journal'
        BY <1>0, <2>1, <2>2, <2>3, EventTypes DEF Valid
      <4>2. PICK f \in journal : f.id = n
        BY <4>1 DEF OldestFirst, IdsOf
      <4> QED
        BY <2>3, <4>1, <4>2 DEF IdsOf
    <3>2. \A f \in journal' : f.id \in stored => f \in Oldest(journal', BatchSize)
      BY <1>0, <2>1, <2>2, <2>3, <2>4, EventTypes DEF OldestFirst
    <3> QED
      BY <2>1, <3>1, <3>2 DEF OldestFirst
  <2>6. ASSUME NEW k \in Requests PROVE SentInOrder(k)'
    <3>1. requests[k].evs \in SUBSET Live /\ Live \in SUBSET Events
      BY LiveTypes
    <3>2. ASSUME NEW e \in Valid(journal'), NEW f \in Valid(requests[k].evs), e.id < f.id
          PROVE  f \in journal' /\ e \in requests[k].evs
      <4>1. e \in Valid(journal) /\ e \in journal'
        BY <1>0, <2>1, <2>2, <2>3, <3>1, <3>2, EventTypes DEF Valid
      <4>2. f \in journal /\ e \in requests[k].evs
        BY <3>2, <4>1 DEF SentInOrder
      <4> QED
        BY <2>3, <3>2, <4>1, <4>2
    <3>3. requests[k].evs \intersect journal' \subseteq Oldest(journal', BatchSize)
      BY <2>1, <2>2, <2>3, <2>4, <3>1, EventTypes DEF SentInOrder
    <3> QED
      BY <2>1, <3>2, <3>3 DEF SentInOrder
  <2> QED
    BY <2>5, <2>6
<1>3. ASSUME NEW f \in Flushes, FlushSend(f)
      PROVE  OldestFirst' /\ \A k \in Requests : SentInOrder(k)'
  <2>1. CASE journal = {}
    BY <1>1, <1>3, <2>1 DEF FlushSend
  <2>2. CASE journal # {}
    <3>1. PICK k \in Requests :
             /\ requests' = [requests EXCEPT ![k] =
                    [Free EXCEPT !.at = "sent", !.evs = Oldest(journal, BatchSize)]]
             /\ journal' = journal /\ stored' = stored
      BY <1>3, <2>2 DEF FlushSend
    <3>2. /\ requests'[k].at = "sent" /\ requests'[k].evs = Oldest(journal, BatchSize)
          /\ \A l \in Requests \ {k} : requests'[l] = requests[l]
      BY <1>0, <3>1 DEF Free
    <3>3. \A l \in Requests \ {k} : requests'[l].evs = {}
      BY <3>2 DEF OneRequest, NextIsLast
    <3>4. ASSUME NEW e \in Valid(journal), NEW g \in Valid(Oldest(journal, BatchSize)), e.id < g.id
          PROVE  e \in Oldest(journal, BatchSize)
      <4>1. e \in journal /\ g \in Oldest(journal, BatchSize) /\ g \in journal
        BY DEF Valid, Oldest
      <4>2. e.seq < g.seq
        BY <3>4, <4>1 DEF LiveIsOrdered, Live
      <4> QED
        BY <1>0, <4>1, <4>2, OldestIsPrefix
    <3>5. ASSUME NEW e \in Valid(Oldest(journal, BatchSize)), NEW n \in stored, e.id < n
          PROVE  n \in IdsOf(Oldest(journal, BatchSize))
      BY <3>5 DEF OldestFirst, Valid, Oldest, IdsOf
    <3>6. SentInOrder(k)'
      BY <3>1, <3>2, <3>4, <3>5 DEF SentInOrder, Valid, Oldest
    <3>7. \A l \in Requests \ {k} : SentInOrder(l)'
      BY <3>3 DEF SentInOrder, Valid
    <3>8. OldestFirst'
      BY <3>1 DEF OldestFirst
    <3> QED
      BY <3>6, <3>7, <3>8
  <2> QED
    BY <2>1, <2>2
<1>4. ASSUME NEW f \in Flushes, FlushAcked(f)
      PROVE  OldestFirst' /\ \A k \in Requests : SentInOrder(k)'
  <2> DEFINE k == flushes[f].req
  <2>1. /\ k \in Requests /\ requests[k].at = "answered" /\ stored' = stored
        /\ requests' = [requests EXCEPT ![k] = Free]
        /\ \/ journal' = journal
           \/ journal' = {e \in journal : e.id \notin IdsOf(Valid(requests[k].evs))}
    BY <1>4 DEF FlushAcked, ListsAreFresh, Acks, JournalInv, FlushesWaitForRequests
  <2>2. \A l \in Requests : requests'[l].evs = {}
    BY <1>0, <2>1 DEF Free, OneRequest, NextIsLast
  <2>3. journal' \in SUBSET journal
    BY <2>1
  <2>4. \A g \in Oldest(journal, BatchSize) : g \in journal' => g \in Oldest(journal', BatchSize)
    BY <1>0, <2>3, OldestOfPart
  <2>5. ASSUME NEW e \in Valid(journal'), NEW n \in stored, e.id < n
        PROVE  n \in IdsOf(journal')
    <3>1. e \in Valid(journal) /\ e \in journal'
      BY <2>3 DEF Valid
    <3>2. PICK g \in journal : g.id = n
      BY <2>5, <3>1 DEF OldestFirst, IdsOf
    <3>3. CASE g \in journal'
      BY <3>2, <3>3 DEF IdsOf
    <3>4. CASE g \notin journal'
      <4>1. g.id \in IdsOf(Valid(requests[k].evs)) /\ e.id \notin IdsOf(Valid(requests[k].evs))
        BY <2>1, <3>1, <3>2, <3>4
      <4>2. PICK h \in Valid(requests[k].evs) : h.id = g.id
        BY <4>1 DEF IdsOf
      <4>3. e \in requests[k].evs
        BY <2>1, <2>5, <3>1, <3>2, <4>2 DEF SentInOrder
      <4> QED
        BY <3>1, <4>1, <4>3 DEF IdsOf, Valid
    <3> QED
      BY <3>3, <3>4
  <2>6. OldestFirst'
    BY <2>1, <2>3, <2>4, <2>5 DEF OldestFirst
  <2>7. \A l \in Requests : SentInOrder(l)'
    BY <2>2 DEF SentInOrder, Valid
  <2> QED
    BY <2>6, <2>7
<1>5. ASSUME NEW k \in Requests, Commit(k)
      PROVE  OldestFirst' /\ \A l \in Requests : SentInOrder(l)'
  <2>1. /\ requests[k].at = "checked" /\ journal' = journal
        /\ stored' = stored \union IdsOf(Accepted(k))
        /\ \A l \in Requests : requests'[l].evs = requests[l].evs
    BY <1>0, <1>5 DEF Commit, StoreEvents, clientVars, RequestStates
  <2>2. \A l \in Requests \ {k} : requests[l].evs = {}
    BY <2>1 DEF OneRequest, NextIsLast
  <2>3. ASSUME NEW n \in IdsOf(Accepted(k))
        PROVE  \E g \in Valid(requests[k].evs) : g.id = n
    BY <2>3 DEF IdsOf, Accepted
  <2>4. OldestFirst'
    <3>1. \A e \in Valid(journal), n \in stored' : e.id < n => n \in IdsOf(journal)
      BY <2>1, <2>3 DEF OldestFirst, SentInOrder, IdsOf
    <3>2. ASSUME NEW e \in journal, e.id \in IdsOf(Accepted(k))
          PROVE  e \in Oldest(journal, BatchSize)
      <4>1. PICK g \in requests[k].evs : g.id = e.id
        BY <2>3, <3>2 DEF Valid
      <4>2. g = e
        BY <4>1 DEF LiveIsOrdered, Distinct, Live
      <4> QED
        BY <4>1, <4>2 DEF SentInOrder
    <3> QED
      BY <2>1, <3>1, <3>2 DEF OldestFirst
  <2>5. \A l \in Requests : SentInOrder(l)'
    BY <2>1, <2>2, <2>3 DEF SentInOrder, Valid, IdsOf
  <2> QED
    BY <2>4, <2>5
<1>6. ASSUME NEW k \in Requests, Load(k) \/ Check(k) \/ Reply(k) \/ Forgotten(k) \/ Refuse(k)
      PROVE  OldestFirst' /\ \A l \in Requests : SentInOrder(l)'
  <2>1. journal' = journal /\ stored' = stored
    BY <1>6 DEF Load, Check, Reply, Forgotten, Refuse, clientVars
  <2>2. \A l \in Requests : requests'[l].evs = requests[l].evs \/ requests'[l].evs = {}
    BY <1>0, <1>6 DEF Load, Check, Reply, Forgotten, Refuse, Free, RequestStates
  <2> QED
    BY <1>1, <2>1, <2>2
<1>7. ASSUME NEW f \in Flushes, FlushStart(f) \/ FlushTimeout(f) \/ FlushRefused(f)
      PROVE  OldestFirst' /\ \A l \in Requests : SentInOrder(l)'
  <2>1. journal' = journal /\ stored' = stored
    BY <1>7 DEF FlushStart, FlushTimeout, FlushRefused, serverVars
  <2>2. \A l \in Requests : requests'[l].evs = requests[l].evs \/ requests'[l].evs = {}
    BY <1>0, <1>7 DEF FlushStart, FlushTimeout, FlushRefused, serverVars, Free
  <2> QED
    BY <1>1, <2>1, <2>2
<1>8. CASE (\E q \in Questions : AppendRead(q)) \/ Restart \/ Evict \/ UNCHANGED vars
  BY <1>1, <1>8 DEF AppendRead, Restart, Evict, vars, clientVars, serverVars
<1> QED
  BY <1>2, <1>3, <1>4, <1>5, <1>6, <1>7, <1>8 DEF Next, FlushEnds, FlushSkipped, ServerStep

\* Redis learns of an event together with those before it.
LEMMA SeenStep ==
    ASSUME JournalInv, ListsAreFresh, OneRequest, OneAtATime, LiveIsOrdered, NextIsLast, SeenFirst,
           \A k \in Requests : SentInOrder(k), seen \subseteq seen', [Next]_vars
    PROVE  SeenFirst'
<1>0. /\ requests \in [Requests -> RequestStates] /\ Live \in SUBSET Events
      /\ stored \in SUBSET Nat /\ seen \in SUBSET stored
      /\ \A k \in Requests : requests[k].evs \in SUBSET Live
  BY LiveTypes DEF JournalInv, JournalTypeOK
<1>1. ASSUME seen' = seen, Live' \in SUBSET Live,
             \A k \in Requests : requests'[k] = requests[k] \/ requests'[k].known = {}
                                 \/ /\ requests'[k].known = requests[k].known
                                    /\ requests'[k].evs = requests[k].evs
      PROVE  SeenFirst'
  BY <1>1 DEF SeenFirst, Valid
<1>2. ASSUME NEW a \in appends, AppendWrite(a), Live' \in SUBSET (Live \union {Appended(a)})
      PROVE  SeenFirst'
  <2>1. seen' = seen /\ requests' = requests
    BY <1>2 DEF AppendWrite, serverVars
  <2>2. /\ \A e \in Live : e.id < Appended(a).id
        /\ \A n \in stored : n < Appended(a).id
    BY DEF NextIsLast, Appended
  <2>3. Appended(a).id \in Nat
    BY DEF Appended, JournalInv, JournalTypeOK, Ids
  <2>4. ASSUME NEW e \in Valid(Live'), NEW f \in Valid(Live'), e.id < f.id, f.id \in seen
        PROVE  e.id \in seen
    <3>1. f \in Valid(Live) /\ e \in Valid(Live)
      BY <1>0, <1>2, <2>2, <2>3, <2>4, EventTypes DEF Valid
    <3> QED
      BY <2>4, <3>1 DEF SeenFirst
  <2> QED
    BY <2>1, <2>4 DEF SeenFirst
<1>3. ASSUME NEW k \in Requests, Check(k)
      PROVE  SeenFirst'
  <2>1. /\ seen' = seen /\ journal' = journal
        /\ \A l \in Requests : requests'[l].evs = requests[l].evs
        /\ requests'[k].known = seen \intersect IdsOf(requests[k].evs)
        /\ \A l \in Requests \ {k} : requests'[l] = requests[l]
    BY <1>0, <1>3 DEF Check, AskRedis, clientVars, RequestStates
  <2>2. Live' = Live
    BY <2>1 DEF Live
  <2>3. ASSUME NEW e \in Valid(requests[k].evs), NEW f \in Valid(requests[k].evs),
               e.id < f.id, f.id \in seen
        PROVE  e.id \in seen \intersect IdsOf(requests[k].evs)
    BY <1>0, <2>3 DEF SeenFirst, Valid, IdsOf
  <2> QED
    BY <2>1, <2>2, <2>3 DEF SeenFirst
<1>4. ASSUME NEW k \in Requests, Reply(k)
      PROVE  SeenFirst'
  <2>1. /\ requests[k].at = "committed" /\ journal' = journal
        /\ \A l \in Requests : /\ requests'[l].evs = requests[l].evs
                               /\ requests'[l].known = requests[l].known
        /\ seen' = seen \/ seen' = seen \union IdsOf(Accepted(k))
    BY <1>0, <1>4 DEF Reply, clientVars, RequestStates
  <2>2. Live' = Live /\ Live = journal \union requests[k].evs
    BY <2>1, LiveOfRequest DEF Live
  <2>3. ASSUME NEW e \in Valid(Live), NEW f \in Valid(Live), e.id < f.id, f.id \in seen'
        PROVE  e.id \in seen'
    <3>1. CASE f.id \in seen
      BY <2>1, <2>3, <3>1 DEF SeenFirst
    <3>2. CASE f.id \notin seen
      <4>1. PICK g \in Valid(requests[k].evs) : g.id = f.id
        BY <2>1, <2>3, <3>2 DEF IdsOf, Accepted
      <4>2. e \in Valid(requests[k].evs)
        BY <2>2, <2>3, <4>1 DEF SentInOrder, Valid
      <4>3. e.id \in IdsOf(Accepted(k)) \/ e.id \in seen
        BY <4>2 DEF IdsOf, Accepted, SeenFirst
      <4> QED
        BY <2>1, <2>3, <3>2, <4>3
    <3> QED
      BY <3>1, <3>2
  <2> QED
    BY <2>1, <2>2, <2>3 DEF SeenFirst
<1>5. ASSUME NEW f \in Flushes, FlushEnds(f)
      PROVE  /\ seen' = seen
             /\ \A k \in Requests : requests'[k] = requests[k] \/ requests'[k].known = {}
  <2>1. seen' = seen
    BY <1>5 DEF FlushEnds, FlushSend, FlushRefused, FlushAcked
  <2>2. CASE FlushSend(f)
    BY <1>0, <2>1, <2>2 DEF FlushSend, Free
  <2>3. CASE FlushRefused(f) \/ FlushAcked(f)
    BY <1>0, <2>1, <2>3 DEF FlushRefused, FlushAcked, Free
  <2> QED
    BY <1>5, <2>2, <2>3 DEF FlushEnds
<1>6. ASSUME NEW k \in Requests, Load(k) \/ Commit(k) \/ Forgotten(k) \/ Refuse(k)
      PROVE  /\ seen' = seen
             /\ \A l \in Requests : requests'[l] = requests[l] \/ requests'[l].known = {}
                                    \/ /\ requests'[l].known = requests[l].known
                                       /\ requests'[l].evs = requests[l].evs
  BY <1>0, <1>6 DEF Load, Commit, Forgotten, Refuse, Free, RequestStates
<1>7. ~Evict
  BY DEF Evict
<1>8. CASE Live' \in SUBSET Live
  BY <1>1, <1>2, <1>3, <1>4, <1>5, <1>6, <1>7, <1>8
     DEF Next, vars, AppendRead, AppendWrite, FlushStart, FlushTimeout, FlushSkipped, ServerStep,
         Restart, serverVars
<1> QED
  BY <1>2, <1>8, LiveStep

\* A set of numbers with an upper bound has a greatest one.
LEMMA HasGreatest ==
    ASSUME NEW top \in Nat, NEW S \in SUBSET (0..top), S # {}
    PROVE  \E m \in S : \A n \in S : n <= m
<1> DEFINE T == {top - n : n \in S}
           less == {ss \in Nat \X Nat : ss[1] < ss[2]}
<1>1. T \in SUBSET Nat
  BY SMT
<1>2. T # {}
  OBVIOUS
<1>3. IsWellFoundedOn(less, Nat)
  BY NatLessThanWellFounded, Zenon DEF OpToRel
<1>4. PICK x \in T : \A y \in T : ~ (<<y, x>> \in less)
  <2> HIDE DEF T, less
  <2> QED
    BY <1>1, <1>2, <1>3, WFMin
<1>5. \A y \in T : x <= y
  <2> SUFFICES ASSUME NEW y \in T PROVE x <= y
    OBVIOUS
  <2>1. x \in Nat /\ y \in Nat /\ <<y, x>> \notin less
    BY <1>1, <1>4
  <2> HIDE DEF T
  <2>2. ~ (y < x)
    BY <2>1, Zenon
  <2> QED
    BY <2>1, <2>2
<1>6. PICK m \in S : x = top - m
  OBVIOUS
<1>7. \A n \in S : top - m <= top - n
  BY <1>5, <1>6
<1>8. \A n \in S : n \in 0..top
  OBVIOUS
<1>9. \A n \in S : n <= m
  BY <1>6, <1>7, <1>8
<1> QED
  BY <1>9

\* Of the accepted events of a question, one is the latest, and no other has a
\* higher id.
LEMMA LatestIsNewest ==
    ASSUME JournalInv, LiveIsOrdered, NEW k \in Requests, NEW q \in Questions,
           NEW e \in Latest(Accepted(k), q)
    PROVE  /\ e \in Valid(requests[k].evs) /\ e.id \notin requests[k].known /\ e.q = q
           /\ (CHOOSE f \in Latest(Accepted(k), q) : TRUE) = e
           /\ \A f \in Accepted(k) : f.q = q => f.id <= e.id
<1>1. /\ \A f \in Accepted(k) : f \in Live /\ f \in Events
      /\ e \in Accepted(k) /\ e.q = q
  BY LiveTypes DEF Accepted, Valid, Latest
<1>2. e \in Valid(requests[k].evs) /\ e.id \notin requests[k].known
  BY <1>1 DEF Accepted
<1>3. ASSUME NEW f \in Accepted(k), f.q = q, f # e
      PROVE  f.id < e.id /\ f.seq < e.seq
  <2>1. f.id # e.id /\ f.id \in Nat /\ e.id \in Nat /\ f.seq \in Nat /\ e.seq \in Nat
    BY <1>1, <1>3, EventTypes DEF LiveIsOrdered, Distinct
  <2>2. Before(f, e)
    BY <1>3 DEF Latest
  <2>3. ~(e.id < f.id)
    BY <1>1, <1>3, <2>1, <2>2 DEF LiveIsOrdered, Before
  <2>4. f.id < e.id
    BY <2>1, <2>3
  <2> QED
    BY <1>1, <1>3, <2>4 DEF LiveIsOrdered
<1>4. \A f \in Latest(Accepted(k), q) : f = e
  <2> SUFFICES ASSUME NEW f \in Latest(Accepted(k), q), f # e PROVE FALSE
    OBVIOUS
  <2>1. f \in Accepted(k) /\ f.q = q /\ Before(e, f)
    BY <1>1 DEF Latest
  <2>2. f.id < e.id /\ f.seq < e.seq
    BY <1>3, <2>1
  <2> QED
    BY <1>1, <2>1, <2>2, EventTypes DEF Before
<1>5. \A f \in Accepted(k) : f.q = q => f.id <= e.id
  BY <1>1, <1>3, EventTypes
<1> QED
  BY <1>1, <1>2, <1>4, <1>5

\* There is one if an event of the question is accepted at all.
LEMMA LatestExists ==
    ASSUME JournalInv, LiveIsOrdered, NEW k \in Requests, NEW q \in Questions,
           NEW e \in Accepted(k), e.q = q
    PROVE  \E f \in Latest(Accepted(k), q) : TRUE
<1> DEFINE own == {f \in Accepted(k) : f.q = q}
<1>1. own \in SUBSET Events /\ own \in SUBSET Live /\ e \in own
  BY LiveTypes DEF Accepted, Valid
<1>2. IdsOf(own) \in SUBSET (0..MaxEvents) /\ IdsOf(own) # {}
  BY <1>1, EventTypes, JournalAssumption DEF IdsOf
<1>3. PICK m \in IdsOf(own) : \A n \in IdsOf(own) : n <= m
  <2> HIDE DEF own
  <2> QED
    BY <1>2, HasGreatest, JournalAssumption
<1>4. PICK f \in own : \A g \in own : g.id <= f.id
  BY <1>3 DEF IdsOf
<1>5. ASSUME NEW g \in own, g # f PROVE Before(g, f)
  <2>1. g.id # f.id /\ g.id \in Nat /\ f.id \in Nat
    BY <1>1, <1>5, EventTypes DEF LiveIsOrdered, Distinct
  <2>2. g.id < f.id
    BY <1>4, <2>1
  <2> QED
    BY <1>1, <2>2 DEF LiveIsOrdered, Before
<1>6. f \in Latest(Accepted(k), q)
  BY <1>5 DEF Latest
<1> QED
  BY <1>6

\* Such an event is no older than the row, and new if it is not the row's.
LEMMA LatestIsNew ==
    ASSUME JournalInv, LiveIsOrdered, TableIsNewest, SeenFirst,
           NEW k \in Requests, SentInOrder(k), NEW q \in Questions,
           NEW e \in Latest(Accepted(k), q)
    PROVE  /\ table[q] <= e.id
           /\ e.id # table[q] => e.id \notin stored
<1>1. /\ e \in Valid(requests[k].evs) /\ e.id \notin requests[k].known /\ e.q = q
      /\ \A f \in Accepted(k) : f.q = q => f.id <= e.id
  BY LatestIsNewest
<1>2. e \in Valid(Live) /\ e.id \in Nat /\ e.id >= 1 /\ table[q] \in Nat
  BY <1>1, LiveTypes, EventTypes DEF Valid, Live
<1>3. table[q] <= e.id
  <2> SUFFICES ASSUME e.id < table[q] PROVE FALSE
    BY <1>2
  <2>1. table[q] \in stored
    BY <1>2 DEF TableIsNewest, NoEvent
  <2>2. PICK f \in requests[k].evs : f.id = table[q]
    BY <1>1, <2>1 DEF SentInOrder, IdsOf
  <2>3. f.q = q /\ f \in Valid(requests[k].evs)
    BY <2>2 DEF TableIsNewest, Live, Valid
  <2>4. f \notin Accepted(k)
    BY <1>1, <1>2, <2>2, <2>3, LiveTypes
  <2>5. f.id \in requests[k].known
    BY <2>3, <2>4 DEF Accepted
  <2> QED
    BY <1>1, <2>2, <2>3, <2>5 DEF SeenFirst
<1>4. e.id \in stored => e.id <= table[q]
  BY <1>1, <1>2 DEF TableIsNewest
<1> QED
  BY <1>2, <1>3, <1>4

\* A commit writes only new events, each the newest of its question.
LEMMA CommitIsNew ==
    ASSUME JournalInv, LiveIsOrdered, TableIsNewest, SeenFirst,
           NEW k \in Requests, SentInOrder(k), Commit(k), NEW q \in Questions
    PROVE  /\ table'[q] # table[q] => table'[q] \notin stored
           /\ table[q] <= table'[q]
           /\ table'[q] = table[q] \/ \E e \in Accepted(k) : e.id = table'[q] /\ e.q = q
           /\ \A e \in Accepted(k) : e.q = q => e.id <= table'[q]
<1>1. requests[k].rows = table /\ Believed(k, q) = table[q] /\ table[q] \in Nat
  BY LiveTypes DEF Commit, TableIsNewest, Believed
<1>2. table'[q] = IF \E e \in Latest(Accepted(k), q) : e.id # table[q]
                  THEN (CHOOSE e \in Latest(Accepted(k), q) : TRUE).id
                  ELSE table[q]
  BY <1>1 DEF Commit, StoreEvents
<1>3. CASE \E e \in Latest(Accepted(k), q) : TRUE
  <2> PICK e \in Latest(Accepted(k), q) : TRUE
    BY <1>3
  <2>1. /\ (CHOOSE f \in Latest(Accepted(k), q) : TRUE) = e /\ e.q = q
        /\ \A f \in Accepted(k) : f.q = q => f.id <= e.id
    BY LatestIsNewest
  <2>4. \A f \in Latest(Accepted(k), q) : f = e
    BY <2>1, LatestIsNewest
  <2>2. table'[q] = e.id
    BY <1>2, <2>1, <2>4
  <2>3. table[q] <= e.id /\ (e.id # table[q] => e.id \notin stored)
    BY LatestIsNew
  <2> QED
    BY <2>1, <2>2, <2>3 DEF Latest
<1>4. CASE ~ \E e \in Latest(Accepted(k), q) : TRUE
  <2>1. table'[q] = table[q]
    BY <1>2, <1>4
  <2>2. ASSUME NEW e \in Accepted(k), e.q = q PROVE FALSE
    BY <1>4, <2>2, LatestExists
  <2> QED
    BY <1>1, <2>1, <2>2
<1> QED
  BY <1>3, <1>4

\* The rows are the newest stored events, and stay so.
LEMMA TableStep ==
    ASSUME JournalInv, ListsAreFresh, OneRequest, OneAtATime, LiveIsOrdered, NextIsLast,
           TableIsNewest, SeenFirst, \A k \in Requests : SentInOrder(k), [Next]_vars
    PROVE  /\ TableIsNewest'
           /\ \A q \in Questions : table'[q] # table[q] => table'[q] \notin stored
<1>0. /\ requests \in [Requests -> RequestStates] /\ Live \in SUBSET Events
      /\ stored \in SUBSET Nat /\ \A q \in Questions : table[q] \in Nat
  BY LiveTypes DEF JournalInv, JournalTypeOK
<1>1. ASSUME table' = table, stored' = stored, Live' \in SUBSET Live,
             \A k \in Requests : requests'[k].at \in {"loaded", "checked"} =>
                \/ requests'[k].rows = requests[k].rows /\ requests[k].at \in {"loaded", "checked"}
                \/ requests'[k].rows = table
      PROVE  TableIsNewest' /\ table' = table
  BY <1>1 DEF TableIsNewest, Valid
<1>2. ASSUME NEW a \in appends, AppendWrite(a), Live' \in SUBSET (Live \union {Appended(a)})
      PROVE  TableIsNewest' /\ table' = table
  <2>1. table' = table /\ stored' = stored /\ requests' = requests
    BY <1>2 DEF AppendWrite, serverVars
  <2>2. \A n \in stored : n < Appended(a).id
    BY DEF NextIsLast, Appended
  <2>3. Appended(a).id \in Nat /\ Appended(a).id # NoEvent
    BY DEF Appended, JournalInv, JournalTypeOK, Ids, NoEvent
  <2>4. Appended(a).id \notin stored /\ \A q \in Questions : Appended(a).id # table[q]
    BY <1>0, <2>2, <2>3 DEF TableIsNewest
  <2> QED
    BY <1>2, <2>1, <2>4 DEF TableIsNewest, Valid
<1>3. ASSUME NEW k \in Requests, Commit(k)
      PROVE  /\ TableIsNewest'
             /\ \A q \in Questions : table'[q] # table[q] => table'[q] \notin stored
  <2>1. /\ requests[k].at = "checked" /\ journal' = journal
        /\ stored' = stored \union IdsOf(Accepted(k))
        /\ requests'[k].at = "committed"
        /\ \A l \in Requests : requests'[l].evs = requests[l].evs
        /\ \A l \in Requests \ {k} : requests'[l] = requests[l] /\ requests[l].at = "free"
    BY <1>0, <1>3 DEF Commit, StoreEvents, clientVars, RequestStates, OneRequest
  <2>2. Live' = Live
    BY <2>1 DEF Live
  <2>3. \A q \in Questions :
           /\ table'[q] # table[q] => table'[q] \notin stored
           /\ table[q] <= table'[q]
           /\ table'[q] = table[q] \/ \E e \in Accepted(k) : e.id = table'[q] /\ e.q = q
           /\ \A e \in Accepted(k) : e.q = q => e.id <= table'[q]
    BY <1>3, CommitIsNew
  <2>4. \A e \in Accepted(k) : e \in Live /\ e \in Events /\ e.id \in Nat /\ e.id >= 1
    BY <1>0, EventTypes DEF Accepted, Valid, Live
  <2>5. \A q \in Questions : table'[q] \in Nat
    BY <1>0, <2>3, <2>4
  <2>6. \A q \in Questions : table'[q] # NoEvent => table'[q] \in stored'
    BY <2>1, <2>3 DEF TableIsNewest, IdsOf
  <2>7. ASSUME NEW e \in Live, NEW q \in Questions, e.id = table'[q]
        PROVE  e.q = q
    <3>1. CASE table'[q] = table[q]
      BY <2>7, <3>1 DEF TableIsNewest
    <3>2. CASE \E f \in Accepted(k) : f.id = table'[q] /\ f.q = q
      BY <2>4, <2>7, <3>2 DEF LiveIsOrdered, Distinct
    <3> QED
      BY <2>3, <3>1, <3>2
  <2>8. ASSUME NEW e \in Valid(Live), e.id \in stored'
        PROVE  e.id <= table'[e.q]
    <3>1. e \in Live /\ e.q \in Questions /\ e.id \in Nat
      BY <1>0, EventTypes DEF Valid
    <3>2. CASE e.id \in stored
      <4>1. e.id <= table[e.q]
        BY <3>2 DEF TableIsNewest
      <4> QED
        BY <1>0, <2>3, <2>5, <3>1, <4>1
    <3>3. CASE e.id \in IdsOf(Accepted(k))
      <4>1. e \in Accepted(k)
        BY <2>4, <3>1, <3>3 DEF IdsOf, LiveIsOrdered, Distinct
      <4> QED
        BY <2>3, <3>1, <4>1
    <3> QED
      BY <2>1, <2>8, <3>2, <3>3
  <2>9. TableIsNewest'
    BY <2>1, <2>2, <2>6, <2>7, <2>8 DEF TableIsNewest, Valid
  <2> QED
    BY <2>3, <2>9
<1>4. ASSUME NEW f \in Flushes, FlushEnds(f)
      PROVE  /\ table' = table /\ stored' = stored
             /\ \A k \in Requests : requests'[k] = requests[k]
                                    \/ requests'[k].at \notin {"loaded", "checked"}
  <2>1. table' = table /\ stored' = stored
    BY <1>4 DEF FlushEnds, FlushSend, FlushRefused, FlushAcked
  <2>2. CASE FlushSend(f)
    BY <1>0, <2>1, <2>2 DEF FlushSend, Free
  <2>3. CASE FlushRefused(f) \/ FlushAcked(f)
    BY <1>0, <2>1, <2>3 DEF FlushRefused, FlushAcked, Free
  <2> QED
    BY <1>4, <2>2, <2>3 DEF FlushEnds
<1>5. ASSUME NEW k \in Requests,
             Load(k) \/ Check(k) \/ Reply(k) \/ Forgotten(k) \/ Refuse(k)
      PROVE  /\ table' = table /\ stored' = stored
             /\ \A l \in Requests : requests'[l].at \in {"loaded", "checked"} =>
                   \/ /\ requests'[l].rows = requests[l].rows
                      /\ requests[l].at \in {"loaded", "checked"}
                   \/ requests'[l].rows = table
  <2>1. table' = table /\ stored' = stored
    BY <1>5 DEF Load, Check, Reply, Forgotten, Refuse
  <2>2. CASE Load(k)
    BY <1>0, <2>1, <2>2 DEF Load, RequestStates
  <2>3. CASE Check(k)
    BY <1>0, <2>1, <2>3 DEF Check, RequestStates
  <2>4. CASE Reply(k) \/ Forgotten(k) \/ Refuse(k)
    BY <1>0, <2>1, <2>4 DEF Reply, Forgotten, Refuse, RequestStates, Free
  <2> QED
    BY <1>5, <2>2, <2>3, <2>4
<1>6. CASE Live' \in SUBSET Live
  BY <1>1, <1>2, <1>3, <1>4, <1>5, <1>6
     DEF Next, vars, AppendRead, AppendWrite, FlushStart, FlushTimeout, FlushSkipped, ServerStep,
         Restart, Evict, clientVars, serverVars
<1> QED
  BY <1>2, <1>6, LiveStep

\* The overwritten answers of the run journal_duplicate come from overlaps and from
\* forgotten ids alone: if the app worked on its journal one task at a time, if no
\* request were sent while the server may still work on another, and if Redis never
\* forgot an id, then whatever times out, crashes or is not remembered, no answer
\* that has been stored would be written over what replaced it.
THEOREM NothingOverwrittenOneAtATime ==
    Spec /\ []OneAtATime /\ []OneRequest /\ [][seen \subseteq seen']_vars => NoDuplicate
<1> DEFINE IInv == /\ LiveIsOrdered /\ NextIsLast /\ TableIsNewest
                   /\ OldestFirst /\ (\A k \in Requests : SentInOrder(k)) /\ SeenFirst
           Written == \A q \in Questions : table'[q] # table[q] => table'[q] \notin stored
<1>1. Init => IInv /\ ListsAreFresh
  <2> SUFFICES ASSUME Init PROVE IInv /\ ListsAreFresh
    OBVIOUS
  <2>1. /\ journal = {[id |-> n, seq |-> n, q |-> Foreign] : n \in 1..LeftBehind}
        /\ nextSeq = LeftBehind + 1 /\ given = LeftBehind /\ appends = {} /\ stored = {}
        /\ seen = {} /\ \A q \in Questions : table[q] = NoEvent
        /\ \A f \in Flushes : flushes[f].at = "idle"
        /\ \A k \in Requests : /\ requests[k].at = "free" /\ requests[k].evs = {}
                               /\ requests[k].known = {}
    BY DEF Init, Idle, Free
  <2>2. Live = journal /\ Valid(Live) = {}
    BY <2>1, JournalAssumption DEF Live, Valid
  <2>3. LiveIsOrdered
    BY <2>1, <2>2, JournalAssumption DEF LiveIsOrdered, Distinct
  <2>4. NextIsLast /\ TableIsNewest /\ OldestFirst /\ SeenFirst
    BY <2>1, <2>2, JournalAssumption
       DEF NextIsLast, TableIsNewest, OldestFirst, SeenFirst, NoEvent, Valid
  <2>5. \A k \in Requests : SentInOrder(k)
    BY <2>1 DEF SentInOrder, Valid
  <2>6. ListsAreFresh
    BY <2>1 DEF ListsAreFresh
  <2> QED
    BY <2>3, <2>4, <2>5, <2>6
<1>2. /\ JournalInv /\ ListsAreDistinct /\ ListsAreFresh /\ OneAtATime /\ OneRequest /\ IInv
      /\ OneRequest' /\ [seen \subseteq seen']_vars /\ [Next]_vars
      => IInv' /\ [Written]_vars
  <2> SUFFICES ASSUME JournalInv, ListsAreDistinct, ListsAreFresh, OneAtATime, OneRequest, IInv,
                      OneRequest', [seen \subseteq seen']_vars, [Next]_vars
               PROVE  IInv' /\ Written
    OBVIOUS
  <2>1. seen \subseteq seen'
    BY DEF vars
  <2>2. LiveIsOrdered' /\ NextIsLast'
    BY OrderStep
  <2>3. OldestFirst' /\ \A k \in Requests : SentInOrder(k)'
    BY FirstStep
  <2>4. SeenFirst'
    BY <2>1, SeenStep
  <2>5. TableIsNewest' /\ Written
    BY TableStep
  <2> QED
    BY <2>2, <2>3, <2>4, <2>5
<1>3. Spec => []ListsAreDistinct
  BY ListsInit, ListsStep, JournalInvHolds, PTL DEF Spec
<1>4. Spec /\ []OneAtATime => []ListsAreFresh
  BY <1>1, FreshStep, JournalInvHolds, PTL DEF Spec
<1> HIDE DEF IInv, Written
<1>5. Spec /\ []OneAtATime /\ []OneRequest /\ [][seen \subseteq seen']_vars => [][Written]_vars
  BY <1>1, <1>2, <1>3, <1>4, JournalInvHolds, PTL DEF Spec
<1> QED
  BY <1>5 DEF Written, NoDuplicate
=============================================================================
