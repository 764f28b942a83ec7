------------------------ MODULE ViolationQueueProofs ------------------------
(***************************************************************************)
(* Theorems about ViolationQueue, for all server processes, sessions and   *)
(* bounds.                                                                 *)
(***************************************************************************)
EXTENDS ViolationQueue, FiniteSetTheorems, TLAPS

-----------------------------------------------------------------------------
(* Sequences without repetition.                                           *)

LEMMA Appended ==
    ASSUME NEW S, NEW seq \in Seq(S), NEW e \in S
    PROVE  /\ Append(seq, e) \in Seq(S)
           /\ ToSet(Append(seq, e)) = ToSet(seq) \union {e}
           /\ Len(Append(seq, e)) = Len(seq) + 1
           /\ IsInjective(seq) /\ e \notin ToSet(seq) => IsInjective(Append(seq, e))
<1>1. /\ Append(seq, e) \in Seq(S) /\ Len(Append(seq, e)) = Len(seq) + 1 /\ Len(seq) \in Nat
      /\ \A i \in 1..Len(seq) : Append(seq, e)[i] = seq[i]
      /\ Append(seq, e)[Len(seq) + 1] = e
      /\ DOMAIN seq = 1..Len(seq) /\ DOMAIN Append(seq, e) = 1..Len(seq) + 1
  OBVIOUS
<1>2. 1..Len(seq) + 1 = (1..Len(seq)) \union {Len(seq) + 1}
  BY <1>1
<1> DEFINE longer == Append(seq, e)
           n == Len(seq)
<1> HIDE DEF longer, n
<1>3. ToSet(longer) = ToSet(seq) \union {e}
  BY <1>1, <1>2 DEF ToSet, longer
<1>4. ASSUME IsInjective(seq), e \notin ToSet(seq) PROVE IsInjective(longer)
  BY <1>1, <1>2, <1>4 DEF IsInjective, ToSet, longer
<1> QED
  BY <1>1, <1>3, <1>4 DEF longer

LEMMA Behead ==
    ASSUME NEW S, NEW seq \in Seq(S), seq # <<>>
    PROVE  /\ Tail(seq) \in Seq(S) /\ Head(seq) \in S
           /\ ToSet(seq) = ToSet(Tail(seq)) \union {Head(seq)}
           /\ Len(Tail(seq)) <= Len(seq)
           /\ IsInjective(seq) => IsInjective(Tail(seq)) /\ Head(seq) \notin ToSet(Tail(seq))
<1>1. /\ Tail(seq) \in Seq(S) /\ Head(seq) = seq[1] /\ Len(seq) \in Nat \ {0}
      /\ Len(Tail(seq)) = Len(seq) - 1 /\ seq[1] \in S
      /\ DOMAIN seq = 1..Len(seq) /\ DOMAIN Tail(seq) = 1..(Len(seq) - 1)
      /\ \A i \in 1..(Len(seq) - 1) : Tail(seq)[i] = seq[i + 1]
  OBVIOUS
<1>2. ToSet(seq) = ToSet(Tail(seq)) \union {Head(seq)}
  <2>1. \A i \in 1..Len(seq) : i = 1 \/ (i - 1 \in 1..(Len(seq) - 1) /\ i = (i - 1) + 1)
    BY <1>1
  <2>2. \A i \in 1..(Len(seq) - 1) : i + 1 \in 1..Len(seq)
    BY <1>1
  <2>3. 1 \in 1..Len(seq)
    BY <1>1
  <2>4. ASSUME NEW x \in ToSet(seq) PROVE x \in ToSet(Tail(seq)) \union {Head(seq)}
    <3>1. PICK i \in 1..Len(seq) : x = seq[i]
      BY <1>1 DEF ToSet
    <3>2. CASE i = 1
      BY <1>1, <3>1, <3>2
    <3>3. CASE i # 1
      <4> DEFINE j == i - 1
      <4>1. j \in 1..(Len(seq) - 1) /\ i = j + 1
        BY <2>1, <3>3
      <4>2. Tail(seq)[j] = x
        BY <1>1, <3>1, <4>1
      <4> QED
        BY <1>1, <4>1, <4>2 DEF ToSet
    <3> QED
      BY <3>2, <3>3
  <2>5. ASSUME NEW x \in ToSet(Tail(seq)) PROVE x \in ToSet(seq)
    <3>1. PICK i \in 1..(Len(seq) - 1) : x = seq[i + 1]
      BY <1>1 DEF ToSet
    <3> QED
      BY <1>1, <2>2, <3>1 DEF ToSet
  <2>6. Head(seq) \in ToSet(seq)
    BY <1>1, <2>3 DEF ToSet
  <2> QED
    BY <2>4, <2>5, <2>6
<1>3. ASSUME IsInjective(seq)
      PROVE  IsInjective(Tail(seq)) /\ Head(seq) \notin ToSet(Tail(seq))
  <2>1. \A i, j \in 1..Len(seq) : seq[i] = seq[j] => i = j
    BY <1>1, <1>3 DEF IsInjective
  <2>2. \A i, j \in 1..(Len(seq) - 1) : seq[i + 1] = seq[j + 1] => i = j
    BY <1>1, <2>1
  <2>3. \A i \in 1..(Len(seq) - 1) : seq[i + 1] # seq[1]
    BY <1>1, <2>1
  <2> QED
    BY <1>1, <2>2, <2>3 DEF IsInjective, ToSet
<1> QED
  BY <1>1, <1>2, <1>3

LEMMA NoElements ==
    ToSet(<<>>) = {} /\ IsInjective(<<>>) /\ Len(<<>>) = 0 /\ \A S : <<>> \in Seq(S)
  BY DEF ToSet, IsInjective

-----------------------------------------------------------------------------
(* Types.                                                                  *)

LEMMA InitTypes == Init => TypeOK
  BY QueueAssumption, NoElements DEF Init, TypeOK, QueueAssumption, NoEvents

LEMMA TypesRequest ==
    ASSUME TypeOK, Report \/ ReportDropped PROVE TypeOK'
<1>1. /\ UNCHANGED <<ended, count, logged, counted, holder, lock, at, batch, scores, writes,
                     points, aborted, kicks, asked, kicked>>
      /\ reported' = reported + 1 /\ reported < MaxEvents
      /\ queue' \in {queue, Append(queue, reported')}
      /\ faults' \in {faults, faults + 1}
  BY DEF Report, ReportDropped, table, work, kicking
<1>2. reported' \in Events /\ reported' \in 0..MaxEvents
  BY <1>1, QueueAssumption DEF TypeOK, Events, QueueAssumption
<1>3. queue' \in Seq(Events)
  <2>1. queue \in Seq(Events)
    BY DEF TypeOK
  <2> DEFINE e == reported'
  <2>2. e \in Events
    BY <1>2
  <2> HIDE DEF e
  <2>3. Append(queue, e) \in Seq(Events)
    BY <2>1, <2>2, Appended
  <2> QED
    BY <1>1, <2>1, <2>3 DEF e
<1>4. faults' \in Nat
  BY <1>1 DEF TypeOK
<1> QED
  BY <1>1, <1>2, <1>3, <1>4 DEF TypeOK

LEMMA TypesEnd ==
    ASSUME TypeOK, NEW s \in Sessions, End(s) \/ KickLoad(s) \/ KickCommit(s) PROVE TypeOK'
<1>1. /\ UNCHANGED <<logged, counted, holder, queue, lock, reported, at, batch, scores, writes,
                     points, aborted, faults>>
  BY DEF End, KickLoad, KickCommit, table, work, kicking
<1>2. /\ ended' \subseteq Sessions /\ count' \in [Sessions -> Nat]
      /\ kicks' \in [Sessions -> Nat \union {Free}] /\ kicked' \subseteq ended'
      /\ asked' \in 0..MaxKicks
  <2>1. CASE End(s)
    BY <2>1 DEF End, TypeOK, kicking
  <2>2. CASE KickLoad(s)
    BY <2>2, QueueAssumption DEF KickLoad, TypeOK, table, QueueAssumption
  <2>3. CASE KickCommit(s)
    <3>1. kicks[s] \in Nat /\ kicks[s] + 1 \in Nat
      BY <2>3 DEF KickCommit, TypeOK
    <3> QED
      BY <2>3, <3>1 DEF KickCommit, TypeOK
  <2> QED
    BY <2>1, <2>2, <2>3
<1> QED
  BY <1>1, <1>2 DEF TypeOK

LEMMA TypesLock ==
    ASSUME TypeOK, NEW d \in Drainers, Acquire(d) \/ Popped(d) \/ Release(d) \/ Delete(d) PROVE TypeOK'
<1>1. /\ UNCHANGED <<ended, count, logged, counted, holder, queue, reported, batch, scores, writes,
                     points, aborted, kicks, asked, kicked, faults>>
      /\ lock' \in {lock, d, Free}
      /\ \E a \in {"idle", "popping", "work", "release", "delete"} : at' = [at EXCEPT ![d] = a]
  BY DEF Acquire, Popped, Release, Delete, table, kicking
<1> QED
  BY <1>1 DEF TypeOK

LEMMA TypesPop ==
    ASSUME TypeOK, NEW d \in Drainers, Pop(d) PROVE TypeOK'
<1>1. /\ at[d] = "popping" /\ queue # <<>> /\ Len(batch[d]) < BatchSize
      /\ queue' = Tail(queue) /\ batch' = [batch EXCEPT ![d] = Append(batch[d], Head(queue))]
      /\ UNCHANGED <<ended, count, logged, counted, holder, lock, reported, at, scores, writes, points,
                     aborted, kicks, asked, kicked, faults>>
  BY DEF Pop, table, kicking
<1>2. /\ queue' \in Seq(Events) /\ Append(batch[d], Head(queue)) \in Seq(Events)
      /\ Len(Append(batch[d], Head(queue))) = Len(batch[d]) + 1 /\ Len(batch[d]) \in Nat
  BY <1>1, Behead, Appended DEF TypeOK
<1>3. Len(Append(batch[d], Head(queue))) <= BatchSize
  BY <1>1, <1>2, QueueAssumption DEF QueueAssumption
<1> QED
  BY <1>1, <1>2, <1>3 DEF TypeOK

LEMMA TypesWork ==
    ASSUME TypeOK, NEW d \in Drainers, Examine(d) \/ Update(d) \/ StatementFails(d) PROVE TypeOK'
<1>1. batch[d] # <<>> /\ Current(d) \in Events /\ Tail(batch[d]) \in Seq(Events)
      /\ Len(Tail(batch[d])) <= BatchSize
  <2>1. batch[d] # <<>>
    BY DEF Examine, Update, StatementFails, TypeOK
  <2>2. batch[d] \in Seq(Events) /\ Len(batch[d]) \in Nat /\ Len(batch[d]) <= BatchSize
    BY DEF TypeOK
  <2>3. Len(Tail(batch[d])) <= Len(batch[d]) /\ Len(Tail(batch[d])) \in Nat
    BY <2>1, <2>2, Behead
  <2> QED
    BY <2>1, <2>2, <2>3, Behead, QueueAssumption DEF Current, QueueAssumption
<1>2. UNCHANGED <<ended, count, logged, counted, queue, lock, reported, kicks, asked, kicked>>
  BY DEF Examine, Update, Write, Drop, StatementFails, table, kicking
<1>3. CASE Examine(d)
  <2>1. Counts(Current(d)) \in BOOLEAN
    BY DEF Counts
  <2> DEFINE c == Counts(Current(d))
  <2>2. /\ UNCHANGED <<holder, writes, points, aborted, faults>>
        /\ \/ batch' = [batch EXCEPT ![d] = Tail(batch[d])] /\ at[d] = "work" /\ UNCHANGED <<at, scores>>
           \/ /\ at' = [at EXCEPT ![d] = "update"] /\ UNCHANGED batch
              /\ scores' = [scores EXCEPT ![d] = c]
    BY <1>3 DEF Examine, Advance, kicking
  <2> HIDE DEF c
  <2>3. c \in BOOLEAN
    BY <2>1 DEF c
  <2>4. CASE /\ batch' = [batch EXCEPT ![d] = Tail(batch[d])] /\ at[d] = "work"
             /\ UNCHANGED <<at, scores>>
    BY <1>1, <1>2, <2>2, <2>4 DEF TypeOK
  <2>5. CASE /\ at' = [at EXCEPT ![d] = "update"] /\ UNCHANGED batch
             /\ scores' = [scores EXCEPT ![d] = c]
    BY <1>1, <1>2, <2>2, <2>3, <2>5 DEF TypeOK
  <2> QED
    BY <2>2, <2>4, <2>5
<1>4. CASE Update(d)
  <2>1. SessionOf[Current(d)] \in Sessions
    BY <1>1, QueueAssumption DEF QueueAssumption
  <2>2. /\ at' = [at EXCEPT ![d] = "work"] /\ batch' = [batch EXCEPT ![d] = Tail(batch[d])]
        /\ UNCHANGED <<scores, aborted, faults>>
    BY <1>4 DEF Update, Advance, Write, Drop, kicking
  <2>3. \/ UNCHANGED <<holder, writes, points>>
        \/ /\ holder' = [holder EXCEPT ![SessionOf[Current(d)]] = d]
           /\ writes' = [writes EXCEPT ![d] = writes[d] \union {Current(d)}]
           /\ points' = [points EXCEPT ![d] = IF scores[d] THEN points[d] \union {Current(d)} ELSE points[d]]
    BY <1>4 DEF Update, Write, Drop
  <2>4. /\ holder' \in [Sessions -> Drainers \union {Free}]
        /\ writes' \in [Drainers -> SUBSET Events] /\ points' \in [Drainers -> SUBSET Events]
        /\ \A x \in Drainers : points'[x] \subseteq writes'[x]
    <3>1. CASE UNCHANGED <<holder, writes, points>>
      BY <3>1 DEF TypeOK
    <3>2. CASE /\ holder' = [holder EXCEPT ![SessionOf[Current(d)]] = d]
               /\ writes' = [writes EXCEPT ![d] = writes[d] \union {Current(d)}]
               /\ points' = [points EXCEPT ![d] = IF scores[d] THEN points[d] \union {Current(d)} ELSE points[d]]
      BY <1>1, <2>1, <3>2 DEF TypeOK
    <3> QED
      BY <2>3, <3>1, <3>2
  <2> QED
    BY <1>1, <1>2, <2>2, <2>4 DEF TypeOK
<1>5. CASE StatementFails(d)
  <2>1. /\ at' = [at EXCEPT ![d] = "work"] /\ batch' = [batch EXCEPT ![d] = Tail(batch[d])]
        /\ UNCHANGED <<holder, scores, writes, points>>
        /\ aborted' = [aborted EXCEPT ![d] = TRUE]
        /\ faults' \in {faults, faults + 1}
    BY <1>5 DEF StatementFails, Advance
  <2>2. faults' \in Nat
    BY <2>1 DEF TypeOK
  <2> QED
    BY <1>1, <1>2, <2>1, <2>2 DEF TypeOK
<1> QED
  BY <1>3, <1>4, <1>5

LEMMA PointsAreFinite ==
    ASSUME TypeOK
    PROVE  /\ IsFiniteSet(Events) /\ IsFiniteSet(counted)
           /\ \A d \in Drainers, s \in Sessions :
                 /\ IsFiniteSet({e \in points[d] : SessionOf[e] = s})
                 /\ Cardinality({e \in points[d] : SessionOf[e] = s}) \in Nat
<1>1. IsFiniteSet(Events)
  BY FS_Interval, QueueAssumption DEF Events, QueueAssumption
<1>2. counted \subseteq Events
  BY DEF TypeOK
<1>3. \A d \in Drainers, s \in Sessions : {e \in points[d] : SessionOf[e] = s} \subseteq Events
  BY DEF TypeOK
<1> QED
  BY <1>1, <1>2, <1>3, FS_Subset, FS_CardinalityType

LEMMA TypesFinish ==
    ASSUME TypeOK, NEW d \in Drainers, Commit(d) \/ CommitFails(d) \/ Crash(d) PROVE TypeOK'
<1>1. /\ Finish(d)
      /\ UNCHANGED <<ended, queue, lock, reported, kicks, asked, kicked>>
      /\ \E a \in {"idle", "release"} : at' = [at EXCEPT ![d] = a]
      /\ faults' \in {faults, faults + 1}
  BY DEF Commit, CommitFails, Crash, table, kicking
<1>2. faults' \in Nat
  BY <1>1 DEF TypeOK
<1>3. /\ count' \in [Sessions -> Nat] /\ counted' \subseteq logged' /\ logged' \subseteq Events
  <2>1. CASE Commit(d)
    <3>1. CASE aborted[d]
      BY <2>1, <3>1 DEF Commit, Store, TypeOK
    <3>2. CASE ~aborted[d]
      <4>1. /\ logged' = logged \union writes[d] /\ counted' = counted \union points[d]
            /\ count' = [s \in Sessions |-> count[s] + Cardinality({e \in points[d] : SessionOf[e] = s})]
        BY <2>1, <3>2 DEF Commit, Store
      <4>2. \A s \in Sessions : count[s] + Cardinality({e \in points[d] : SessionOf[e] = s}) \in Nat
        <5> DEFINE n(s) == Cardinality({e \in points[d] : SessionOf[e] = s})
        <5>1. \A s \in Sessions : n(s) \in Nat
          BY PointsAreFinite
        <5> HIDE DEF n
        <5>2. \A s \in Sessions : count[s] + n(s) \in Nat
          BY <5>1 DEF TypeOK
        <5> QED
          BY <5>2 DEF n
      <4>3. points[d] \subseteq writes[d] /\ writes[d] \subseteq Events
        BY DEF TypeOK
      <4> QED
        BY <4>1, <4>2, <4>3 DEF TypeOK
    <3> QED
      BY <3>1, <3>2
  <2>2. CASE CommitFails(d) \/ Crash(d)
    BY <2>2 DEF CommitFails, Crash, table, TypeOK
  <2> QED
    BY <1>1, <2>1, <2>2
<1>4. /\ holder' \in [Sessions -> Drainers \union {Free}]
      /\ batch' \in [Drainers -> Seq(Events)] /\ scores' \in [Drainers -> BOOLEAN]
      /\ writes' \in [Drainers -> SUBSET Events] /\ points' \in [Drainers -> SUBSET Events]
      /\ aborted' \in [Drainers -> BOOLEAN]
      /\ \A x \in Drainers : x # d => /\ batch'[x] = batch[x] /\ writes'[x] = writes[x]
                                      /\ points'[x] = points[x]
      /\ batch'[d] = <<>> /\ points'[d] = {}
  BY <1>1, NoElements DEF Finish, TypeOK
<1>5. \A x \in Drainers : /\ points'[x] \subseteq writes'[x] /\ Len(batch'[x]) <= BatchSize
                          /\ at'[x] = "update" => batch'[x] # <<>>
  <2>1. at'[d] # "update" /\ \A x \in Drainers : x # d => at'[x] = at[x]
    BY <1>1 DEF TypeOK
  <2>2. 0 <= BatchSize
    BY QueueAssumption DEF QueueAssumption
  <2> QED
    BY <1>4, <2>1, <2>2, NoElements DEF TypeOK
<1>6. at' \in [Drainers -> {"idle", "popping", "work", "update", "release", "delete"}]
  BY <1>1 DEF TypeOK
<1> QED
  BY <1>1, <1>2, <1>3, <1>4, <1>5, <1>6 DEF TypeOK

LEMMA TypesStep == TypeOK /\ [Next]_vars => TypeOK'
<1> SUFFICES ASSUME TypeOK, [Next]_vars PROVE TypeOK'
  OBVIOUS
<1>1. CASE UNCHANGED vars
  BY <1>1 DEF vars, table, work, kicking, TypeOK
<1>2. CASE Report \/ ReportDropped
  BY <1>2, TypesRequest
<1>3. CASE \E s \in Sessions : End(s) \/ KickLoad(s) \/ KickCommit(s)
  BY <1>3, TypesEnd
<1>4. ASSUME NEW d \in Drainers,
             \/ Acquire(d) \/ Pop(d) \/ Popped(d) \/ Examine(d) \/ Update(d) \/ StatementFails(d)
             \/ Commit(d) \/ CommitFails(d) \/ Release(d) \/ Delete(d) \/ Crash(d)
      PROVE  TypeOK'
  BY <1>4, TypesLock, TypesPop, TypesWork, TypesFinish
<1>5. CASE LockExpires
  BY <1>5 DEF LockExpires, table, work, kicking, TypeOK
<1> QED
  BY <1>1, <1>2, <1>3, <1>4, <1>5 DEF Next

\* Every variable has its type, a batch is never larger than DEFAULT_DRAIN_BATCH_SIZE,
\* and what a transaction counts it also logs.
THEOREM TypeCorrect == Spec => []TypeOK
<1>1. Init => TypeOK
  BY InitTypes
<1>2. TypeOK /\ [Next]_vars => TypeOK'
  BY TypesStep
<1> QED
  BY <1>1, <1>2, PTL DEF Spec
-----------------------------------------------------------------------------
(* Transactions and row locks.                                             *)

\* What a transaction has written belongs to sessions whose rows it holds and
\* which are still going on.
RowsHeld ==
    \A d \in Drainers : \A e \in writes[d] :
        holder[SessionOf[e]] = d /\ SessionOf[e] \notin ended

LEMMA RowsHeldStep == TypeOK /\ RowsHeld /\ [Next]_vars => RowsHeld'
<1> SUFFICES ASSUME TypeOK, RowsHeld, [Next]_vars PROVE RowsHeld'
  OBVIOUS
<1> USE QueueAssumption DEF QueueAssumption
<1>1. CASE UNCHANGED <<writes, holder, ended>>
  BY <1>1 DEF RowsHeld
<1>2. CASE Report \/ ReportDropped \/ LockExpires \/ UNCHANGED vars
  BY <1>1, <1>2 DEF Report, ReportDropped, LockExpires, vars, table, work
<1>3. ASSUME NEW s \in Sessions, End(s) \/ KickLoad(s) \/ KickCommit(s) PROVE RowsHeld'
  <2>1. CASE KickLoad(s)
    BY <1>1, <2>1 DEF KickLoad, table, work
  <2>2. CASE End(s) \/ KickCommit(s)
    <3>1. /\ holder[s] = Free /\ ended' = ended \union {s} /\ UNCHANGED <<writes, holder>>
      BY <2>2 DEF End, KickCommit, work
    <3>2. \A d \in Drainers : \A e \in writes[d] : SessionOf[e] # s
      BY <3>1 DEF RowsHeld
    <3> QED
      BY <3>1, <3>2 DEF RowsHeld
  <2> QED
    BY <1>3, <2>1, <2>2
<1>4. ASSUME NEW d \in Drainers, Update(d) PROVE RowsHeld'
  <2> DEFINE s == SessionOf[Current(d)]
  <2>1. holder[s] \in {Free, d}
    BY <1>4 DEF Update
  <2>2. CASE s \in ended
    BY <1>1, <1>4, <2>2 DEF Update, Drop, table
  <2>3. CASE s \notin ended
    <3>1. /\ holder' = [holder EXCEPT ![s] = d] /\ UNCHANGED ended
          /\ writes' = [writes EXCEPT ![d] = writes[d] \union {Current(d)}]
      BY <1>4, <2>3 DEF Update, Write, table
    <3>2. Current(d) \in Events /\ s \in Sessions
      <4>1. batch[d] # <<>> /\ batch[d] \in Seq(Events)
        BY <1>4 DEF Update, TypeOK
      <4>2. Current(d) \in Events
        BY <4>1, Behead DEF Current
      <4> QED
        BY <4>2
    <3> HIDE DEF s
    <3>3. ASSUME NEW x \in Drainers, NEW e \in writes'[x]
          PROVE  holder'[SessionOf[e]] = x /\ SessionOf[e] \notin ended'
      <4>1. SessionOf[e] \in Sessions
        <5>1. e \in Events
          BY <3>1, <3>2, <3>3 DEF TypeOK
        <5> QED
          BY <5>1
      <4>2. CASE x = d /\ e = Current(d)
        BY <2>3, <3>1, <3>2, <4>2 DEF s, TypeOK
      <4>3. CASE e \in writes[x]
        <5>1. holder[SessionOf[e]] = x /\ SessionOf[e] \notin ended
          BY <4>3 DEF RowsHeld
        <5>2. SessionOf[e] = s => x = d
          BY <2>1, <5>1 DEF s
        <5> QED
          BY <3>1, <4>1, <5>1, <5>2 DEF TypeOK
      <4> QED
        BY <3>1, <3>3, <4>2, <4>3 DEF TypeOK
    <3> QED
      BY <3>3 DEF RowsHeld
  <2> QED
    BY <2>2, <2>3
<1>5. ASSUME NEW d \in Drainers, Commit(d) \/ CommitFails(d) \/ Crash(d) PROVE RowsHeld'
  <2>1. /\ writes' = [writes EXCEPT ![d] = {}] /\ UNCHANGED ended
        /\ holder' = [s \in Sessions |-> IF holder[s] = d THEN Free ELSE holder[s]]
    BY <1>5 DEF Commit, CommitFails, Crash, Finish, table
  <2>2. ASSUME NEW x \in Drainers, NEW e \in writes'[x]
        PROVE  holder'[SessionOf[e]] = x /\ SessionOf[e] \notin ended'
    <3>1. x # d /\ e \in writes[x] /\ e \in Events
      BY <2>1, <2>2 DEF TypeOK
    <3>2. holder[SessionOf[e]] = x /\ SessionOf[e] \notin ended /\ SessionOf[e] \in Sessions
      BY <3>1 DEF RowsHeld
    <3> QED
      BY <2>1, <3>1, <3>2
  <2> QED
    BY <2>2 DEF RowsHeld
<1>6. ASSUME NEW d \in Drainers,
             \/ Acquire(d) \/ Pop(d) \/ Popped(d) \/ Examine(d) \/ StatementFails(d)
             \/ Release(d) \/ Delete(d)
      PROVE  RowsHeld'
  BY <1>1, <1>6 DEF Acquire, Pop, Popped, Examine, StatementFails, Release, Delete, table
<1> QED
  BY <1>2, <1>3, <1>4, <1>5, <1>6 DEF Next

\* The log and the count of a session that has ended are final, although reports
\* are admitted on old snapshots and examined before the row is locked.
THEOREM EndedSessionsStand == Spec => EndedStands
<1> DEFINE Stand == \A s \in ended :
               /\ {e \in logged' : SessionOf[e] = s} = {e \in logged : SessionOf[e] = s}
               /\ s \notin kicked' => count'[s] = count[s]
<1>1. Init => RowsHeld
  BY DEF Init, RowsHeld, NoEvents
<1>2. ASSUME TypeOK, RowsHeld, Next PROVE Stand
  <2>1. CASE UNCHANGED <<logged, count>>
    BY <2>1
  <2>2. CASE Report \/ ReportDropped \/ LockExpires
    BY <2>1, <2>2 DEF Report, ReportDropped, LockExpires, table
  <2>3. ASSUME NEW s \in Sessions, End(s) \/ KickLoad(s) PROVE Stand
    BY <2>1, <2>3 DEF End, KickLoad, table
  <2>4. ASSUME NEW s \in Sessions, KickCommit(s) PROVE Stand
    <3>1. UNCHANGED logged /\ count' = [count EXCEPT ![s] = kicks[s] + 1] /\ s \in kicked'
      BY <2>4 DEF KickCommit
    <3>2. \A x \in Sessions : x # s => count'[x] = count[x]
      BY <1>2, <3>1 DEF TypeOK
    <3> QED
      BY <1>2, <3>1, <3>2 DEF TypeOK
  <2>5. ASSUME NEW d \in Drainers, Commit(d) PROVE Stand
    <3>1. CASE aborted[d]
      BY <2>1, <2>5, <3>1 DEF Commit, Store
    <3>2. CASE ~aborted[d]
      <4>1. /\ logged' = logged \union writes[d]
            /\ count' = [s \in Sessions |-> count[s] + Cardinality({e \in points[d] : SessionOf[e] = s})]
        BY <2>5, <3>2 DEF Commit, Store
      <4>2. ASSUME NEW s \in ended
            PROVE  /\ {e \in logged' : SessionOf[e] = s} = {e \in logged : SessionOf[e] = s}
                   /\ count'[s] = count[s]
        <5>1. \A e \in writes[d] : SessionOf[e] # s
          BY <1>2, <4>2 DEF RowsHeld
        <5>2. {e \in points[d] : SessionOf[e] = s} = {}
          BY <1>2, <5>1 DEF TypeOK
        <5>3. s \in Sessions /\ count[s] \in Nat
          BY <1>2, <4>2 DEF TypeOK
        <5>4. count'[s] = count[s] + 0
          BY <4>1, <5>2, <5>3, FS_EmptySet
        <5> QED
          BY <4>1, <5>1, <5>3, <5>4
      <4> QED
        BY <4>2
    <3> QED
      BY <3>1, <3>2
  <2>6. ASSUME NEW d \in Drainers,
               \/ Acquire(d) \/ Pop(d) \/ Popped(d) \/ Examine(d) \/ Update(d) \/ StatementFails(d)
               \/ CommitFails(d) \/ Release(d) \/ Delete(d) \/ Crash(d)
        PROVE  Stand
    BY <2>1, <2>6 DEF Acquire, Pop, Popped, Examine, Update, Write, Drop, StatementFails, CommitFails,
                      Release, Delete, Crash, table
  <2> QED
    BY <1>2, <2>2, <2>3, <2>4, <2>5, <2>6 DEF Next
<1>3. TypeOK /\ RowsHeld /\ [Next]_vars => [\A s \in ended :
               /\ {e \in logged' : SessionOf[e] = s} = {e \in logged : SessionOf[e] = s}
               /\ s \notin kicked' => count'[s] = count[s]]_vars
  BY <1>2
<1>4. Spec => [](TypeOK /\ RowsHeld)
  BY <1>1, InitTypes, TypesStep, RowsHeldStep, PTL DEF Spec
<1> QED
  BY <1>3, <1>4, PTL DEF Spec, EndedStands
-----------------------------------------------------------------------------
(* Where events are.                                                       *)

\* The events that the transaction of a drainer stands for.
With(d) == Held(d) \union writes[d]

\* No event is in two places, and none is anywhere before it is reported: that
\* is why a new one can be put at the end of the queue.
Placed ==
    /\ HandledOnce
    /\ Queued \union logged \subseteq 1..reported
    /\ \A d \in Drainers : With(d) \subseteq 1..reported

\* What a drainer does with its own events disturbs nothing, if none is added.
LEMMA OwnEvents ==
    ASSUME Placed, UNCHANGED <<queue, logged, reported>>,
           \A d \in Drainers : /\ IsInjective(batch'[d])
                               /\ With(d)' \subseteq With(d)
                               /\ Held(d)' \intersect writes'[d] = {}
    PROVE  Placed'
<1>1. Queued' = Queued
  BY DEF Queued
<1>2. \A d \in Drainers : With(d)' \intersect (Queued \union logged) = {}
  BY DEF Placed, HandledOnce, With
<1>3. \A d \in Drainers : \A x \in Drainers \ {d} : With(d)' \intersect With(x)' = {}
  BY DEF Placed, HandledOnce, With
<1>4. HandledOnce'
  BY <1>1, <1>2, <1>3 DEF Placed, HandledOnce, With
<1>5. \A d \in Drainers : With(d)' \subseteq 1..reported
  BY DEF Placed
<1> QED
  BY <1>1, <1>4, <1>5 DEF Placed

LEMMA SameEvents ==
    ASSUME Placed, UNCHANGED <<queue, logged, reported, batch, writes>> PROVE Placed'
  BY OwnEvents DEF Placed, HandledOnce, With, Held

LEMMA PlacedReport ==
    ASSUME TypeOK, Placed, Report \/ ReportDropped PROVE Placed'
<1>1. /\ UNCHANGED <<logged, batch, writes>>
      /\ reported' = reported + 1 /\ reported < MaxEvents
      /\ queue' \in {queue, Append(queue, reported')}
  BY DEF Report, ReportDropped, table, work
<1>2. /\ reported \in Nat /\ reported' \in Events /\ reported' \notin 1..reported
      /\ 1..reported' = (1..reported) \union {reported'}
  BY <1>1, QueueAssumption DEF TypeOK, Events, QueueAssumption
<1> DEFINE e == reported'
<1>3. /\ e \in Events /\ e \notin 1..reported /\ 1..reported' = (1..reported) \union {e}
      /\ queue' \in {queue, Append(queue, e)}
  BY <1>1, <1>2
<1> HIDE DEF e
<1>4. e \notin Queued \union logged /\ \A d \in Drainers : e \notin With(d)
  BY <1>3 DEF Placed
<1>5. IsInjective(queue') /\ Queued' \subseteq Queued \union {e}
  <2>1. IsInjective(queue) /\ queue \in Seq(Events)
    BY DEF Placed, HandledOnce, TypeOK
  <2>2. CASE queue' = queue
    BY <2>1, <2>2 DEF Queued
  <2>3. CASE queue' = Append(queue, e)
    BY <1>3, <1>4, <2>1, <2>3, Appended DEF Queued
  <2> QED
    BY <1>3, <2>2, <2>3
<1>6. \A d \in Drainers : Held(d)' = Held(d) /\ With(d)' = With(d)
  BY <1>1 DEF Held, With
<1>7. /\ Queued' \intersect logged = {}
      /\ \A d \in Drainers : With(d) \intersect (Queued' \union logged) = {}
  BY <1>4, <1>5 DEF Placed, HandledOnce, With
<1>8. HandledOnce'
  BY <1>1, <1>5, <1>6, <1>7 DEF Placed, HandledOnce, With
<1> QED
  BY <1>1, <1>3, <1>5, <1>6, <1>8 DEF Placed

LEMMA PlacedPop ==
    ASSUME TypeOK, Placed, NEW d \in Drainers, Pop(d) PROVE Placed'
<1> DEFINE e == Head(queue)
<1>1. /\ UNCHANGED <<logged, writes, reported>>
      /\ queue # <<>> /\ queue' = Tail(queue)
      /\ batch' = [batch EXCEPT ![d] = Append(batch[d], e)]
  BY DEF Pop, table
<1>2. queue \in Seq(Events) /\ IsInjective(queue) /\ batch[d] \in Seq(Events) /\ IsInjective(batch[d])
  BY DEF TypeOK, Placed, HandledOnce
<1>3. e \in Events /\ Queued = Queued' \union {e} /\ IsInjective(queue') /\ e \notin Queued'
  BY <1>1, <1>2, Behead DEF Queued
<1> HIDE DEF e
<1>4. e \notin logged /\ \A x \in Drainers : e \notin With(x)
  BY <1>3 DEF Placed, HandledOnce, With
<1>5. /\ batch'[d] = Append(batch[d], e)
      /\ \A x \in Drainers \ {d} : batch'[x] = batch[x] /\ Held(x)' = Held(x) /\ With(x)' = With(x)
  BY <1>1 DEF TypeOK, Held, With
<1>6. IsInjective(batch'[d]) /\ Held(d)' = Held(d) \union {e}
  <2>1. e \notin ToSet(batch[d])
    BY <1>4 DEF With, Held
  <2> QED
    BY <1>2, <1>3, <1>5, <2>1, Appended DEF Held
<1>7. With(d)' = With(d) \union {e}
  BY <1>1, <1>6 DEF With
<1>8. \A x \in Drainers : IsInjective(batch'[x])
  BY <1>5, <1>6 DEF Placed, HandledOnce
<1>9. \A x \in Drainers : With(x)' \intersect (Queued' \union logged') = {}
  <2>1. With(d)' \intersect (Queued' \union logged') = {}
    BY <1>1, <1>3, <1>4, <1>7 DEF Placed, HandledOnce, With
  <2>2. \A x \in Drainers \ {d} : With(x)' \intersect (Queued' \union logged') = {}
    BY <1>1, <1>3, <1>5 DEF Placed, HandledOnce, With
  <2> QED
    BY <2>1, <2>2
<1>10. \A x \in Drainers : Held(x)' \intersect writes'[x] = {}
  BY <1>1, <1>4, <1>5, <1>6 DEF Placed, HandledOnce, With
<1>11. \A x \in Drainers : \A y \in Drainers \ {x} : With(x)' \intersect With(y)' = {}
  <2>1. \A x \in Drainers : \A y \in Drainers \ {x} : With(x) \intersect With(y) = {}
    BY DEF Placed, HandledOnce, With
  <2> QED
    BY <1>4, <1>5, <1>7, <2>1
<1>12. Queued' \intersect logged' = {}
  BY <1>1, <1>3 DEF Placed, HandledOnce
<1>13. HandledOnce'
  BY <1>3, <1>8, <1>9, <1>10, <1>11, <1>12 DEF HandledOnce, With
<1>14. Queued' \union logged' \subseteq 1..reported' /\ \A x \in Drainers : With(x)' \subseteq 1..reported'
  BY <1>1, <1>3, <1>5, <1>7 DEF Placed
<1> QED
  BY <1>13, <1>14 DEF Placed

LEMMA PlacedWork ==
    ASSUME TypeOK, Placed, NEW d \in Drainers, Examine(d) \/ Update(d) \/ StatementFails(d)
    PROVE  Placed'
<1> DEFINE e == Current(d)
<1>1. UNCHANGED <<queue, logged, reported>>
  BY DEF Examine, Update, Write, Drop, StatementFails, table
<1>2. CASE UNCHANGED <<batch, writes>>
  BY <1>1, <1>2, SameEvents
<1>3. CASE Advance(d) /\ (UNCHANGED writes \/ writes' = [writes EXCEPT ![d] = writes[d] \union {e}])
  <2>1. batch[d] # <<>> /\ batch[d] \in Seq(Events) /\ IsInjective(batch[d])
    BY DEF Examine, Update, StatementFails, TypeOK, Placed, HandledOnce
  <2>2. /\ batch'[d] = Tail(batch[d])
        /\ \A x \in Drainers \ {d} : batch'[x] = batch[x] /\ writes'[x] = writes[x]
        /\ writes'[d] \subseteq writes[d] \union {e}
    BY <1>3 DEF Advance, TypeOK
  <2>3. /\ IsInjective(batch'[d]) /\ Held(d) = Held(d)' \union {e} /\ e \notin Held(d)'
    BY <2>1, <2>2, Behead DEF Held, Current
  <2> HIDE DEF e
  <2>4. \A x \in Drainers \ {d} : Held(x)' = Held(x) /\ With(x)' = With(x)
    BY <2>2 DEF Held, With
  <2>5. With(d)' \subseteq With(d)
    BY <2>2, <2>3 DEF With
  <2>6. \A x \in Drainers : /\ IsInjective(batch'[x]) /\ Held(x)' \intersect writes'[x] = {}
    BY <2>2, <2>3, <2>4 DEF Placed, HandledOnce
  <2> QED
    BY <1>1, <2>4, <2>5, <2>6, OwnEvents
<1> QED
  BY <1>2, <1>3 DEF Examine, Update, Write, Drop, StatementFails

LEMMA PlacedFinish ==
    ASSUME TypeOK, Placed, NEW d \in Drainers, Commit(d) \/ CommitFails(d) \/ Crash(d)
    PROVE  Placed'
<1>1. UNCHANGED <<queue, reported>> /\ Finish(d)
      /\ (UNCHANGED logged \/ logged' = logged \union writes[d])
  BY DEF Commit, Store, CommitFails, Crash, table
<1>2. /\ batch'[d] = <<>> /\ writes'[d] = {} /\ Held(d)' = {} /\ With(d)' = {}
      /\ IsInjective(batch'[d])
  BY <1>1, NoElements DEF Finish, TypeOK, Held, With
<1>3. \A x \in Drainers \ {d} : /\ batch'[x] = batch[x] /\ writes'[x] = writes[x]
                                /\ Held(x)' = Held(x) /\ With(x)' = With(x)
  BY <1>1 DEF Finish, TypeOK, Held, With
<1>4. \A x \in Drainers : /\ IsInjective(batch'[x]) /\ With(x)' \subseteq With(x)
                          /\ Held(x)' \intersect writes'[x] = {}
  BY <1>2, <1>3 DEF Placed, HandledOnce
<1>5. CASE UNCHANGED logged
  BY <1>1, <1>4, <1>5, OwnEvents
<1>6. CASE logged' = logged \union writes[d]
  <2>1. Queued' = Queued /\ writes[d] \subseteq With(d)
    BY <1>1 DEF Queued, With
  <2>2. Queued \intersect logged' = {}
    BY <1>6, <2>1 DEF Placed, HandledOnce, With
  <2>3. \A x \in Drainers : With(x)' \intersect (Queued \union logged') = {}
    BY <1>2, <1>3, <1>6, <2>1 DEF Placed, HandledOnce, With
  <2>4. \A x \in Drainers : \A y \in Drainers \ {x} : With(x)' \intersect With(y)' = {}
    BY <1>4 DEF Placed, HandledOnce, With
  <2>5. HandledOnce'
    BY <1>1, <1>4, <2>1, <2>2, <2>3, <2>4 DEF Placed, HandledOnce, With
  <2>6. Queued' \union logged' \subseteq 1..reported /\ \A x \in Drainers : With(x)' \subseteq 1..reported
    BY <1>4, <1>6, <2>1 DEF Placed
  <2> QED
    BY <1>1, <2>5, <2>6 DEF Placed
<1> QED
  BY <1>1, <1>5, <1>6

LEMMA PlacedStep == TypeOK /\ Placed /\ [Next]_vars => Placed'
<1> SUFFICES ASSUME TypeOK, Placed, [Next]_vars PROVE Placed'
  OBVIOUS
<1>1. CASE UNCHANGED vars \/ LockExpires
  BY <1>1, SameEvents DEF vars, LockExpires, table, work
<1>2. CASE Report \/ ReportDropped
  BY <1>2, PlacedReport
<1>3. CASE \E s \in Sessions : End(s) \/ KickLoad(s) \/ KickCommit(s)
  BY <1>3, SameEvents DEF End, KickLoad, KickCommit, table, work
<1>4. ASSUME NEW d \in Drainers,
             \/ Acquire(d) \/ Pop(d) \/ Popped(d) \/ Examine(d) \/ Update(d) \/ StatementFails(d)
             \/ Commit(d) \/ CommitFails(d) \/ Release(d) \/ Delete(d) \/ Crash(d)
      PROVE  Placed'
  <2>1. CASE Acquire(d) \/ Popped(d) \/ Release(d) \/ Delete(d)
    BY <2>1, SameEvents DEF Acquire, Popped, Release, Delete, table
  <2> QED
    BY <1>4, <2>1, PlacedPop, PlacedWork, PlacedFinish
<1> QED
  BY <1>1, <1>2, <1>3, <1>4 DEF Next

LEMMA InitPlaced == Init => Placed
<1> SUFFICES ASSUME Init PROVE Placed
  OBVIOUS
<1>1. /\ queue = <<>> /\ logged = {} /\ reported = 0
      /\ \A d \in Drainers : batch[d] = <<>> /\ writes[d] = {}
  BY DEF Init, NoEvents
<1>2. Queued = {} /\ \A d \in Drainers : Held(d) = {} /\ With(d) = {}
  BY <1>1, NoElements DEF Queued, Held, With
<1> QED
  BY <1>1, <1>2, NoElements DEF Placed, HandledOnce, With

\* However many drainers run at a time, each event is popped by one of them,
\* stored once, and never queued again.
THEOREM EventsAreHandledOnce == Spec => []HandledOnce
<1>1. Spec => [](TypeOK /\ Placed)
  BY InitPlaced, InitTypes, TypesStep, PlacedStep, PTL DEF Spec
<1>2. Placed => HandledOnce
  BY DEF Placed
<1> QED
  BY <1>1, <1>2, PTL
-----------------------------------------------------------------------------
(* Loss.                                                                   *)

\* A transaction is aborted by a fault, and so far none has lost an event.
Unaborted ==
    /\ Kept
    /\ \A d \in Drainers : aborted[d] => faults # 0

LEMMA KeptStep == TypeOK /\ Unaborted /\ [Next]_vars => Unaborted'
<1> SUFFICES ASSUME TypeOK, Unaborted, [Next]_vars PROVE Unaborted'
  OBVIOUS
<1>1. \/ UNCHANGED faults
      \/ faults' = faults + 1 /\ faults' # 0
  BY DEF TypeOK, Next, vars, Report, ReportDropped, End, KickLoad, KickCommit, Acquire, Pop, Popped, Examine,
         Update, Write, Drop, StatementFails, Commit, CommitFails, Release, Delete, Crash, LockExpires
<1>2. \A d \in Drainers : aborted'[d] => faults' # 0
  <2>1. CASE UNCHANGED aborted
    BY <1>1, <2>1 DEF Unaborted
  <2>2. CASE faults' # 0
    BY <2>2
  <2>3. ASSUME NEW d \in Drainers, Commit(d) PROVE \A x \in Drainers : aborted'[x] => faults' # 0
    BY <2>3 DEF Commit, Finish, Unaborted, TypeOK
  <2>4. ASSUME NEW d \in Drainers, StatementFails(d) PROVE \A x \in Drainers : aborted'[x] => faults' # 0
    BY <1>1, <2>4 DEF StatementFails, Unaborted, TypeOK
  <2>5. ASSUME NEW d \in Drainers, CommitFails(d) \/ Crash(d) PROVE faults' # 0
    BY <2>5 DEF CommitFails, Crash, TypeOK
  <2>6. CASE Report \/ ReportDropped \/ LockExpires \/ UNCHANGED vars
    BY <2>1, <2>6 DEF Report, ReportDropped, LockExpires, work, vars
  <2>7. ASSUME NEW s \in Sessions, End(s) \/ KickLoad(s) \/ KickCommit(s) PROVE UNCHANGED aborted
    BY <2>7 DEF End, KickLoad, KickCommit, work
  <2>8. ASSUME NEW d \in Drainers,
               \/ Acquire(d) \/ Pop(d) \/ Popped(d) \/ Examine(d) \/ Update(d)
               \/ Release(d) \/ Delete(d)
        PROVE  UNCHANGED aborted
    BY <2>8 DEF Acquire, Pop, Popped, Examine, Update, Write, Drop, Release, Delete
  <2> QED
    BY <2>1, <2>2, <2>3, <2>4, <2>5, <2>6, <2>7, <2>8 DEF Next
<1> DEFINE Safe(e) == \/ e \in Queued \union logged
                      \/ \E d \in Drainers : e \in Held(d) \union writes[d]
                      \/ SessionOf[e] \in ended
<1>3. ASSUME faults' = 0 PROVE \A e \in 1..reported' : Safe(e)'
  <2>1. faults = 0 /\ UNCHANGED faults /\ faults \in Nat
    BY <1>1, <1>3 DEF TypeOK
  <2>2. \A e \in 1..reported : Safe(e)
    BY <2>1 DEF Unaborted, Kept
  <2> HIDE DEF Safe
  <2>3. ASSUME UNCHANGED <<queue, logged, batch, writes, reported>>, ended \subseteq ended'
        PROVE  \A e \in 1..reported' : Safe(e)'
    BY <2>2, <2>3 DEF Safe, Queued, Held
  <2>4. CASE LockExpires \/ UNCHANGED vars
    BY <2>3, <2>4 DEF LockExpires, work, table, vars
  <2>5. ASSUME NEW s \in Sessions, End(s) \/ KickLoad(s) \/ KickCommit(s)
        PROVE  \A e \in 1..reported' : Safe(e)'
    BY <2>3, <2>5 DEF End, KickLoad, KickCommit, work, table
  <2>6. CASE Report \/ ReportDropped
    <3>1. ~ReportDropped
      BY <2>1 DEF ReportDropped, TypeOK
    <3>2. /\ UNCHANGED <<logged, batch, writes, ended>> /\ queue' = Append(queue, reported')
          /\ reported' = reported + 1 /\ reported \in 0..MaxEvents /\ reported < MaxEvents
      BY <2>6, <3>1 DEF Report, table, work, TypeOK
    <3>3. reported' \in Events /\ \A e \in 1..reported' : e \in 1..reported \/ e = reported'
      BY <3>2, QueueAssumption DEF Events, QueueAssumption
    <3> DEFINE n == reported'
    <3>4. n \in Events /\ queue \in Seq(Events)
      BY <3>3 DEF TypeOK
    <3> HIDE DEF n
    <3>5. ToSet(Append(queue, n)) = ToSet(queue) \union {n}
      BY <3>4, Appended
    <3>6. Queued' = Queued \union {reported'}
      BY <3>2, <3>5 DEF Queued, n
    <3> QED
      BY <2>2, <3>2, <3>3, <3>6 DEF Safe, Held
  <2>7. ASSUME NEW d \in Drainers, Pop(d) PROVE \A e \in 1..reported' : Safe(e)'
    <3> DEFINE h == Head(queue)
    <3>1. /\ UNCHANGED <<logged, writes, ended, reported>> /\ queue # <<>> /\ queue' = Tail(queue)
          /\ batch' = [batch EXCEPT ![d] = Append(batch[d], h)]
      BY <2>7 DEF Pop, table
    <3>2. queue \in Seq(Events) /\ batch[d] \in Seq(Events)
      BY DEF TypeOK
    <3>3. h \in Events /\ Queued = Queued' \union {h}
      BY <3>1, <3>2, Behead DEF Queued
    <3> HIDE DEF h
    <3>4. /\ batch'[d] = Append(batch[d], h)
          /\ \A x \in Drainers \ {d} : batch'[x] = batch[x]
      BY <3>1 DEF TypeOK
    <3>5. ToSet(Append(batch[d], h)) = ToSet(batch[d]) \union {h}
      BY <3>2, <3>3, Appended
    <3>6. Held(d)' = Held(d) \union {h} /\ \A x \in Drainers : Held(x) \subseteq Held(x)'
      BY <3>4, <3>5 DEF Held
    <3> QED
      BY <2>2, <3>1, <3>3, <3>6 DEF Safe
  <2>8. ASSUME NEW d \in Drainers, Examine(d) \/ Update(d) PROVE \A e \in 1..reported' : Safe(e)'
    <3> DEFINE h == Current(d)
    <3>1. UNCHANGED <<queue, logged, ended, reported>>
      BY <2>8 DEF Examine, Update, Write, Drop, table
    <3>2. CASE UNCHANGED <<batch, writes>>
      BY <2>3, <3>1, <3>2
    <3>3. CASE /\ Advance(d)
               /\ \/ UNCHANGED writes /\ SessionOf[h] \in ended
                  \/ writes' = [writes EXCEPT ![d] = writes[d] \union {h}]
      <4>1. batch[d] # <<>> /\ batch[d] \in Seq(Events)
        BY <2>8 DEF Examine, Update, TypeOK
      <4>2. /\ batch'[d] = Tail(batch[d])
            /\ \A x \in Drainers \ {d} : batch'[x] = batch[x] /\ writes'[x] = writes[x]
        BY <3>3 DEF Advance, TypeOK
      <4>3. Held(d) = Held(d)' \union {h} /\ \A x \in Drainers \ {d} : Held(x)' = Held(x)
        BY <4>1, <4>2, Behead DEF Held, Current
      <4>4. /\ \A x \in Drainers : writes[x] \subseteq writes'[x]
            /\ h \in writes'[d] \/ SessionOf[h] \in ended
        BY <3>3, <4>2 DEF TypeOK
      <4> HIDE DEF h
      <4> QED
        BY <2>2, <3>1, <4>3, <4>4 DEF Safe, Queued
    <3> QED
      BY <2>8, <3>2, <3>3 DEF Examine, Update, Write, Drop
  <2>9. ASSUME NEW d \in Drainers, Commit(d) PROVE \A e \in 1..reported' : Safe(e)'
    <3>1. ~aborted[d] /\ batch[d] = <<>>
      BY <2>1, <2>9 DEF Unaborted, Commit
    <3>2. /\ UNCHANGED <<queue, ended, reported>> /\ logged' = logged \union writes[d]
          /\ \A x \in Drainers \ {d} : batch'[x] = batch[x] /\ writes'[x] = writes[x]
      BY <2>9, <3>1 DEF Commit, Store, Finish, TypeOK
    <3>3. Held(d) = {} /\ \A x \in Drainers \ {d} : Held(x)' = Held(x)
      BY <3>1, <3>2, NoElements DEF Held
    <3> QED
      BY <2>2, <3>2, <3>3 DEF Safe, Queued
  <2>10. ASSUME NEW d \in Drainers, StatementFails(d) \/ CommitFails(d) \/ Crash(d) PROVE FALSE
    BY <2>1, <2>10 DEF StatementFails, CommitFails, Crash, Unaborted, TypeOK
  <2>11. ASSUME NEW d \in Drainers, Acquire(d) \/ Popped(d) \/ Release(d) \/ Delete(d)
         PROVE  \A e \in 1..reported' : Safe(e)'
    BY <2>3, <2>11 DEF Acquire, Popped, Release, Delete, table
  <2> QED
    BY <2>4, <2>5, <2>6, <2>7, <2>8, <2>9, <2>10, <2>11 DEF Next
<1>4. Kept'
  BY <1>3 DEF Kept
<1> QED
  BY <1>2, <1>4 DEF Unaborted

\* As long as no process crashes and no statement or commit fails, no report is
\* lost, however often the lock expires under a drainer.
THEOREM ReportsAreKept == Spec => []Kept
<1>1. Init => Unaborted
  <2> SUFFICES ASSUME Init PROVE Unaborted
    OBVIOUS
  <2>1. reported = 0 /\ \A d \in Drainers : ~aborted[d]
    BY DEF Init
  <2>2. 1..reported = {}
    BY <2>1
  <2> QED
    BY <2>1, <2>2 DEF Unaborted, Kept
<1>2. Spec => [](TypeOK /\ Unaborted)
  BY <1>1, InitTypes, TypesStep, KeptStep, PTL DEF Spec
<1>3. Unaborted => Kept
  BY DEF Unaborted
<1> QED
  BY <1>2, <1>3, PTL

-----------------------------------------------------------------------------
(* The count of a session.                                                 *)

Scored(s) == {e \in counted : SessionOf[e] = s}

\* A kick that is being handled has read no more than has been counted, and the
\* session has not been kicked before.
Tallied ==
    /\ CountIsLogged
    /\ \A s \in Sessions :
          kicks[s] # Free => s \notin kicked /\ kicks[s] <= Cardinality(Scored(s))

LEMMA TalliedSame ==
    ASSUME Tallied, UNCHANGED <<count, counted, kicks, kicked>> PROVE Tallied'
<1>1. \A s \in Sessions : Scored(s)' = Scored(s)
  BY DEF Scored
<1> QED
  BY <1>1 DEF Tallied, CountIsLogged

LEMMA ScoredGrows ==
    ASSUME TypeOK, Placed, NEW d \in Drainers, NEW s \in Sessions, counted' = counted \union points[d]
    PROVE  LET new == Cardinality({e \in points[d] : SessionOf[e] = s})
           IN  /\ Cardinality(Scored(s)) \in Nat /\ new \in Nat
               /\ Cardinality(Scored(s)') = Cardinality(Scored(s)) + new
<1> DEFINE old == Scored(s)
           new == {e \in points[d] : SessionOf[e] = s}
<1>1. IsFiniteSet(old) /\ IsFiniteSet(new)
  <2>1. old \subseteq counted
    BY DEF Scored
  <2> QED
    BY <2>1, PointsAreFinite, FS_Subset
<1>2. old \intersect new = {}
  BY DEF Scored, TypeOK, Placed, HandledOnce
<1>3. Scored(s)' = old \union new
  BY DEF Scored
<1> HIDE DEF old, new
<1>4. Cardinality(old \union new) = Cardinality(old) + Cardinality(new) - Cardinality(old \intersect new)
  BY <1>1, FS_Union
<1>5. Cardinality(old) \in Nat /\ Cardinality(new) \in Nat /\ Cardinality(old \intersect new) = 0
  BY <1>1, <1>2, FS_CardinalityType, FS_EmptySet
<1>6. Cardinality(old \union new) = Cardinality(old) + Cardinality(new)
  BY <1>4, <1>5
<1> QED
  BY <1>3, <1>5, <1>6 DEF old, new

LEMMA TalliedStep == TypeOK /\ Placed /\ Tallied /\ [Next]_vars => Tallied'
<1> SUFFICES ASSUME TypeOK, Placed, Tallied, [Next]_vars PROVE Tallied'
  OBVIOUS
<1>1. \A s \in Sessions : Cardinality(Scored(s)) \in Nat
  <2>1. \A s \in Sessions : Scored(s) \subseteq counted
    BY DEF Scored
  <2> QED
    BY <2>1, PointsAreFinite, FS_Subset, FS_CardinalityType
<1>2. CASE LockExpires \/ UNCHANGED vars \/ Report \/ ReportDropped
  BY <1>2, TalliedSame DEF LockExpires, vars, Report, ReportDropped, kicking, table
<1>3. ASSUME NEW s \in Sessions, End(s) PROVE Tallied'
  BY <1>3, TalliedSame DEF End, kicking
<1>4. ASSUME NEW s \in Sessions, KickLoad(s) PROVE Tallied'
  <2>1. /\ UNCHANGED <<count, counted, kicked>> /\ s \notin kicked
        /\ kicks' = [kicks EXCEPT ![s] = count[s]]
    BY <1>4 DEF KickLoad, table
  <2>2. count[s] = Cardinality(Scored(s))
    BY <2>1 DEF Tallied, CountIsLogged, Scored
  <2>3. \A x \in Sessions : Scored(x)' = Scored(x)
    BY <2>1 DEF Scored
  <2>4. CountIsLogged'
    BY <2>1, <2>3 DEF Tallied, CountIsLogged, Scored
  <2>5. ASSUME NEW x \in Sessions, kicks'[x] # Free
        PROVE  x \notin kicked' /\ kicks'[x] <= Cardinality(Scored(x)')
    <3>1. CASE x = s
      <4>1. kicks'[s] = count[s]
        BY <2>1 DEF TypeOK
      <4> QED
        BY <1>1, <2>1, <2>2, <2>3, <3>1, <4>1
    <3>2. CASE x # s
      <4>1. kicks'[x] = kicks[x]
        BY <2>1, <3>2 DEF TypeOK
      <4> QED
        BY <2>1, <2>3, <2>5, <4>1 DEF Tallied
    <3> QED
      BY <3>1, <3>2
  <2> QED
    BY <2>4, <2>5 DEF Tallied
<1>5. ASSUME NEW s \in Sessions, KickCommit(s) PROVE Tallied'
  <2>1. /\ UNCHANGED counted /\ kicks[s] # Free /\ kicked' = kicked \union {s}
        /\ count' = [count EXCEPT ![s] = kicks[s] + 1]
        /\ kicks' = [kicks EXCEPT ![s] = Free]
    BY <1>5 DEF KickCommit
  <2>2. \A x \in Sessions : Scored(x)' = Scored(x)
    BY <2>1 DEF Scored
  <2>3. kicks[s] \in Nat /\ kicks[s] <= Cardinality(Scored(s)) /\ kicks'[s] = Free
        /\ count'[s] = kicks[s] + 1
    BY <2>1 DEF TypeOK, Tallied
  <2>4. count'[s] <= Cardinality(Scored(s)) + 1
    BY <1>1, <2>3
  <2>5. \A x \in Sessions : x # s => count'[x] = count[x] /\ kicks'[x] = kicks[x]
    BY <2>1 DEF TypeOK
  <2>6. ASSUME NEW x \in Sessions
        PROVE  IF x \in kicked' THEN count'[x] <= Cardinality(Scored(x)') + 1
                                ELSE count'[x] = Cardinality(Scored(x)')
    <3>1. CASE x = s
      BY <2>1, <2>2, <2>4, <3>1
    <3>2. CASE x # s
      BY <2>1, <2>2, <2>5, <3>2 DEF Tallied, CountIsLogged, Scored
    <3> QED
      BY <3>1, <3>2
  <2>7. CountIsLogged'
    BY <2>6 DEF CountIsLogged, Scored
  <2>8. \A x \in Sessions :
           kicks'[x] # Free => x \notin kicked' /\ kicks'[x] <= Cardinality(Scored(x)')
    BY <2>1, <2>2, <2>3, <2>5 DEF Tallied
  <2> QED
    BY <2>7, <2>8 DEF Tallied
<1>6. ASSUME NEW d \in Drainers, Commit(d) PROVE Tallied'
  <2>1. UNCHANGED <<kicks, kicked>>
    BY <1>6 DEF Commit, kicking
  <2>2. CASE aborted[d]
    BY <1>6, <2>1, <2>2, TalliedSame DEF Commit, Store
  <2>3. CASE ~aborted[d]
    <3> DEFINE new(s) == Cardinality({e \in points[d] : SessionOf[e] = s})
    <3>1. counted' = counted \union points[d] /\ count' = [s \in Sessions |-> count[s] + new(s)]
      BY <1>6, <2>3 DEF Commit, Store
    <3>2. \A s \in Sessions : /\ new(s) \in Nat
                              /\ Cardinality(Scored(s)') = Cardinality(Scored(s)) + new(s)
      BY <3>1, ScoredGrows
    <3> HIDE DEF new
    <3>3. \A s \in Sessions : count'[s] = count[s] + new(s) /\ count[s] \in Nat
      BY <3>1 DEF TypeOK
    <3>4. ASSUME NEW s \in Sessions
          PROVE  IF s \in kicked' THEN count'[s] <= Cardinality(Scored(s)') + 1
                                  ELSE count'[s] = Cardinality(Scored(s)')
      <4>1. IF s \in kicked THEN count[s] <= Cardinality(Scored(s)) + 1
                            ELSE count[s] = Cardinality(Scored(s))
        BY DEF Tallied, CountIsLogged, Scored
      <4>2. CASE s \in kicked
        <5>1. count[s] <= Cardinality(Scored(s)) + 1
          BY <4>1, <4>2
        <5>2. count'[s] <= Cardinality(Scored(s)') + 1
          BY <1>1, <3>2, <3>3, <5>1
        <5> QED
          BY <2>1, <4>2, <5>2
      <4>3. CASE s \notin kicked
        <5>1. count[s] = Cardinality(Scored(s))
          BY <4>1, <4>3
        <5>2. count'[s] = Cardinality(Scored(s)')
          BY <3>2, <3>3, <5>1
        <5> QED
          BY <2>1, <4>3, <5>2
      <4> QED
        BY <4>2, <4>3
    <3>5. CountIsLogged'
      BY <3>4 DEF CountIsLogged, Scored
    <3>6. ASSUME NEW s \in Sessions, kicks'[s] # Free
          PROVE  s \notin kicked' /\ kicks'[s] <= Cardinality(Scored(s)')
      <4>1. kicks[s] \in Nat /\ s \notin kicked /\ kicks[s] <= Cardinality(Scored(s))
        BY <2>1, <3>6 DEF Tallied, TypeOK
      <4>2. kicks[s] <= Cardinality(Scored(s)')
        BY <1>1, <3>2, <4>1
      <4> QED
        BY <2>1, <4>1, <4>2
    <3> QED
      BY <3>5, <3>6 DEF Tallied
  <2> QED
    BY <2>2, <2>3
<1>7. ASSUME NEW d \in Drainers,
             \/ Acquire(d) \/ Pop(d) \/ Popped(d) \/ Examine(d) \/ Update(d) \/ StatementFails(d)
             \/ CommitFails(d) \/ Release(d) \/ Delete(d) \/ Crash(d)
      PROVE  Tallied'
  BY <1>7, TalliedSame DEF Acquire, Pop, Popped, Examine, Update, Write, Drop, StatementFails,
                           CommitFails, Release, Delete, Crash, table, kicking
<1> QED
  BY <1>2, <1>3, <1>4, <1>5, <1>6, <1>7 DEF Next

\* violation_count is the number of log entries that count, whatever fails; a
\* kick leaves at most one more.
THEOREM CountsAreLogged == Spec => []CountIsLogged
<1>1. Init => Tallied
  <2> SUFFICES ASSUME Init PROVE Tallied
    OBVIOUS
  <2>1. counted = {} /\ kicked = {} /\ \A s \in Sessions : count[s] = 0 /\ kicks[s] = Free
    BY DEF Init
  <2>2. \A s \in Sessions : Scored(s) = {} /\ Cardinality(Scored(s)) = 0
    BY <2>1, FS_EmptySet DEF Scored
  <2> QED
    BY <2>1, <2>2 DEF Tallied, CountIsLogged, Scored
<1>2. Spec => [](TypeOK /\ Placed /\ Tallied)
  BY <1>1, InitPlaced, InitTypes, TypesStep, PlacedStep, TalliedStep, PTL DEF Spec
<1>3. Tallied => CountIsLogged
  BY DEF Tallied
<1> QED
  BY <1>2, <1>3, PTL

-----------------------------------------------------------------------------
(* The path implements ViolationLog.                                       *)

\* The invariants of the parts, together.
QueueInv == TypeOK /\ RowsHeld /\ Placed /\ Unaborted /\ Tallied

LEMMA InitQueueInv == Init => QueueInv
<1> SUFFICES ASSUME Init PROVE QueueInv
  OBVIOUS
<1>1. /\ reported = 0 /\ counted = {} /\ kicked = {}
      /\ \A d \in Drainers : ~aborted[d] /\ writes[d] = {}
      /\ \A s \in Sessions : count[s] = 0 /\ kicks[s] = Free
  BY DEF Init, NoEvents
<1>2. RowsHeld
  BY <1>1 DEF RowsHeld
<1>3. 1..reported = {}
  BY <1>1
<1>4. Unaborted
  BY <1>1, <1>3 DEF Unaborted, Kept
<1>5. \A s \in Sessions : Scored(s) = {} /\ Cardinality(Scored(s)) = 0
  BY <1>1, FS_EmptySet DEF Scored
<1>6. Tallied
  BY <1>1, <1>5 DEF Tallied, CountIsLogged, Scored
<1> QED
  BY <1>2, <1>4, <1>6, InitTypes, InitPlaced DEF QueueInv

LEMMA QueueInvStep == QueueInv /\ [Next]_vars => QueueInv'
  BY TypesStep, RowsHeldStep, PlacedStep, KeptStep, TalliedStep DEF QueueInv

LEMMA WaitingIs == Waiting = Queued \union UNION {With(d) : d \in Drainers}
  BY DEF Waiting, With

\* What stays with the queue and the drainers waits on.
LEMMA StillWaiting ==
    ASSUME UNCHANGED queue, \A d \in Drainers : With(d)' = With(d)
    PROVE  Waiting' = Waiting
  BY WaitingIs DEF Queued, Waiting, With

\* Events that leave a drainer wait nowhere else.
LEMMA NoLongerWaiting ==
    ASSUME Placed, UNCHANGED queue, NEW d \in Drainers, NEW events \in SUBSET With(d),
           With(d)' = With(d) \ events, \A x \in Drainers \ {d} : With(x)' = With(x)
    PROVE  events \subseteq Waiting /\ Waiting' = Waiting \ events
<1>1. Queued' = Queued
  BY DEF Queued
<1>2. \A e \in events : e \notin Queued /\ \A x \in Drainers \ {d} : e \notin With(x)
  BY DEF Placed, HandledOnce, With
<1>3. Waiting' = Queued \union UNION {With(x)' : x \in Drainers}
  BY <1>1, WaitingIs DEF Waiting, With
<1>4. \A e : e \in Waiting' <=> e \in Queued \/ \E x \in Drainers : e \in With(x)'
  BY <1>3
<1>5. \A e : e \in Waiting <=> e \in Queued \/ \E x \in Drainers : e \in With(x)
  BY WaitingIs
<1>6. events \subseteq Waiting
  BY <1>5
<1>7. ASSUME NEW e PROVE e \in Waiting' <=> e \in Waiting \ events
  BY <1>2, <1>4, <1>5
<1> QED
  BY <1>6, <1>7

LEMMA LogRequest ==
    ASSUME QueueInv, Report \/ ReportDropped PROVE VLog!Next
<1>1. /\ UNCHANGED <<ended, count, logged, counted, batch, writes, kicked>>
      /\ reported' = reported + 1 /\ reported < MaxEvents /\ reported \in 0..MaxEvents
      /\ queue' \in {queue, Append(queue, reported')}
      /\ queue' # queue \/ faults' = faults + 1
      /\ faults' \in {faults, faults + 1} /\ faults \in Nat
  <2>1. queue \in Seq(Events) /\ reported \in 0..MaxEvents /\ faults \in Nat
    BY DEF QueueInv, TypeOK
  <2>2. \A e : Append(queue, e) # queue
    <3>1. \A e : Len(Append(queue, e)) = Len(queue) + 1 /\ Len(queue) \in Nat
      BY <2>1
    <3> QED
      BY <3>1
  <2> QED
    BY <2>1, <2>2 DEF Report, ReportDropped, table, work, kicking
<1> DEFINE e == reported'
           fresh == Events \ (1..reported)
<1>2. e \in fresh /\ (Events \ (1..reported))' = fresh \ {e} /\ e \in Events
  BY <1>1, QueueAssumption DEF Events, QueueAssumption
<1>3. UNCHANGED <<logged, counted, count, ended, kicked>>
  BY <1>1
<1>4. (faults # 0 => faults' # 0) /\ (faults' # 0 \/ faults' = faults)
  BY <1>1
<1>5. \A d \in Drainers : With(d)' = With(d)
  BY <1>1 DEF With, Held
<1>6. CASE queue' = queue
  <2>1. faults' # 0 /\ Waiting' = Waiting
    BY <1>1, <1>5, <1>6, StillWaiting
  <2>2. VLog!Refuse(e)
    BY <1>2, <1>3, <2>1 DEF VLog!Refuse
  <2> QED
    BY <1>2, <2>2 DEF VLog!Next
<1>7. CASE queue' = Append(queue, e)
  <2>1. queue \in Seq(Events)
    BY DEF QueueInv, TypeOK
  <2> HIDE DEF e
  <2>2. Queued' = Queued \union {e}
    BY <1>2, <1>7, <2>1, Appended DEF Queued
  <2>3. Waiting' = Waiting \union {e}
    <3>1. Waiting' = Queued' \union UNION {With(d)' : d \in Drainers}
      BY WaitingIs DEF Waiting, With
    <3>2. UNION {With(d)' : d \in Drainers} = UNION {With(d) : d \in Drainers}
      BY <1>5
    <3> QED
      BY <2>2, <3>1, <3>2, WaitingIs
  <2>4. VLog!Accept(e)
    BY <1>2, <1>3, <1>4, <2>3 DEF VLog!Accept, VLog!MayFail
  <2> QED
    BY <1>2, <2>4 DEF VLog!Next
<1> QED
  BY <1>1, <1>6, <1>7

LEMMA LogEnd ==
    ASSUME QueueInv, NEW s \in Sessions, End(s) \/ KickLoad(s) \/ KickCommit(s)
    PROVE  [VLog!Next]_(VLog!vars)
<1>1. UNCHANGED <<logged, counted, queue, reported, batch, writes, faults>>
  BY DEF End, KickLoad, KickCommit, table, work
<1>2. Waiting' = Waiting /\ (Events \ (1..reported))' = Events \ (1..reported)
      /\ (faults # 0)' = (faults # 0)
  BY <1>1 DEF Waiting, Queued, Held
<1>3. CASE End(s)
  <2>1. ended' = ended \union {s} /\ UNCHANGED <<count, kicked>>
    BY <1>3 DEF End, kicking
  <2>2. VLog!End(s)
    BY <1>1, <1>2, <2>1 DEF VLog!End
  <2> QED
    BY <2>2 DEF VLog!Next
<1>4. CASE KickLoad(s)
  <2>1. UNCHANGED <<ended, count, kicked>>
    BY <1>4 DEF KickLoad, table
  <2> QED
    BY <1>1, <1>2, <2>1 DEF VLog!vars
<1>5. CASE KickCommit(s)
  <2>1. /\ kicks[s] # Free /\ ended' = ended \union {s} /\ kicked' = kicked \union {s}
        /\ count' = [count EXCEPT ![s] = kicks[s] + 1]
    BY <1>5 DEF KickCommit
  <2>2. s \notin kicked /\ kicks[s] <= Cardinality(Scored(s)) /\ kicks[s] \in Nat
    BY <2>1 DEF QueueInv, Tallied, TypeOK
  <2>3. count[s] = Cardinality(Scored(s)) /\ count[s] \in Nat
    BY <2>2 DEF QueueInv, Tallied, CountIsLogged, Scored, TypeOK
  <2>4. kicks[s] \in 0..count[s]
    BY <2>2, <2>3
  <2>5. VLog!Kick(s)
    BY <1>1, <1>2, <2>1, <2>2, <2>4 DEF VLog!Kick
  <2> QED
    BY <2>5 DEF VLog!Next
<1> QED
  BY <1>3, <1>4, <1>5

\* A drainer gives some of its events up, and stores nothing.
LEMMA LogGivesUp ==
    ASSUME QueueInv, NEW d \in Drainers, NEW events \in SUBSET With(d),
           UNCHANGED <<ended, count, logged, counted, queue, reported, kicked>>,
           With(d)' = With(d) \ events, \A x \in Drainers \ {d} : With(x)' = With(x),
           faults # 0 => faults' # 0,
           faults' # 0 \/ \A e \in events : SessionOf[e] \in ended
    PROVE  VLog!Next
<1>1. events \subseteq Waiting /\ Waiting' = Waiting \ events
  BY NoLongerWaiting DEF QueueInv
<1>2. VLog!GiveUp(events)
  BY <1>1 DEF VLog!GiveUp, VLog!MayFail
<1> QED
  BY <1>1, <1>2 DEF VLog!Next

LEMMA LogWork ==
    ASSUME QueueInv, NEW d \in Drainers, Examine(d) \/ Update(d) \/ StatementFails(d)
    PROVE  [VLog!Next]_(VLog!vars)
<1> DEFINE e == Current(d)
<1>1. UNCHANGED <<ended, count, logged, counted, queue, reported, kicked>>
  BY DEF Examine, Update, Write, Drop, StatementFails, table, kicking
<1>2. batch[d] # <<>> /\ batch[d] \in Seq(Events) /\ IsInjective(batch[d])
  BY DEF Examine, Update, StatementFails, QueueInv, TypeOK, Placed, HandledOnce
<1>3. faults \in Nat /\ writes[d] \intersect Held(d) = {}
  BY DEF QueueInv, TypeOK, Placed, HandledOnce
<1>4. CASE UNCHANGED <<batch, writes, faults>>
  <2>1. Waiting' = Waiting
    BY <1>1, <1>4, StillWaiting DEF With, Held
  <2> QED
    BY <1>1, <1>4, <2>1 DEF VLog!vars
<1>5. ASSUME Advance(d)
      PROVE  /\ Held(d) = Held(d)' \union {e} /\ e \notin Held(d)'
             /\ \A x \in Drainers \ {d} : Held(x)' = Held(x)
  <2>1. batch'[d] = Tail(batch[d]) /\ \A x \in Drainers \ {d} : batch'[x] = batch[x]
    BY <1>5 DEF Advance, QueueInv, TypeOK
  <2> QED
    BY <1>2, <2>1, Behead DEF Held, Current
<1>6. CASE Advance(d) /\ UNCHANGED <<writes, faults>> /\ SessionOf[e] \in ended
  <2>1. {e} \in SUBSET With(d) /\ With(d)' = With(d) \ {e}
        /\ \A x \in Drainers \ {d} : With(x)' = With(x)
    BY <1>3, <1>5, <1>6 DEF With
  <2>2. (faults # 0 => faults' # 0) /\ \A f \in {e} : SessionOf[f] \in ended
    BY <1>6
  <2> HIDE DEF e
  <2>3. VLog!Next
    BY <1>1, <2>1, <2>2, LogGivesUp
  <2> QED
    BY <2>3
<1>7. CASE Advance(d) /\ writes' = [writes EXCEPT ![d] = writes[d] \union {e}] /\ UNCHANGED faults
  <2>1. \A x \in Drainers : With(x)' = With(x)
    BY <1>5, <1>7 DEF With, QueueInv, TypeOK
  <2>2. Waiting' = Waiting
    BY <1>1, <2>1, StillWaiting
  <2> QED
    BY <1>1, <1>7, <2>2 DEF VLog!vars
<1>8. CASE StatementFails(d)
  <2>1. /\ Advance(d) /\ UNCHANGED writes
        /\ faults' = IF aborted[d] THEN faults ELSE faults + 1
    BY <1>8 DEF StatementFails
  <2>2. faults' # 0
    BY <1>3, <2>1 DEF QueueInv, Unaborted
  <2>3. {e} \in SUBSET With(d) /\ With(d)' = With(d) \ {e}
        /\ \A x \in Drainers \ {d} : With(x)' = With(x)
    BY <1>3, <1>5, <2>1 DEF With
  <2> HIDE DEF e
  <2>4. VLog!Next
    BY <1>1, <2>2, <2>3, LogGivesUp
  <2> QED
    BY <2>4
<1> QED
  BY <1>4, <1>6, <1>7, <1>8 DEF Examine, Update, Write, Drop

LEMMA LogPop ==
    ASSUME QueueInv, NEW d \in Drainers, Pop(d) PROVE UNCHANGED VLog!vars
<1> DEFINE e == Head(queue)
<1>1. /\ UNCHANGED <<ended, count, logged, counted, writes, reported, kicked, faults>>
      /\ queue # <<>> /\ queue' = Tail(queue)
      /\ batch' = [batch EXCEPT ![d] = Append(batch[d], e)]
  BY DEF Pop, table, kicking
<1>2. queue \in Seq(Events) /\ batch[d] \in Seq(Events)
  BY DEF QueueInv, TypeOK
<1>3. e \in Events /\ Queued = Queued' \union {e}
  BY <1>1, <1>2, Behead DEF Queued
<1> HIDE DEF e
<1>4. batch'[d] = Append(batch[d], e) /\ \A x \in Drainers \ {d} : batch'[x] = batch[x]
  BY <1>1 DEF QueueInv, TypeOK
<1>5. ToSet(Append(batch[d], e)) = ToSet(batch[d]) \union {e}
  BY <1>2, <1>3, Appended
<1>6. With(d)' = With(d) \union {e} /\ \A x \in Drainers \ {d} : With(x)' = With(x)
  BY <1>1, <1>4, <1>5 DEF With, Held
<1>7. Waiting' = Queued' \union UNION {With(x)' : x \in Drainers}
  BY WaitingIs DEF Waiting, With
<1>8. \A f : f \in Waiting' <=> f \in Queued' \/ \E x \in Drainers : f \in With(x)'
  BY <1>7
<1>9. \A f : f \in Waiting <=> f \in Queued \/ \E x \in Drainers : f \in With(x)
  BY WaitingIs
<1>10. \A f : f \in Waiting' <=> f \in Waiting
  BY <1>3, <1>6, <1>8, <1>9
<1>11. Waiting' = Waiting
  BY <1>10
<1> QED
  BY <1>1, <1>11 DEF VLog!vars

LEMMA SameCardinality == \A S : VLog!Cardinality(S) = Cardinality(S)
  BY DEF VLog!Cardinality, Cardinality

LEMMA LogFinish ==
    ASSUME QueueInv, NEW d \in Drainers, Commit(d) \/ CommitFails(d) \/ Crash(d)
    PROVE  VLog!Next
<1>1. UNCHANGED <<ended, queue, reported, kicked>> /\ Finish(d)
  BY DEF Commit, CommitFails, Crash, table, kicking
<1>2. With(d)' = {} /\ \A x \in Drainers \ {d} : With(x)' = With(x)
  BY <1>1, NoElements DEF Finish, QueueInv, TypeOK, With, Held
<1>3. With(d)' = With(d) \ With(d) /\ With(d) \in SUBSET With(d)
  BY <1>2
<1>4. CASE CommitFails(d) \/ Crash(d)
  <2>1. UNCHANGED <<count, logged, counted>> /\ faults' # 0
    BY <1>4 DEF CommitFails, Crash, table, QueueInv, TypeOK
  <2> QED
    BY <1>1, <1>2, <1>3, <2>1, LogGivesUp
<1>5. CASE Commit(d) /\ aborted[d]
  <2>1. UNCHANGED <<count, logged, counted, faults>> /\ faults' # 0
    BY <1>5 DEF Commit, Store, QueueInv, Unaborted
  <2> QED
    BY <1>1, <1>2, <1>3, <2>1, LogGivesUp
<1>6. CASE Commit(d) /\ ~aborted[d]
  <2>1. /\ batch[d] = <<>> /\ logged' = logged \union writes[d] /\ counted' = counted \union points[d]
        /\ count' = [s \in Sessions |-> count[s] + Cardinality({e \in points[d] : SessionOf[e] = s})]
        /\ UNCHANGED faults
    BY <1>6 DEF Commit, Store
  <2>2. With(d) = writes[d] /\ points[d] \subseteq writes[d]
    BY <2>1, NoElements DEF With, Held, QueueInv, TypeOK
  <2>3. writes[d] \subseteq Waiting /\ Waiting' = Waiting \ writes[d]
    BY <1>1, <1>2, <1>3, <2>2, NoLongerWaiting DEF QueueInv
  <2>4. \A e \in writes[d] : SessionOf[e] \notin ended
    BY DEF QueueInv, RowsHeld
  <2>5. (faults # 0)' = (faults # 0) /\ (Events \ (1..reported))' = Events \ (1..reported)
    BY <1>1, <2>1
  <2>6. count' = [s \in Sessions |-> count[s] + VLog!Cardinality(VLog!Of(points[d], s))]
    BY <2>1, SameCardinality DEF VLog!Of
  <2>7. VLog!Log(writes[d], points[d])
    BY <1>1, <2>1, <2>3, <2>4, <2>5, <2>6 DEF VLog!Log
  <2> QED
    BY <2>2, <2>3, <2>7 DEF VLog!Next
<1> QED
  BY <1>4, <1>5, <1>6

LEMMA LogStep == QueueInv /\ [Next]_vars => [VLog!Next]_(VLog!vars)
<1> SUFFICES ASSUME QueueInv, [Next]_vars PROVE [VLog!Next]_(VLog!vars)
  OBVIOUS
<1>1. ASSUME UNCHANGED <<table, queue, reported, batch, writes, kicked, faults>>
      PROVE  UNCHANGED VLog!vars
  BY <1>1 DEF VLog!vars, table, Waiting, Queued, Held
<1>2. CASE UNCHANGED vars \/ LockExpires
  BY <1>1, <1>2 DEF vars, LockExpires, work, kicking
<1>3. CASE Report \/ ReportDropped
  BY <1>3, LogRequest
<1>4. CASE \E s \in Sessions : End(s) \/ KickLoad(s) \/ KickCommit(s)
  BY <1>4, LogEnd
<1>5. ASSUME NEW d \in Drainers,
             \/ Acquire(d) \/ Pop(d) \/ Popped(d) \/ Examine(d) \/ Update(d) \/ StatementFails(d)
             \/ Commit(d) \/ CommitFails(d) \/ Release(d) \/ Delete(d) \/ Crash(d)
      PROVE  [VLog!Next]_(VLog!vars)
  <2>1. CASE Acquire(d) \/ Popped(d) \/ Release(d) \/ Delete(d)
    BY <1>1, <2>1 DEF Acquire, Popped, Release, Delete, kicking
  <2> QED
    BY <1>5, <2>1, LogPop, LogWork, LogFinish
<1> QED
  BY <1>2, <1>3, <1>4, <1>5 DEF Next

\* From the report to the tables, an event is accepted, logged and counted as if
\* there were no queue, lock, batch or transaction: it is logged once, and only
\* for a session that goes on, and lost only if something fails.
THEOREM Refinement == Spec => LogSpec
<1>1. Init => VLog!Init
  <2> SUFFICES ASSUME Init PROVE VLog!Init
    OBVIOUS
  <2>1. /\ queue = <<>> /\ reported = 0 /\ faults = 0
        /\ \A d \in Drainers : batch[d] = <<>> /\ writes[d] = {}
    BY DEF Init, NoEvents
  <2>2. Queued = {} /\ \A d \in Drainers : Held(d) = {} /\ With(d) = {}
    BY <2>1, NoElements DEF Queued, Held, With
  <2>3. Waiting = {}
    BY <2>2, WaitingIs
  <2>4. Events \ (1..reported) = Events
    BY <2>1
  <2> QED
    BY <2>1, <2>3, <2>4 DEF Init, VLog!Init
<1>2. QueueInv /\ [Next]_vars => [VLog!Next]_(VLog!vars)
  BY LogStep
<1>3. Spec => []QueueInv
  BY InitQueueInv, QueueInvStep, PTL DEF Spec
<1> QED
  BY <1>1, <1>2, <1>3, PTL DEF Spec, LogSpec, VLog!Spec

-----------------------------------------------------------------------------
(* Nobody waits for nobody: what Handled asks of the states.               *)

\* The lock of a row is with a drainer whose transaction is under way.
HoldersWork == \A s \in Sessions : holder[s] # Free => at[holder[s]] \in {"work", "update"}

LEMMA HoldersWorkStep == TypeOK /\ HoldersWork /\ [Next]_vars => HoldersWork'
<1> SUFFICES ASSUME TypeOK, HoldersWork, [Next]_vars PROVE HoldersWork'
  OBVIOUS
<1> USE DEF TypeOK, HoldersWork
<1>1. CASE UNCHANGED vars \/ LockExpires \/ Report \/ ReportDropped
  BY <1>1 DEF vars, LockExpires, Report, ReportDropped, work
<1>2. ASSUME NEW s \in Sessions, End(s) \/ KickLoad(s) \/ KickCommit(s) PROVE HoldersWork'
  BY <1>2 DEF End, KickLoad, KickCommit, work
\* A drainer that has no row comes and goes; one that has stays at work.
<1>3. ASSUME NEW d \in Drainers,
             Acquire(d) \/ Pop(d) \/ Popped(d) \/ Release(d) \/ Delete(d)
      PROVE  HoldersWork'
  BY <1>3 DEF Acquire, Pop, Popped, Release, Delete
<1>4. ASSUME NEW d \in Drainers, Examine(d) \/ StatementFails(d) PROVE HoldersWork'
  <2>1. /\ holder' = holder /\ at'[d] \in {"work", "update"}
        /\ \A x \in Drainers \ {d} : at'[x] = at[x]
    <3>1. CASE Examine(d)
      BY <3>1 DEF Examine
    <3>2. CASE StatementFails(d)
      BY <3>2 DEF StatementFails
    <3> QED BY <1>4, <3>1, <3>2
  <2> QED BY <2>1
<1>5. ASSUME NEW d \in Drainers, Update(d) PROVE HoldersWork'
  BY <1>5 DEF Update, Write, Drop
<1>6. ASSUME NEW d \in Drainers, Commit(d) \/ CommitFails(d) \/ Crash(d) PROVE HoldersWork'
  BY <1>6, QueueAssumption DEF Commit, CommitFails, Crash, Finish
<1> QED
  BY <1>1, <1>2, <1>3, <1>4, <1>5, <1>6 DEF Next

\* The UPDATE waits for the row of another transaction; all else waits for nothing.
Waits(d) == at[d] = "update" /\ holder[SessionOf[Current(d)]] \notin {Free, d}

\* A drainer that waits for a row waits for one that goes on with its batch, if
\* not directly then through others, or PostgreSQL finds it deadlocked and ends
\* its statement: no process that died, and no row that was forgotten.
WaitsForSomeone(d) ==
    Waits(d) =>
        \/ Deadlocked(d)
        \/ \E x \in Drainers, s \in Sessions :
              holder[s] = x /\ at[x] \in {"work", "update"} /\ ~Waits(x)

THEOREM NobodyWaitsInVain == Spec => [](\A d \in Drainers : WaitsForSomeone(d))
<1>1. Init => HoldersWork
  BY DEF Init, HoldersWork
<1>2. ASSUME TypeOK, HoldersWork, NEW d \in Drainers, Waits(d) PROVE WaitsForSomeone(d)
  <2> DEFINE waiting == {x \in Drainers : Waits(x)}
             Awaited(x) == holder[SessionOf[Current(x)]]
  <2>1. ASSUME NEW x \in waiting
        PROVE  /\ SessionOf[Current(x)] \in Sessions
               /\ Awaited(x) \in Drainers \ {x} /\ at[Awaited(x)] \in {"work", "update"}
    <3>1. batch[x] \in Seq(Events) /\ batch[x] # <<>>
      BY <1>2 DEF TypeOK, Waits
    <3>2. Current(x) \in Events
      BY <3>1 DEF Current
    <3>3. SessionOf[Current(x)] \in Sessions
      BY <3>2, QueueAssumption
    <3> QED BY <1>2, <3>3 DEF TypeOK, Waits, HoldersWork
  <2>2. CASE \A x \in waiting : Awaited(x) \in waiting
    <3>1. d \in waiting /\ waiting \in SUBSET Drainers
      BY <1>2
    <3>2. \A x \in waiting : at[x] = "update" /\ Awaited(x) \in waiting \ {x}
      BY <2>1, <2>2 DEF Waits
    <3> QED BY <3>1, <3>2 DEF Deadlocked, WaitsForSomeone
  <2>3. CASE \E x \in waiting : Awaited(x) \notin waiting
    BY <2>1, <2>3 DEF WaitsForSomeone
  <2> QED BY <2>2, <2>3
<1>3. TypeOK /\ HoldersWork => \A d \in Drainers : WaitsForSomeone(d)
  BY <1>2 DEF WaitsForSomeone
<1> QED
  BY <1>1, <1>3, TypeCorrect, HoldersWorkStep, PTL DEF Spec
=============================================================================
