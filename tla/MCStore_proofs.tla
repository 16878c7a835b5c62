----------------------------- MODULE MCStore_proofs ----------------------------
(***************************************************************************)
(* Proofs about what the gateway keeps, for every set of rows, clients,    *)
(* tokens and files and every limit.  First the snapshot: its types, that  *)
(* the pool is closed although it is read in three statements that the     *)
(* tables change between, and that the write behind a rejection is not     *)
(* lost.  Then the tables behind the administration: each part's types and *)
(* the inductive invariant behind its property, and what follows for the   *)
(* properties that MCStore states of the parts together.                   *)
(***************************************************************************)
EXTENDS MCStore, SequenceTheorems, FiniteSetTheorems, WellFoundedInduction, TLAPS

(***************************************************************************)
(* The snapshot: its types.                                                *)
(***************************************************************************)
\* What Pool::load() keeps are rows.
LEMMA UsableType ==
  ASSUME NEW got, NEW from
  PROVE  Usable(got, from) \subseteq from \cap Entry
BY DEF Usable

LEMMA LoadedType ==
  ASSUME NEW t, t \subseteq Row
  PROVE  Loaded(t) \subseteq Row
BY UsableType DEF Loaded, Row

\* The candidates of a pool are made of its entries and its keys.
LEMMA CandidatesType ==
  ASSUME NEW p
  PROVE  UNION {{x[1], x[2]} : x \in Candidates(p)} \subseteq Key \cup Entry
<1>1. \A x \in Candidates(p) : x[1] \in Entry /\ x[2] \in Key
  BY DEF Candidates
<1> QED BY <1>1

\* The writer takes the first writes of the queue: the others stay queued.
LEMMA QueueRest ==
  ASSUME NEW X, NEW q \in Seq(X), NEW n \in 1..Len(q), NEW cap \in Nat, Len(q) <= cap
  PROVE  /\ SubSeq(q, n + 1, Len(q)) \in Seq(X)
         /\ Len(SubSeq(q, n + 1, Len(q))) <= cap
<1>1. n \in Nat /\ Len(q) \in Nat /\ n <= Len(q)
  OBVIOUS
<1>2. \A i \in n + 1 .. Len(q) : q[i] \in X
  BY <1>1
<1>3. /\ SubSeq(q, n + 1, Len(q)) \in Seq(X)
      /\ Len(SubSeq(q, n + 1, Len(q))) = IF n + 1 <= Len(q) THEN Len(q) - (n + 1) + 1 ELSE 0
  BY <1>1, <1>2, SubSeqProperties
<1> QED BY <1>1, <1>3

\* Every step keeps the types of the tables, the queue, the pool and the tasks.
LEMMA TypeStep == TypeOK /\ [Next]_vars => TypeOK'
<1> SUFFICES ASSUME TypeOK, [Next]_vars PROVE TypeOK'
  OBVIOUS
<1> USE DEF TypeOK
<1>a. QueueCap \in Nat
  BY SnapshotAssumption
<1>b. IdleTask \in [at: Stage, got: SUBSET Row] /\ Begun \in [at: Stage, got: SUBSET Row]
  BY DEF IdleTask, Begun, Stage
<1>1. ASSUME NEW r \in Request, Plan(r) PROVE TypeOK'
  BY <1>1, CandidatesType DEF Plan
<1>2. ASSUME NEW r \in Request, Finish(r) PROVE TypeOK'
  BY <1>2 DEF Finish
<1>3. ASSUME NEW r \in Request, NEW t \in Task, NEW x \in Row, Reject(r, t, x) PROVE TypeOK'
  <2>1. x \in Key \cup Entry
    BY <1>3 DEF Reject
  <2>2. queue' \in Seq(Key \cup Entry) /\ Len(queue') <= QueueCap
    BY <1>3, <1>a, <2>1 DEF Reject
  <2> QED BY <1>3, <1>b, <2>1, <2>2 DEF Reject
<1>4. ASSUME NEW n \in 1..Len(queue), Commit(n) PROVE TypeOK'
  <2>1. queue' \in Seq(Key \cup Entry) /\ Len(queue') <= QueueCap
    BY <1>4, <1>a, QueueRest DEF Commit
  <2> QED BY <1>4, <2>1 DEF Commit
<1>5. ASSUME NEW n \in 1..Len(queue), RollBack(n) PROVE TypeOK'
  <2>1. queue' \in Seq(Key \cup Entry) /\ Len(queue') <= QueueCap
    BY <1>5, <1>a, QueueRest DEF RollBack
  <2> QED BY <1>5, <2>1 DEF RollBack
<1>6. ASSUME NEW t \in Task, NEW x \in Row, Change(t, x) PROVE TypeOK'
  BY <1>6, <1>b DEF Change
<1>7. ASSUME NEW t \in Task, ReadChannels(t) PROVE TypeOK'
  BY <1>7 DEF ReadChannels, Read, Stage, Row
<1>8. ASSUME NEW t \in Task, ReadKeys(t) PROVE TypeOK'
  BY <1>8 DEF ReadKeys, Read, Stage, Row
<1>9. ASSUME NEW t \in Task, ReadEntries(t) PROVE TypeOK'
  BY <1>9, UsableType DEF ReadEntries, Read, Stage, Row
<1>10. ASSUME NEW t \in Task, Fail(t) PROVE TypeOK'
  BY <1>10, <1>b DEF Fail
<1>11. ASSUME NEW t \in Task, Store(t) PROVE TypeOK'
  BY <1>11, <1>b DEF Store
<1>12. ASSUME Restart PROVE TypeOK'
  BY <1>12, <1>a, <1>b, LoadedType DEF Restart
<1>13. ASSUME UNCHANGED vars PROVE TypeOK'
  BY <1>13 DEF vars
<1> QED
  BY <1>1, <1>2, <1>3, <1>4, <1>5, <1>6, <1>7, <1>8, <1>9, <1>10, <1>11, <1>12, <1>13
  DEF Next, WriterStep, Reload

\* The snapshot, the tables and what is under way between them keep their types.
THEOREM TypeCorrect == Spec => []TypeOK
<1>1. Init => TypeOK
  BY LoadedType, SnapshotAssumption DEF Init, TypeOK, IdleTask, Stage, Row
<1> QED BY <1>1, TypeStep, PTL DEF Spec

(***************************************************************************)
(* Its pool is closed.  The invariant says how far a load has come: until  *)
(* its third SELECT it holds no entry, and that SELECT keeps an entry only *)
(* if the channel and a key are among the rows already loaded, whatever    *)
(* the tables hold by then.                                                *)
(***************************************************************************)
\* Each entry has its channel, and a key of it.
Closed(rows) ==
  \A e \in rows \cap Entry : /\ ChannelOf[e] \in rows
                             /\ \E k \in rows \cap Key : ChannelOf[k] = ChannelOf[e]

LoadsClosed ==
  \A t \in Task : /\ task[t].at # "store" => task[t].got \cap Entry = {}
                  /\ task[t].at = "store" => Closed(task[t].got)

IInv == TypeOK /\ Closed(pool) /\ LoadsClosed

\* Tables that stand still are loaded into a closed pool.
LEMMA LoadedIsClosed ==
  ASSUME NEW t
  PROVE  Closed(Loaded(t))
BY SnapshotAssumption DEF Closed, Loaded, Usable

\* So are channels and keys read earlier than the entries.
LEMMA UsableIsClosed ==
  ASSUME NEW got, NEW from, got \cap Entry = {}
  PROVE  Closed(got \cup Usable(got, from))
BY DEF Closed, Usable

\* Every step keeps the pool and the loads closed.
LEMMA ClosedStep == IInv /\ [Next]_vars => IInv'
<1> SUFFICES ASSUME IInv, [Next]_vars PROVE IInv'
  OBVIOUS
<1>a. TypeOK /\ TypeOK'
  BY TypeStep DEF IInv
<1>b. task \in [Task -> [at: Stage, got: SUBSET Row]]
  BY <1>a DEF TypeOK
<1>c. /\ IdleTask.at # "store" /\ IdleTask.got = {}
      /\ Begun.at # "store" /\ Begun.got = {}
  BY DEF IdleTask, Begun
<1>d. Closed(pool) /\ LoadsClosed
  BY DEF IInv
<1> SUFFICES Closed(pool') /\ LoadsClosed'
  BY <1>a DEF IInv, Closed
<1>1. ASSUME NEW r \in Request, Plan(r) \/ Finish(r) PROVE Closed(pool') /\ LoadsClosed'
  BY <1>1, <1>d DEF Plan, Finish, LoadsClosed
<1>2. ASSUME NEW r \in Request, NEW t \in Task, NEW x \in Row, Reject(r, t, x)
      PROVE  Closed(pool') /\ LoadsClosed'
  BY <1>2, <1>b, <1>c, <1>d DEF Reject, LoadsClosed
<1>3. ASSUME NEW n \in 1..Len(queue), Commit(n) \/ RollBack(n)
      PROVE  Closed(pool') /\ LoadsClosed'
  BY <1>3, <1>d DEF Commit, RollBack, LoadsClosed
<1>4. ASSUME NEW t \in Task, NEW x \in Row, Change(t, x) PROVE Closed(pool') /\ LoadsClosed'
  BY <1>4, <1>b, <1>c, <1>d DEF Change, LoadsClosed
<1>5. ASSUME NEW t \in Task, ReadChannels(t) \/ ReadKeys(t)
      PROVE  Closed(pool') /\ LoadsClosed'
  <2>1. PICK rows, next : /\ rows \cap Entry = {} /\ next # "store" /\ pool' = pool
                          /\ task[t].at # "store"
                          /\ task' = [task EXCEPT ![t] = [at |-> next, got |-> @.got \cup rows]]
    <3>1. (table \cap Channel) \cap Entry = {} /\ (table \cap Key) \cap Entry = {}
      BY SnapshotAssumption
    <3>2. CASE ReadChannels(t)
      BY <3>1, <3>2 DEF ReadChannels, Read
    <3>3. CASE ReadKeys(t)
      BY <3>1, <3>3 DEF ReadKeys, Read
    <3> QED BY <1>5, <3>2, <3>3
  <2>2. (task[t].got \cup rows) \cap Entry = {}
    BY <1>d, <2>1 DEF LoadsClosed
  <2> QED BY <1>b, <1>d, <2>1, <2>2 DEF LoadsClosed
<1>6. ASSUME NEW t \in Task, ReadEntries(t) PROVE Closed(pool') /\ LoadsClosed'
  <2>1. task[t].got \cap Entry = {}
    BY <1>6, <1>d DEF ReadEntries, Read, LoadsClosed
  <2>2. Closed(task[t].got \cup Usable(task[t].got, table))
    BY <2>1, UsableIsClosed
  <2> QED BY <1>6, <1>b, <1>d, <2>2 DEF ReadEntries, Read, LoadsClosed
<1>7. ASSUME NEW t \in Task, Fail(t) PROVE Closed(pool') /\ LoadsClosed'
  BY <1>7, <1>b, <1>c, <1>d DEF Fail, LoadsClosed
<1>8. ASSUME NEW t \in Task, Store(t) PROVE Closed(pool') /\ LoadsClosed'
  <2>1. Closed(task[t].got)
    BY <1>8, <1>d DEF Store, LoadsClosed
  <2> QED BY <1>8, <1>b, <1>c, <1>d, <2>1 DEF Store, LoadsClosed
<1>9. ASSUME Restart PROVE Closed(pool') /\ LoadsClosed'
  BY <1>9, <1>c, LoadedIsClosed DEF Restart, LoadsClosed
<1>10. ASSUME UNCHANGED vars PROVE Closed(pool') /\ LoadsClosed'
  BY <1>10, <1>d DEF vars, LoadsClosed
<1> QED
  BY <1>1, <1>2, <1>3, <1>4, <1>5, <1>6, <1>7, <1>8, <1>9, <1>10
  DEF Next, WriterStep, Reload

\* However the reloads interleave with the writer and the administrator, each
\* entry of the pool is a candidate with at least one key.
THEOREM PoolStaysClosed == Spec => []PoolIsClosed
<1>1. Init => IInv
  <2>1. Init => TypeOK
    BY LoadedType, SnapshotAssumption DEF Init, TypeOK, IdleTask, Stage, Row
  <2> QED BY <2>1, LoadedIsClosed DEF Init, IInv, LoadsClosed, IdleTask
<1>2. IInv => PoolIsClosed
  BY DEF IInv, Closed, PoolIsClosed, Candidates
<1> QED BY <1>1, <1>2, ClosedStep, PTL DEF Spec

(***************************************************************************)
(* The disabling write is queued for as long as it is awaited: the writer  *)
(* takes the oldest writes first, and all it takes is settled.             *)
(***************************************************************************)
\* A write that the writer did not take is still queued, n places nearer.
LEMMA NotTaken ==
  ASSUME NEW X, NEW q \in Seq(X), NEW n \in 1..Len(q), NEW x, x \notin {q[i] : i \in 1..n},
         NEW j \in 1..Len(q), q[j] = x
  PROVE  \E i \in 1..Len(SubSeq(q, n + 1, Len(q))) : SubSeq(q, n + 1, Len(q))[i] = x
<1>1. n \in Nat /\ Len(q) \in Nat /\ j \in Nat /\ n < j /\ j <= Len(q)
  OBVIOUS
<1>2. \A i \in n + 1 .. Len(q) : q[i] \in X
  BY <1>1
<1>3. /\ Len(SubSeq(q, n + 1, Len(q))) = IF n + 1 <= Len(q) THEN Len(q) - (n + 1) + 1 ELSE 0
      /\ \A i \in 1 .. Len(q) - (n + 1) + 1 : SubSeq(q, n + 1, Len(q))[i] = q[n + 1 + i - 1]
  BY <1>1, <1>2, SubSeqProperties
<1>4. /\ j - n \in 1 .. Len(q) - (n + 1) + 1
      /\ n + 1 + (j - n) - 1 = j
      /\ Len(SubSeq(q, n + 1, Len(q))) = Len(q) - (n + 1) + 1
  BY <1>1, <1>3
<1>5. SubSeq(q, n + 1, Len(q))[j - n] = x
  BY <1>3, <1>4
<1> QED BY <1>4, <1>5

\* Neither a change, a reload nor a restart loses a disabling write that is awaited.
THEOREM RejectionStaysQueued == Spec => []RejectionIsQueued
<1>1. Init => RejectionIsQueued
  BY DEF Init, RejectionIsQueued
<1>2. TypeOK /\ RejectionIsQueued /\ [Next]_vars => RejectionIsQueued'
  <2> SUFFICES ASSUME TypeOK, RejectionIsQueued, [Next]_vars, NEW x \in rejected'
               PROVE  \E i \in 1..Len(queue') : queue'[i] = x
    BY DEF RejectionIsQueued
  <2>q. queue \in Seq(Key \cup Entry)
    BY DEF TypeOK
  <2>1. ASSUME NEW r \in Request, NEW t \in Task, NEW y \in Row, Reject(r, t, y)
        PROVE  \E i \in 1..Len(queue') : queue'[i] = x
    <3>1. /\ queue' = Append(queue, y) /\ y \in Key \cup Entry
          /\ x \in rejected \/ x = y
      BY <2>1 DEF Reject, TypeOK
    <3>2. /\ Len(queue) \in Nat /\ Len(queue') = Len(queue) + 1
          /\ queue'[Len(queue) + 1] = y
          /\ \A i \in 1..Len(queue) : queue'[i] = queue[i]
      BY <2>q, <3>1, AppendProperties
    <3>3. CASE x = y
      BY <3>2, <3>3
    <3>4. CASE x \in rejected
      BY <3>2, <3>4 DEF RejectionIsQueued
    <3> QED BY <3>1, <3>3, <3>4
  <2>2. ASSUME NEW n \in 1..Len(queue), Commit(n) \/ RollBack(n)
        PROVE  \E i \in 1..Len(queue') : queue'[i] = x
    <3>1. /\ queue' = SubSeq(queue, n + 1, Len(queue))
          /\ x \in rejected /\ x \notin {queue[i] : i \in 1..n}
      BY <2>2 DEF Commit, RollBack
    <3>2. PICK j \in 1..Len(queue) : queue[j] = x
      BY <3>1 DEF RejectionIsQueued
    <3> QED BY <2>q, <3>1, <3>2, NotTaken, Zenon
  <2>3. ASSUME queue' = queue, rejected' \subseteq rejected
        PROVE  \E i \in 1..Len(queue') : queue'[i] = x
    BY <2>3 DEF RejectionIsQueued
  <2>4. ASSUME NEW r \in Request, Plan(r) \/ Finish(r)
        PROVE  queue' = queue /\ rejected' \subseteq rejected
    BY <2>4 DEF Plan, Finish
  <2>5. ASSUME NEW t \in Task, Reload(t) \/ \E y \in Row : Change(t, y)
        PROVE  queue' = queue /\ rejected' \subseteq rejected
    BY <2>5 DEF Reload, ReadChannels, ReadKeys, ReadEntries, Read, Fail, Store, Change
  <2>6. CASE Restart
    BY <2>6 DEF Restart
  <2>7. CASE UNCHANGED vars
    BY <2>3, <2>7 DEF vars
  <2> QED BY <2>1, <2>2, <2>3, <2>4, <2>5, <2>6, <2>7 DEF Next, WriterStep
<1> QED BY <1>1, <1>2, TypeCorrect, PTL DEF Spec

(***************************************************************************)
(* The parts beside the snapshot.                                          *)
(***************************************************************************)
\* A step is one of the part it belongs to, and leaves the state of the others alone.
LEMMA PartSteps ==
  ASSUME [StoreNext]_<<part, vars, others>>
  PROVE  /\ part' = part
         /\ (part = "registry" /\ R!Next) \/ UNCHANGED ofRegistry
         /\ (part = "order" /\ O!Next) \/ UNCHANGED ofOrder
         /\ (part = "auth" /\ A!Next) \/ UNCHANGED ofAdminAuth
         /\ (part = "alerts" /\ N!Next) \/ UNCHANGED ofAlerter
         /\ (part = "access" /\ C!Next) \/ UNCHANGED ofAccess
         /\ (part = "settings" /\ S!Next) \/ UNCHANGED ofSettings
         /\ (part = "deploy" /\ D!Next) \/ UNCHANGED ofDeploy
BY Zenon DEF StoreNext, others

(***************************************************************************)
(* Alerter.                                                                *)
(***************************************************************************)
\* The least interval is kept whatever the setting is, and the longest setting bounds
\* every other one.
LEMMA IntervalsAreBounded ==
  /\ \A i \in Intervals : N!AtLeast(i) \in Nat /\ N!AtLeast(i) >= Floor
  /\ N!AtLeast(N!Max(Intervals)) \in Nat
  /\ \A i \in Intervals : N!AtLeast(i) <= N!AtLeast(N!Max(Intervals))
<1>1. /\ Floor \in Nat /\ Intervals \subseteq Nat
      /\ \E i \in Intervals : \A j \in Intervals : j <= i
  BY StoreAssumption DEF N!AlerterAssumption
<1>2. N!Max(Intervals) \in Intervals /\ \A j \in Intervals : j <= N!Max(Intervals)
  BY <1>1 DEF N!Max
<1>3. ASSUME NEW i \in Nat
      PROVE  N!AtLeast(i) \in {i, Floor} /\ N!AtLeast(i) >= i /\ N!AtLeast(i) >= Floor
  <2>1. \E x \in {i, Floor} : \A y \in {i, Floor} : x >= y
    BY <1>1
  <2> QED BY <1>1, <2>1 DEF N!AtLeast, N!Max
<1>4. \A i \in Intervals : N!AtLeast(i) \in Nat /\ N!AtLeast(i) >= Floor
  BY <1>1, <1>3
<1>5. N!AtLeast(N!Max(Intervals)) \in Nat
  BY <1>2, <1>4
<1>6. ASSUME NEW i \in Intervals
      PROVE  N!AtLeast(i) <= N!AtLeast(N!Max(Intervals))
  <2> DEFINE m == N!Max(Intervals)
  <2>1. m \in Nat /\ i \in Nat /\ i <= m
    BY <1>1, <1>2
  <2>2. N!AtLeast(m) >= m /\ N!AtLeast(m) >= Floor /\ N!AtLeast(m) \in Nat
    BY <1>1, <1>3, <2>1
  <2>3. N!AtLeast(i) \in {i, Floor}
    BY <1>3, <2>1
  <2> HIDE DEF m
  <2>4. N!AtLeast(i) <= N!AtLeast(m)
    BY <1>1, <2>1, <2>2, <2>3
  <2> QED BY <2>4 DEF m
<1> QED BY <1>4, <1>5, <1>6

\* What was taken is known by the last of its kind.
AlerterInv ==
  LET taken == outbox \cup mailed IN
  /\ N!TypeOK
  /\ \A m \in taken : m[1] \in DOMAIN last /\ m[2] <= last[m[1]]
  /\ \A k \in DOMAIN last : <<k, last[k]>> \in taken /\ last[k] <= hour
  /\ N!AlertsAreSpaced

LEMMA AlerterBegins == N!Init => AlerterInv
BY StoreAssumption DEF N!Init, AlerterInv, N!TypeOK, N!AlertsAreSpaced, N!Taken,
   N!AlerterAssumption, N!Range

LEMMA AlerterStep ==
  ASSUME AlerterInv, N!Next
  PROVE  AlerterInv'
<1> DEFINE taken == outbox \cup mailed
<1> DEFINE Long == N!AtLeast(N!Max(Intervals))
<1>1. /\ Floor \in Nat /\ Intervals \subseteq Nat /\ MaxHour \in Nat
      /\ N!AtLeast(interval) \in Nat /\ N!AtLeast(interval) >= Floor
      /\ N!AtLeast(interval) <= Long /\ Long \in Nat
  BY StoreAssumption, IntervalsAreBounded DEF N!AlerterAssumption, AlerterInv, N!TypeOK
<1>2. /\ N!TypeOK
      /\ \A m \in taken : m[1] \in DOMAIN last /\ m[2] <= last[m[1]]
      /\ \A k \in DOMAIN last : <<k, last[k]>> \in taken /\ last[k] <= hour
      /\ N!AlertsAreSpaced
  BY DEF AlerterInv
<1>3. ASSUME NEW k \in Kind, N!Notify(k)
      PROVE  AlerterInv'
  <2>1. CASE N!Recent(k)
    <3>1. /\ unheard' = unheard \cup {<<k, hour>>}
          /\ UNCHANGED <<hour, interval, enabled, last, outbox, mailed>>
      BY <1>3, <2>1 DEF N!Notify
    <3>2. N!TypeOK'
      BY <1>2, <3>1 DEF N!TypeOK, N!Taken, N!Range
    <3>3. k \in DOMAIN last /\ hour - last[k] < N!AtLeast(interval)
      BY <2>1 DEF N!Recent
    <3>4. <<k, last[k]>> \in taken /\ last[k] <= hour /\ last[k] \in Nat /\ hour \in Nat
      BY <1>2, <3>3 DEF N!TypeOK, N!Range
    <3>5. hour - last[k] < Long
      <4> HIDE DEF Long
      <4> QED BY <1>1, <3>3, <3>4
    <3>6. \A u \in unheard' : \E m \in taken : m[1] = u[1] /\ m[2] <= u[2] /\ u[2] - m[2] < Long
      BY <1>2, <3>1, <3>4, <3>5 DEF N!AlertsAreSpaced
    <3>7. N!AlertsAreSpaced'
      BY <1>2, <3>1, <3>6 DEF N!AlertsAreSpaced
    <3> QED BY <1>2, <3>1, <3>2, <3>7 DEF AlerterInv
  <2>2. CASE ~N!Recent(k)
    <3>1. /\ last' = [x \in DOMAIN last \cup {k} |-> IF x = k THEN hour ELSE last[x]]
          /\ outbox' = outbox \cup {<<k, hour>>}
          /\ UNCHANGED <<hour, interval, enabled, mailed, unheard>>
      BY <1>3, <2>2 DEF N!Notify, N!NotedAt
    <3>2. hour \in 0..MaxHour /\ <<k, hour>> \in N!Taken
      BY <1>2 DEF N!TypeOK, N!Taken
    <3>3. N!TypeOK'
      BY <1>2, <3>1, <3>2 DEF N!TypeOK, N!Range
    <3>4. \A m \in taken : m[1] = k => hour - m[2] >= Floor
      <4>1. SUFFICES ASSUME NEW m \in taken, m[1] = k
                     PROVE  hour - m[2] >= Floor
        OBVIOUS
      <4>2. k \in DOMAIN last /\ m[2] <= last[k] /\ last[k] \in Nat /\ m[2] \in Nat
        BY <1>2, <4>1 DEF N!TypeOK, N!Range, N!Taken
      <4>3. ~(hour - last[k] < N!AtLeast(interval))
        BY <2>2, <4>2 DEF N!Recent
      <4> QED BY <1>1, <3>2, <4>2, <4>3
    <3>5. \A m \in taken' : m \in taken \/ m = <<k, hour>>
      BY <3>1
    <3>6. /\ \A m \in taken' : m[1] \in DOMAIN last' /\ m[2] <= last'[m[1]]
          /\ \A x \in DOMAIN last' : <<x, last'[x]>> \in taken' /\ last'[x] <= hour'
      <4>1. ASSUME NEW m \in taken'
            PROVE  m[1] \in DOMAIN last' /\ m[2] <= last'[m[1]]
        <5>1. CASE m \in taken
          <6>1. m[1] \in DOMAIN last /\ m[2] <= last[m[1]] /\ last[m[1]] <= hour
                /\ m[2] \in Nat /\ last[m[1]] \in Nat
            <7>1. m[1] \in DOMAIN last /\ m[2] <= last[m[1]] /\ last[m[1]] <= hour
              BY <1>2, <5>1
            <7> QED BY <1>2, <5>1, <7>1 DEF N!TypeOK, N!Taken, N!Range
          <6> QED BY <3>1, <3>2, <6>1
        <5>2. CASE m = <<k, hour>>
          BY <3>1, <3>2, <5>2
        <5> QED BY <3>5, <5>1, <5>2
      <4>2. ASSUME NEW x \in DOMAIN last'
            PROVE  <<x, last'[x]>> \in taken' /\ last'[x] <= hour'
        BY <1>2, <3>1, <3>2
      <4> QED BY <4>1, <4>2
    <3>7. N!AlertsAreSpaced'
      <4>1. \A m, n \in taken' : m[1] = n[1] /\ m[2] < n[2] => n[2] - m[2] >= Floor
        <5>1. SUFFICES ASSUME NEW m \in taken', NEW n \in taken', m[1] = n[1], m[2] < n[2]
                       PROVE  n[2] - m[2] >= Floor
          OBVIOUS
        <5>2. CASE m \in taken /\ n \in taken
          BY <1>2, <5>1, <5>2 DEF N!AlertsAreSpaced
        <5>3. CASE m \in taken /\ n = <<k, hour>>
          BY <3>4, <5>1, <5>3
        <5>4. CASE m = <<k, hour>> /\ n \in taken
          <6>1. n[1] = k /\ n[2] <= last[k] /\ last[k] <= hour /\ n[2] \in Nat
                /\ last[k] \in Nat
            <7>1. n[1] = k /\ n[2] <= last[k] /\ k \in DOMAIN last /\ last[k] <= hour
              BY <1>2, <5>1, <5>4
            <7> QED BY <1>2, <5>4, <7>1 DEF N!TypeOK, N!Taken, N!Range
          <6> QED BY <3>2, <5>1, <5>4, <6>1
        <5>5. CASE m = <<k, hour>> /\ n = <<k, hour>>
          BY <3>2, <5>1, <5>5
        <5> QED BY <3>5, <5>2, <5>3, <5>4, <5>5
      <4> QED BY <1>2, <3>1, <4>1 DEF N!AlertsAreSpaced
    <3> QED BY <3>3, <3>6, <3>7 DEF AlerterInv
  <2> QED BY <2>1, <2>2
<1>4. ASSUME NEW m \in outbox, N!Send(m)
      PROVE  AlerterInv'
  <2>1. /\ outbox' = outbox \ {m} /\ mailed' = mailed \cup {m}
        /\ UNCHANGED <<hour, interval, enabled, last, unheard>>
    BY <1>4 DEF N!Send
  <2>2. outbox' \cup mailed' = taken
    BY <2>1
  <2>3. N!TypeOK'
    BY <1>2, <2>1 DEF N!TypeOK, N!Range
  <2> QED BY <1>2, <2>1, <2>2, <2>3 DEF AlerterInv, N!AlertsAreSpaced
<1>5. ASSUME NEW i \in Intervals, NEW on \in BOOLEAN, N!Configure(i, on)
      PROVE  AlerterInv'
  BY <1>2, <1>5 DEF N!Configure, AlerterInv, N!TypeOK, N!AlertsAreSpaced, N!Range
<1>6. ASSUME N!Tick
      PROVE  AlerterInv'
  <2>1. hour' = hour + 1 /\ hour < MaxHour
        /\ UNCHANGED <<interval, enabled, last, outbox, mailed, unheard>>
    BY <1>6 DEF N!Tick
  <2>2. hour \in 0..MaxHour /\ \A k \in DOMAIN last : last[k] \in Nat
    BY <1>2 DEF N!TypeOK, N!Range
  <2>3. N!TypeOK'
    BY <1>1, <1>2, <2>1, <2>2 DEF N!TypeOK, N!Range
  <2>4. \A k \in DOMAIN last : last[k] <= hour'
    <3>1. ASSUME NEW k \in DOMAIN last
          PROVE  last[k] <= hour + 1
      <4>1. last[k] \in Nat /\ hour \in Nat
        BY <2>2
      <4>2. last[k] <= hour
        BY <1>2
      <4> QED BY <4>1, <4>2
    <3> QED BY <2>1, <3>1
  <2> QED BY <1>2, <2>1, <2>3, <2>4 DEF AlerterInv, N!AlertsAreSpaced
<1> QED BY <1>3, <1>4, <1>5, <1>6 DEF N!Next

(***************************************************************************)
(* AdminAuth.                                                              *)
(***************************************************************************)
\* The logins of an address that are under way, and the failures that count for it now.
LoginsOf(a) == {x \in Client : login[x].at # "quiet" /\ login[x].new = None /\ login[x].from = a}
Counted(a) ==
  IF a \in DOMAIN failures /\ clock - failures[a].since <= Window THEN failures[a].n ELSE 0

LoginRecord ==
  [at: {"quiet", "asked", "verifying", "changing"}, from: Address \cup {None},
   word: Word \cup {None}, new: Word \cup {None}, read: Word \cup {None}]

\* Each login under way may fail once more; and of a session the server's own table
\* knows as long as it is good.
AuthInv ==
  /\ A!TypeOK
  /\ \A x \in Client :
       login[x].at # "quiet" /\ login[x].new = None => login[x].from \in Address
  /\ \A t \in DOMAIN tokens : tokens[t] \in Nat
  /\ \A t \in DOMAIN session : session[t] \in Nat /\ t \in spent
  /\ \A t \in Cookie :
       (t \in DOMAIN tokens /\ tokens[t] > clock) \/ (t \in DOMAIN session /\ session[t] > clock)
         => t \in DOMAIN tokens /\ t \in DOMAIN session /\ tokens[t] = session[t]
  /\ \A a \in Address : Counted(a) + Cardinality(LoginsOf(a)) <= MaxFailures + Cardinality(Client)
  /\ A!FailuresAreLimited

\* AdminAuth counts as this module does.
LEMMA SameCount ==
  \A X : (A!IsFiniteSet(X) <=> IsFiniteSet(X)) /\ A!Cardinality(X) = Cardinality(X)
BY DEF A!IsFiniteSet, IsFiniteSet, A!Cardinality, Cardinality

LEMMA AuthConstants ==
  /\ MaxFailures \in Nat /\ MaxFailures > 0 /\ Window \in Nat /\ Ttl \in Nat
  /\ MaxClock \in Nat /\ MaxLogins \in Nat /\ None \notin Word
  /\ IsFiniteSet(Client) /\ Cardinality(Client) \in Nat
<1>1. /\ {MaxFailures, Window, Ttl, MaxClock, MaxLogins} \subseteq Nat \ {0}
      /\ None \notin Word /\ IsFiniteSet(Client)
  BY StoreAssumption, SameCount DEF A!AdminAuthAssumption
<1>2. Cardinality(Client) \in Nat
  BY <1>1, FS_CardinalityType
<1> QED BY <1>1, <1>2

LEMMA LoginsAreFew ==
  /\ \A X : X \subseteq Client =>
       IsFiniteSet(X) /\ Cardinality(X) \in Nat /\ Cardinality(X) <= Cardinality(Client)
  /\ \A X, U : X \subseteq Client /\ U \subseteq X => Cardinality(U) <= Cardinality(X)
  /\ \A X : \A x \in X : X \subseteq Client =>
       Cardinality(X \ {x}) + 1 = Cardinality(X) /\ Cardinality(X) > 0
<1>1. \A X : X \subseteq Client =>
        IsFiniteSet(X) /\ Cardinality(X) \in Nat /\ Cardinality(X) <= Cardinality(Client)
  BY AuthConstants, FS_Subset, FS_CardinalityType
<1>2. \A X, U : X \subseteq Client /\ U \subseteq X => Cardinality(U) <= Cardinality(X)
  BY <1>1, FS_Subset
<1>3. ASSUME NEW X, NEW x \in X, X \subseteq Client
      PROVE  Cardinality(X \ {x}) + 1 = Cardinality(X) /\ Cardinality(X) > 0
  <2>1. IsFiniteSet(X) /\ Cardinality(X) \in Nat
    BY <1>1, <1>3
  <2>2. Cardinality(X \ {x}) = Cardinality(X) - 1
    BY <2>1, FS_RemoveElement
  <2>3. Cardinality(X \ {x}) \in Nat
    BY <1>1, <1>3
  <2> QED BY <2>1, <2>2, <2>3
<1> QED BY <1>1, <1>2, <1>3

LEMMA AuthBegins == A!Init => AuthInv
<1> SUFFICES ASSUME A!Init PROVE AuthInv
  OBVIOUS
<1>1. /\ clock = 0 /\ password \in Word /\ login = [x \in Client |-> A!Quiet]
      /\ failures = <<>> /\ tokens = <<>> /\ session = <<>> /\ spent = {} /\ logins = 0
  BY DEF A!Init
<1>2. A!TypeOK
  BY <1>1, AuthConstants DEF A!TypeOK, A!Quiet
<1>3. \A a \in Address : Counted(a) = 0 /\ LoginsOf(a) \subseteq Client
  BY <1>1 DEF Counted, LoginsOf
<1>4. \A a \in Address : Counted(a) + Cardinality(LoginsOf(a)) <= MaxFailures + Cardinality(Client)
  BY <1>3, AuthConstants, LoginsAreFew
<1>5. A!FailuresAreLimited
  BY <1>1 DEF A!FailuresAreLimited
<1> QED BY <1>1, <1>2, <1>4, <1>5 DEF AuthInv, A!Quiet

\* While the table of failures and the clock stand still, and no address has more
\* logins under way, the bound stands.
LEMMA BoundStands ==
  ASSUME AuthInv, \A a \in Address : LoginsOf(a)' \subseteq LoginsOf(a),
         \A a \in Address : Counted(a)' <= Counted(a) /\ Counted(a)' \in Nat,
         UNCHANGED failures
  PROVE  /\ \A a \in Address :
              (Counted(a) + Cardinality(LoginsOf(a)))' <= MaxFailures + Cardinality(Client)
         /\ A!FailuresAreLimited'
<1>1. A!FailuresAreLimited'
  BY DEF AuthInv, A!FailuresAreLimited
<1>2. ASSUME NEW a \in Address
      PROVE  (Counted(a) + Cardinality(LoginsOf(a)))' <= MaxFailures + Cardinality(Client)
  <2>1. LoginsOf(a) \subseteq Client /\ LoginsOf(a)' \subseteq LoginsOf(a)
    BY DEF LoginsOf
  <2>2. /\ Cardinality(LoginsOf(a)) \in Nat /\ Cardinality(LoginsOf(a)') \in Nat
        /\ Cardinality(LoginsOf(a)') <= Cardinality(LoginsOf(a))
    BY <2>1, LoginsAreFew
  <2>3. Counted(a) \in Nat
    BY DEF AuthInv, A!TypeOK, Counted
  <2>4. Counted(a) + Cardinality(LoginsOf(a)) <= MaxFailures + Cardinality(Client)
    BY DEF AuthInv
  <2> QED BY <2>2, <2>3, <2>4, AuthConstants
<1> QED BY <1>1, <1>2

LEMMA AuthLogin ==
  ASSUME AuthInv, NEW x \in Client, NEW a \in Address, NEW w \in Word, A!Login(x, a, w)
  PROVE  AuthInv'
<1>1. /\ login[x] = A!Quiet /\ logins < MaxLogins /\ ~A!TooMany(a)
      /\ login' = [login EXCEPT ![x] = [A!Quiet EXCEPT !.at = "asked", !.from = a, !.word = w]]
      /\ logins' = logins + 1
      /\ UNCHANGED <<clock, password, failures, tokens, session, spent>>
  BY DEF A!Login
<1>2. A!TypeOK'
  <2>1. [A!Quiet EXCEPT !.at = "asked", !.from = a, !.word = w] \in LoginRecord
    BY AuthConstants DEF A!Quiet, LoginRecord
  <2>2. login' \in [Client -> LoginRecord]
    BY <1>1, <2>1 DEF AuthInv, A!TypeOK, LoginRecord
  <2>3. logins' \in 0..MaxLogins
    BY <1>1, AuthConstants DEF AuthInv, A!TypeOK
  <2> QED BY <1>1, <2>2, <2>3 DEF AuthInv, A!TypeOK, LoginRecord
<1>3. \A y \in Client :
        login'[y].at # "quiet" /\ login'[y].new = None => login'[y].from \in Address
  BY <1>1 DEF AuthInv, A!TypeOK, A!Quiet
<1>4. \A b \in Address : Counted(b)' = Counted(b) /\ Counted(b) \in Nat
  BY <1>1 DEF AuthInv, A!TypeOK, Counted
<1>5. ASSUME NEW b \in Address
      PROVE  (Counted(b) + Cardinality(LoginsOf(b)))' <= MaxFailures + Cardinality(Client)
  <2>1. Counted(b) + Cardinality(LoginsOf(b)) <= MaxFailures + Cardinality(Client)
    BY DEF AuthInv
  <2>2. CASE b = a
    <3>1. Counted(a) <= MaxFailures
      BY <1>1, <1>4, AuthConstants DEF A!TooMany, Counted, AuthInv, A!TypeOK
    <3>2. LoginsOf(a)' \subseteq Client
      BY DEF LoginsOf
    <3> QED BY <1>4, <2>2, <3>1, <3>2, LoginsAreFew, AuthConstants
  <2>3. CASE b # a
    <3>1. LoginsOf(b)' = LoginsOf(b)
      BY <1>1, <2>3 DEF LoginsOf, AuthInv, A!TypeOK, A!Quiet
    <3> QED BY <1>4, <2>1, <3>1
  <2> QED BY <2>2, <2>3
<1>6. A!FailuresAreLimited'
  BY <1>1 DEF AuthInv, A!FailuresAreLimited
<1> QED BY <1>1, <1>2, <1>3, <1>5, <1>6 DEF AuthInv

LEMMA AuthChangePassword ==
  ASSUME AuthInv, NEW x \in Client, NEW t, NEW w \in Word, NEW new \in Word,
         A!ChangePassword(x, t, w, new)
  PROVE  AuthInv'
<1>1. /\ login[x] = A!Quiet /\ logins < MaxLogins
      /\ login' = [login EXCEPT ![x] = [A!Quiet EXCEPT !.at = "asked", !.word = w, !.new = new]]
      /\ logins' = logins + 1
      /\ UNCHANGED <<clock, password, failures, tokens, session, spent>>
  BY DEF A!ChangePassword
<1>2. A!TypeOK'
  <2>1. [A!Quiet EXCEPT !.at = "asked", !.word = w, !.new = new] \in LoginRecord
    BY AuthConstants DEF A!Quiet, LoginRecord
  <2>2. login' \in [Client -> LoginRecord]
    BY <1>1, <2>1 DEF AuthInv, A!TypeOK, LoginRecord
  <2>3. logins' \in 0..MaxLogins
    BY <1>1, AuthConstants DEF AuthInv, A!TypeOK
  <2> QED BY <1>1, <2>2, <2>3 DEF AuthInv, A!TypeOK, LoginRecord
<1>3. \A y \in Client :
        login'[y].at # "quiet" /\ login'[y].new = None => login'[y].from \in Address
  BY <1>1, AuthConstants DEF AuthInv, A!TypeOK, A!Quiet
<1>4. \A b \in Address : Counted(b)' = Counted(b) /\ Counted(b) \in Nat
  BY <1>1 DEF AuthInv, A!TypeOK, Counted
<1>5. \A b \in Address : LoginsOf(b)' \subseteq LoginsOf(b)
  BY <1>1, AuthConstants DEF LoginsOf, AuthInv, A!TypeOK, A!Quiet
<1>6. /\ \A b \in Address :
           (Counted(b) + Cardinality(LoginsOf(b)))' <= MaxFailures + Cardinality(Client)
      /\ A!FailuresAreLimited'
  BY <1>1, <1>4, <1>5, BoundStands
<1> QED BY <1>1, <1>2, <1>3, <1>6 DEF AuthInv

\* A login that goes on or comes to its end leaves the bound as it was, but for Fail.
LEMMA AuthReadOrChange ==
  ASSUME AuthInv, NEW x \in Client, A!Read(x) \/ A!Change(x)
  PROVE  AuthInv'
<1>1. /\ login[x].at # "quiet"
      /\ \/ /\ login' = [login EXCEPT ![x].at = "verifying", ![x].read = password]
            /\ password' = password
         \/ /\ login' = [login EXCEPT ![x] = A!Quiet]
            /\ login[x].new # None /\ password' = login[x].new
      /\ UNCHANGED <<clock, failures, tokens, session, spent, logins>>
  BY DEF A!Read, A!Change
<1>2. A!TypeOK'
  BY <1>1, AuthConstants DEF AuthInv, A!TypeOK, A!Quiet
<1>3. \A y \in Client :
        login'[y].at # "quiet" /\ login'[y].new = None => login'[y].from \in Address
  BY <1>1, AuthConstants DEF AuthInv, A!TypeOK, A!Quiet
<1>4. \A b \in Address : Counted(b)' = Counted(b) /\ Counted(b) \in Nat
  BY <1>1 DEF AuthInv, A!TypeOK, Counted
<1>5. \A b \in Address : LoginsOf(b)' \subseteq LoginsOf(b)
  BY <1>1, AuthConstants DEF LoginsOf, AuthInv, A!TypeOK, A!Quiet
<1>6. /\ \A b \in Address :
           (Counted(b) + Cardinality(LoginsOf(b)))' <= MaxFailures + Cardinality(Client)
      /\ A!FailuresAreLimited'
  BY <1>1, <1>4, <1>5, BoundStands
<1> QED BY <1>1, <1>2, <1>3, <1>6 DEF AuthInv

LEMMA AuthFail ==
  ASSUME AuthInv, NEW x \in Client, A!Fail(x)
  PROVE  AuthInv'
<1>0. PICK a : a = login[x].from
  OBVIOUS
<1>1. /\ login[x].at = "verifying"
      /\ login' = [login EXCEPT ![x] = A!Quiet]
      /\ failures' = IF login[x].new = None THEN A!With(failures, a, A!Noted(a)) ELSE failures
      /\ UNCHANGED <<clock, password, tokens, session, spent, logins>>
  BY <1>0 DEF A!Fail
<1>2. /\ login' \in [Client -> LoginRecord]
      /\ \A y \in Client \ {x} : login'[y] = login[y]
      /\ login'[x].at = "quiet"
  <2>1. A!Quiet \in LoginRecord /\ A!Quiet.at = "quiet"
    BY DEF A!Quiet, LoginRecord
  <2>2. login \in [Client -> LoginRecord]
    BY DEF AuthInv, A!TypeOK, LoginRecord
  <2> QED BY <1>1, <2>1, <2>2
<1>3. \A y \in Client :
        login'[y].at # "quiet" /\ login'[y].new = None => login'[y].from \in Address
  BY <1>2 DEF AuthInv
<1>4. \A b \in Address : LoginsOf(b)' = LoginsOf(b) \ {x}
  BY <1>2 DEF LoginsOf
<1>5. CASE login[x].new # None
  <2>1. failures' = failures
    BY <1>1, <1>5
  <2>2. \A b \in Address : Counted(b)' = Counted(b) /\ Counted(b) \in Nat
    BY <1>1, <2>1 DEF AuthInv, A!TypeOK, Counted
  <2>3. \A b \in Address : LoginsOf(b)' \subseteq LoginsOf(b)
    BY <1>4
  <2>4. /\ \A b \in Address :
             (Counted(b) + Cardinality(LoginsOf(b)))' <= MaxFailures + Cardinality(Client)
        /\ A!FailuresAreLimited'
    BY <2>1, <2>2, <2>3, BoundStands
  <2>5. A!TypeOK'
    BY <1>1, <1>2, <2>1 DEF AuthInv, A!TypeOK, LoginRecord
  <2> QED BY <1>1, <1>3, <2>4, <2>5 DEF AuthInv
<1>6. CASE login[x].new = None
  <2>1. a \in Address /\ x \in LoginsOf(a)
    BY <1>0, <1>1, <1>6 DEF AuthInv, LoginsOf
  <2>2. /\ failures' = [y \in DOMAIN failures \cup {a} |->
                          IF y = a THEN A!Noted(a) ELSE failures[y]]
    BY <1>1, <1>6 DEF A!With
  <2>3. clock \in 0..MaxClock /\ Window \in Nat /\ MaxClock \in Nat
    BY AuthConstants DEF AuthInv, A!TypeOK
  <2>4. /\ A!Noted(a) \in [n : Nat, since : 0..MaxClock]
        /\ A!Noted(a).n = Counted(a) + 1
        /\ clock - A!Noted(a).since <= Window
        /\ Counted(a) \in Nat
    <3>1. CASE a \in DOMAIN failures /\ clock - failures[a].since <= Window
      <4>1. failures[a] \in [n : Nat, since : 0..MaxClock]
        BY <3>1 DEF AuthInv, A!TypeOK
      <4>2. A!Noted(a) = [failures[a] EXCEPT !.n = failures[a].n + 1]
        BY <3>1 DEF A!Noted
      <4>3. Counted(a) = failures[a].n /\ failures[a].n + 1 \in Nat
        BY <3>1, <4>1 DEF Counted
      <4> QED BY <3>1, <4>1, <4>2, <4>3
    <3>2. CASE ~(a \in DOMAIN failures /\ clock - failures[a].since <= Window)
      <4>1. A!Noted(a) = [n |-> 1, since |-> clock] /\ Counted(a) = 0
        BY <3>2 DEF A!Noted, Counted
      <4> QED BY <2>3, <4>1
    <3> QED BY <3>1, <3>2
  <2>5. A!TypeOK'
    <3>1. DOMAIN failures' \subseteq Address
      BY <2>1, <2>2 DEF AuthInv, A!TypeOK
    <3>2. \A b \in DOMAIN failures' : failures'[b] \in [n : Nat, since : 0..MaxClock]
      BY <2>2, <2>4 DEF AuthInv, A!TypeOK
    <3> QED BY <1>1, <1>2, <3>1, <3>2 DEF AuthInv, A!TypeOK, LoginRecord
  <2>6. Counted(a)' = Counted(a) + 1
    BY <1>1, <2>2, <2>4 DEF Counted
  <2>7. \A b \in Address \ {a} : Counted(b)' = Counted(b) /\ Counted(b) \in Nat
    BY <1>1, <2>2 DEF Counted, AuthInv, A!TypeOK
  <2>8. ASSUME NEW b \in Address
        PROVE  (Counted(b) + Cardinality(LoginsOf(b)))' <= MaxFailures + Cardinality(Client)
    <3>1. Counted(b) + Cardinality(LoginsOf(b)) <= MaxFailures + Cardinality(Client)
      BY DEF AuthInv
    <3>2. LoginsOf(b) \subseteq Client
      BY DEF LoginsOf
    <3>3. CASE b = a
      <4>1. Cardinality(LoginsOf(a)') + 1 = Cardinality(LoginsOf(a))
        BY <1>4, <2>1, <3>2, <3>3, LoginsAreFew
      <4>2. Cardinality(LoginsOf(a)') \in Nat
        BY <1>4, <2>1, <3>2, <3>3, LoginsAreFew
      <4> QED BY <2>4, <2>6, <3>1, <3>3, <4>1, <4>2
    <3>4. CASE b # a
      <4>1. LoginsOf(b)' = LoginsOf(b)
        <5>1. x \notin LoginsOf(b)
          BY <1>0, <3>4 DEF LoginsOf
        <5> QED BY <1>4, <5>1
      <4> QED BY <2>7, <3>1, <3>4, <4>1
    <3> QED BY <3>3, <3>4
  <2>9. A!FailuresAreLimited'
    <3>1. A!Noted(a).n <= MaxFailures + Cardinality(Client)
      <4>1. LoginsOf(a)' \subseteq Client
        BY DEF LoginsOf
      <4>2. Cardinality(LoginsOf(a)') \in Nat
        BY <4>1, LoginsAreFew
      <4>3. Counted(a)' + Cardinality(LoginsOf(a)') <= MaxFailures + Cardinality(Client)
        BY <2>1, <2>8
      <4> QED BY <2>4, <2>6, <4>2, <4>3, AuthConstants
    <3>2. \A b \in DOMAIN failures' : failures'[b].n <= MaxFailures + Cardinality(Client)
      BY <2>2, <3>1, SameCount DEF AuthInv, A!FailuresAreLimited
    <3> QED BY <3>2, SameCount DEF A!FailuresAreLimited
  <2> QED BY <1>1, <1>3, <2>5, <2>8, <2>9 DEF AuthInv
<1> QED BY <1>5, <1>6

\* A session that is issued is fresh, so that it is nobody's yet, and the sweep takes
\* only those that are no good.
LEMMA AuthSucceed ==
  ASSUME AuthInv, NEW x \in Client, NEW t \in Cookie, A!Succeed(x, t)
  PROVE  AuthInv'
<1>0. PICK a : a = login[x].from
  OBVIOUS
<1>1. /\ login[x].at = "verifying" /\ login[x].new = None /\ t \notin spent
      /\ login' = [login EXCEPT ![x] = A!Quiet]
      /\ failures' = [y \in DOMAIN failures \ {a} |-> failures[y]]
      /\ tokens' = [y \in {z \in DOMAIN tokens : tokens[z] > clock} \cup {t} |->
                      IF y = t THEN clock + Ttl ELSE tokens[y]]
      /\ session' = [y \in DOMAIN session \cup {t} |-> IF y = t THEN clock + Ttl ELSE session[y]]
      /\ spent' = spent \cup {t}
      /\ UNCHANGED <<clock, password, logins>>
  BY <1>0 DEF A!Succeed, A!Without, A!With, A!Issued
<1>2. /\ login' \in [Client -> LoginRecord]
      /\ \A y \in Client \ {x} : login'[y] = login[y]
      /\ login'[x].at = "quiet"
  <2>1. A!Quiet \in LoginRecord /\ A!Quiet.at = "quiet"
    BY DEF A!Quiet, LoginRecord
  <2>2. login \in [Client -> LoginRecord]
    BY DEF AuthInv, A!TypeOK, LoginRecord
  <2> QED BY <1>1, <2>1, <2>2
<1>3. \A y \in Client :
        login'[y].at # "quiet" /\ login'[y].new = None => login'[y].from \in Address
  BY <1>2 DEF AuthInv
<1>4. \A b \in Address : LoginsOf(b)' \subseteq LoginsOf(b) /\ LoginsOf(b) \subseteq Client
  BY <1>2 DEF LoginsOf
<1>5. clock \in Nat /\ clock + Ttl \in Nat /\ clock + Ttl >= clock
  BY AuthConstants DEF AuthInv, A!TypeOK
<1>6. A!TypeOK'
  <2>1. DOMAIN tokens' \subseteq spent' /\ spent' \subseteq Cookie
    BY <1>1 DEF AuthInv, A!TypeOK
  <2>2. DOMAIN failures' \subseteq Address
    BY <1>1 DEF AuthInv, A!TypeOK
  <2>3. \A b \in DOMAIN failures' : failures'[b] \in [n : Nat, since : 0..MaxClock]
    BY <1>1 DEF AuthInv, A!TypeOK
  <2> QED BY <1>1, <1>2, <2>1, <2>2, <2>3 DEF AuthInv, A!TypeOK, LoginRecord
<1>7. /\ \A y \in DOMAIN tokens' : tokens'[y] \in Nat
      /\ \A y \in DOMAIN session' : session'[y] \in Nat /\ y \in spent'
  BY <1>1, <1>5 DEF AuthInv
<1>8. ASSUME NEW y \in Cookie,
             \/ y \in DOMAIN tokens' /\ tokens'[y] > clock'
             \/ y \in DOMAIN session' /\ session'[y] > clock'
      PROVE  y \in DOMAIN tokens' /\ y \in DOMAIN session' /\ tokens'[y] = session'[y]
  <2>1. CASE y = t
    BY <1>1, <2>1
  <2>2. CASE y # t
    BY <1>1, <1>8, <2>2 DEF AuthInv
  <2> QED BY <2>1, <2>2
<1>9. \A b \in Address : Counted(b)' <= Counted(b) /\ Counted(b)' \in Nat /\ Counted(b) \in Nat
  BY <1>1 DEF Counted, AuthInv, A!TypeOK
<1>10. ASSUME NEW b \in Address
       PROVE  (Counted(b) + Cardinality(LoginsOf(b)))' <= MaxFailures + Cardinality(Client)
  <2>1. Counted(b) + Cardinality(LoginsOf(b)) <= MaxFailures + Cardinality(Client)
    BY DEF AuthInv
  <2>2. Cardinality(LoginsOf(b)') <= Cardinality(LoginsOf(b))
    BY <1>4, LoginsAreFew
  <2>3. Cardinality(LoginsOf(b)) \in Nat
    BY <1>4, LoginsAreFew
  <2>4. LoginsOf(b)' \subseteq Client
    BY <1>4
  <2>5. Cardinality(LoginsOf(b)') \in Nat
    BY <2>4, LoginsAreFew
  <2> QED BY <1>9, <2>1, <2>2, <2>3, <2>5, AuthConstants
<1>11. A!FailuresAreLimited'
  BY <1>1 DEF AuthInv, A!FailuresAreLimited
<1> QED BY <1>3, <1>6, <1>7, <1>8, <1>10, <1>11 DEF AuthInv

LEMMA AuthLogout ==
  ASSUME AuthInv, NEW t, A!Logout(t)
  PROVE  AuthInv'
<1>1. /\ tokens' = [y \in DOMAIN tokens \ {t} |-> tokens[y]]
      /\ session' = [y \in DOMAIN session \ {t} |-> session[y]]
      /\ UNCHANGED <<clock, password, login, failures, spent, logins>>
  BY DEF A!Logout, A!Without
<1>2. A!TypeOK'
  BY <1>1 DEF AuthInv, A!TypeOK
<1>3. \A b \in Address : LoginsOf(b)' = LoginsOf(b) /\ Counted(b)' = Counted(b)
  BY <1>1 DEF LoginsOf, Counted
<1>4. A!FailuresAreLimited'
  BY <1>1 DEF AuthInv, A!FailuresAreLimited
<1> QED BY <1>1, <1>2, <1>3, <1>4 DEF AuthInv

LEMMA AuthTick ==
  ASSUME AuthInv, A!Tick
  PROVE  AuthInv'
<1>1. /\ clock < MaxClock /\ clock' = clock + 1
      /\ UNCHANGED <<password, login, failures, tokens, session, spent, logins>>
  BY DEF A!Tick
<1>2. clock \in Nat /\ clock' \in 0..MaxClock
  BY <1>1, AuthConstants DEF AuthInv, A!TypeOK
<1>3. A!TypeOK'
  BY <1>1, <1>2 DEF AuthInv, A!TypeOK
<1>4. \A b \in Address : LoginsOf(b)' = LoginsOf(b)
  BY <1>1 DEF LoginsOf
<1>5. \A b \in Address : Counted(b)' <= Counted(b) /\ Counted(b)' \in Nat
  BY <1>1, <1>2, AuthConstants DEF Counted, AuthInv, A!TypeOK
<1>6. /\ \A b \in Address :
           (Counted(b) + Cardinality(LoginsOf(b)))' <= MaxFailures + Cardinality(Client)
      /\ A!FailuresAreLimited'
  BY <1>1, <1>4, <1>5, BoundStands
<1>7. ASSUME NEW y \in Cookie,
             \/ y \in DOMAIN tokens' /\ tokens'[y] > clock'
             \/ y \in DOMAIN session' /\ session'[y] > clock'
      PROVE  y \in DOMAIN tokens' /\ y \in DOMAIN session' /\ tokens'[y] = session'[y]
  BY <1>1, <1>2, <1>7 DEF AuthInv
<1> QED BY <1>1, <1>3, <1>6, <1>7 DEF AuthInv

LEMMA AuthRestart ==
  ASSUME AuthInv, A!Restart
  PROVE  AuthInv'
<1>1. /\ login' = [x \in Client |-> A!Quiet]
      /\ failures' = <<>> /\ tokens' = <<>> /\ session' = <<>>
      /\ UNCHANGED <<clock, password, spent, logins>>
  BY DEF A!Restart
<1>2. A!TypeOK'
  BY <1>1, AuthConstants DEF AuthInv, A!TypeOK, A!Quiet
<1>3. \A a \in Address : Counted(a)' = 0 /\ LoginsOf(a)' \subseteq Client
  BY <1>1 DEF Counted, LoginsOf
<1>4. \A a \in Address :
        (Counted(a) + Cardinality(LoginsOf(a)))' <= MaxFailures + Cardinality(Client)
  BY <1>3, AuthConstants, LoginsAreFew
<1>5. A!FailuresAreLimited'
  BY <1>1 DEF A!FailuresAreLimited
<1> QED BY <1>1, <1>2, <1>4, <1>5 DEF AuthInv, A!Quiet

LEMMA AuthStep ==
  ASSUME AuthInv, A!Next
  PROVE  AuthInv'
<1>1. ASSUME NEW x \in Client, NEW a \in Address, NEW w \in Word, A!Login(x, a, w)
      PROVE  AuthInv'
  BY <1>1, AuthLogin
<1>2. ASSUME NEW x \in Client, NEW t \in DOMAIN tokens, NEW w \in Word, NEW new \in Word,
             A!ChangePassword(x, t, w, new)
      PROVE  AuthInv'
  BY <1>2, AuthChangePassword
<1>3. ASSUME NEW x \in Client, A!Read(x) \/ A!Change(x)
      PROVE  AuthInv'
  BY <1>3, AuthReadOrChange
<1>4. ASSUME NEW x \in Client, A!Fail(x)
      PROVE  AuthInv'
  BY <1>4, AuthFail
<1>5. ASSUME NEW x \in Client, NEW t \in Cookie, A!Succeed(x, t)
      PROVE  AuthInv'
  BY <1>5, AuthSucceed
<1>6. ASSUME NEW t \in DOMAIN tokens, A!Logout(t)
      PROVE  AuthInv'
  BY <1>6, AuthLogout
<1> QED BY <1>1, <1>2, <1>3, <1>4, <1>5, <1>6, AuthTick, AuthRestart DEF A!Next

LEMMA AuthImplies == AuthInv => A!TypeOK /\ A!FailuresAreLimited /\ A!SessionsAreExact
<1> SUFFICES ASSUME AuthInv PROVE A!SessionsAreExact
  BY DEF AuthInv
<1> QED BY DEF AuthInv, A!SessionsAreExact, A!Valid

(***************************************************************************)
(* Registry.                                                               *)
(***************************************************************************)
ChannelsFit ==
  /\ DOMAIN channels \subseteq 1..given.channels
  /\ \A x \in DOMAIN channels : channels[x] \in R!ChannelRow
  /\ \A x, y \in DOMAIN channels : channels[x].name = channels[y].name => x = y
KeysFit ==
  /\ DOMAIN keys \subseteq 1..given.keys
  /\ \A k \in DOMAIN keys : keys[k] \in R!KeyRow /\ keys[k].channel \in DOMAIN channels
EntriesFit == entries \subseteq (DOMAIN channels) \X Model

\* No id is past the last one given; and what is on its way to be refused is a key as
\* it is, unless it was replaced.
RefusalsFit ==
  /\ refusals \subseteq (1..MaxId) \X Secret
  /\ \A r \in refusals :
       /\ r[1] <= given.keys
       /\ r[1] \in DOMAIN keys \ edited => keys[r[1]].secret = r[2]

RegistryInv ==
  /\ ChannelsFit /\ KeysFit /\ EntriesFit /\ RefusalsFit
  /\ given \in [channels : 0..MaxId, keys : 0..MaxId]
  /\ edited \subseteq 1..MaxId /\ applying \in R!Applying /\ edits \in 0..MaxEdits
  /\ R!RefusalIsOwn

LEMMA RegistryImplies == RegistryInv => R!TypeOK /\ R!RefusalIsOwn
<1> SUFFICES ASSUME RegistryInv PROVE R!TypeOK
  BY DEF RegistryInv
<1> QED BY DEF RegistryInv, R!TypeOK, R!Range, ChannelsFit, KeysFit, EntriesFit, RefusalsFit

LEMMA RegistryConstants ==
  /\ MaxId \in Nat /\ MaxEdits \in Nat /\ MaxPending \in Nat
  /\ PresetName \in Name /\ Home \in Route /\ None \notin Secret
BY StoreAssumption DEF R!RegistryAssumption

LEMMA RegistryBegins == R!Init => RegistryInv
<1> SUFFICES ASSUME R!Init PROVE RegistryInv
  OBVIOUS
<1>1. /\ channels = <<>> /\ keys = <<>> /\ entries = {}
      /\ given = [channels |-> 0, keys |-> 0]
      /\ refusals = {} /\ edited = {} /\ applying = R!Idle /\ edits = 0
  BY DEF R!Init
<1>2. ChannelsFit /\ KeysFit /\ EntriesFit /\ RefusalsFit
  BY <1>1 DEF ChannelsFit, KeysFit, EntriesFit, RefusalsFit
<1>3. applying \in R!Applying
  BY <1>1 DEF R!Idle, R!Applying
<1>4. R!RefusalIsOwn
  BY <1>1 DEF R!RefusalIsOwn
<1> QED BY <1>1, <1>2, <1>3, <1>4, RegistryConstants DEF RegistryInv

\* Whatever the administrator sends of a channel is a row.
LEMMA FormsAreRows ==
  ASSUME RegistryInv, NEW x \in DOMAIN channels
  PROVE  R!Forms(x) \subseteq R!ChannelRow
<1> DEFINE old == channels[x]
           named(n, r) == [old EXCEPT !.name = n, !.route = r]
           looking(hs, p) == [old EXCEPT !.headers = hs, !.profile = p]
           profiles == {old.profile, "none", "opencode"}
           tables == {t \in R!HeaderTables :
                        \A h \in Header : t[h] \in {old.headers[h], "absent", "user"}}
<1>1. old \in R!ChannelRow
  BY DEF RegistryInv, ChannelsFit
<1>2. \A n \in Name, r \in Route : named(n, r) \in R!ChannelRow
  BY <1>1 DEF R!ChannelRow
<1>3. \A hs \in tables, p \in profiles : looking(hs, p) \in R!ChannelRow
  <2> SUFFICES ASSUME NEW hs \in tables, NEW p \in profiles
               PROVE  looking(hs, p) \in R!ChannelRow
    OBVIOUS
  <2>1. hs \in R!HeaderTables
    OBVIOUS
  <2>2. p \in R!Profile
    BY <1>1 DEF R!ChannelRow, R!Profile
  <2> QED BY <1>1, <2>1, <2>2 DEF R!ChannelRow
<1>4. R!Forms(x) = {named(n, r) : n \in Name, r \in Route}
                     \cup {looking(hs, p) : hs \in tables, p \in profiles}
  BY DEF R!Forms
<1> HIDE DEF named, looking, tables, profiles
<1> QED BY <1>2, <1>3, <1>4

\* What an edit of the channels leaves alone.
LEMMA ChannelEdits ==
  ASSUME RegistryInv, edits' \in 0..MaxEdits,
         \/ \E n \in Name, r \in Route : R!CreateChannel(n, r)
         \/ \E x \in DOMAIN channels :
              \/ R!DeleteChannel(x)
              \/ \E row \in R!ChannelRow : R!UpdateChannel(x, row)
  PROVE  RegistryInv'
<1>1. ASSUME NEW n \in Name, NEW r \in Route, R!CreateChannel(n, r)
      PROVE  RegistryInv'
  <2> DEFINE id == given.channels + 1
             row == R!NewChannel(n, r)
  <2>1. /\ id <= MaxId /\ ~R!NameTaken(n, {})
        /\ channels' = [x \in DOMAIN channels \cup {id} |-> IF x = id THEN row ELSE channels[x]]
        /\ given' = [given EXCEPT !.channels = id]
        /\ UNCHANGED <<keys, entries, refusals, edited, applying>>
    BY <1>1 DEF R!CreateChannel, R!NextId, R!With
  <2>2. /\ given.channels \in 0..MaxId /\ id \in 0..MaxId
        /\ given'.channels = id /\ given'.keys = given.keys
        /\ given' \in [channels : 0..MaxId, keys : 0..MaxId]
    BY <2>1, RegistryConstants DEF RegistryInv
  <2>3. row \in R!ChannelRow /\ row.name = n
    BY DEF R!NewChannel, R!ChannelRow, R!HeaderTables, R!Profile
  <2> HIDE DEF row
  <2>4. ChannelsFit'
    <3>1. DOMAIN channels' \subseteq 1..given'.channels
      BY <2>1, <2>2 DEF RegistryInv, ChannelsFit
    <3>2. \A x \in DOMAIN channels' : channels'[x] \in R!ChannelRow
      BY <2>1, <2>3 DEF RegistryInv, ChannelsFit
    <3>3. \A x, y \in DOMAIN channels' : channels'[x].name = channels'[y].name => x = y
      BY <2>1, <2>3 DEF RegistryInv, ChannelsFit, R!NameTaken
    <3> QED BY <3>1, <3>2, <3>3 DEF ChannelsFit
  <2>5. KeysFit' /\ EntriesFit'
    BY <2>1, <2>2 DEF RegistryInv, KeysFit, EntriesFit
  <2>6. RefusalsFit' /\ R!RefusalIsOwn'
    BY <2>1, <2>2 DEF RegistryInv, RefusalsFit, R!RefusalIsOwn
  <2> QED BY <2>1, <2>2, <2>4, <2>5, <2>6 DEF RegistryInv
<1>2. ASSUME NEW x \in DOMAIN channels, R!DeleteChannel(x)
      PROVE  RegistryInv'
  <2>1. /\ channels' = [y \in DOMAIN channels \ {x} |-> channels[y]]
        /\ keys' = [k \in DOMAIN keys \ R!KeysOf(x) |-> keys[k]]
        /\ entries' = {e \in entries : e[1] # x}
        /\ edited' = edited \ R!KeysOf(x)
        /\ UNCHANGED <<given, refusals, applying>>
    BY <1>2 DEF R!DeleteChannel, R!Without
  <2>2. ChannelsFit'
    BY <2>1 DEF RegistryInv, ChannelsFit
  <2>3. KeysFit'
    BY <2>1 DEF RegistryInv, KeysFit, R!KeysOf
  <2>4. EntriesFit'
    BY <2>1 DEF RegistryInv, EntriesFit
  <2>5. DOMAIN keys' \ edited' \subseteq DOMAIN keys \ edited
    BY <2>1
  <2>6. RefusalsFit' /\ R!RefusalIsOwn'
    BY <2>1, <2>5 DEF RegistryInv, RefusalsFit, R!RefusalIsOwn
  <2> QED BY <2>1, <2>2, <2>3, <2>4, <2>6 DEF RegistryInv
<1>3. ASSUME NEW x \in DOMAIN channels, NEW row \in R!ChannelRow, R!UpdateChannel(x, row)
      PROVE  RegistryInv'
  <2>1. /\ ~R!NameTaken(row.name, {x})
        /\ channels' = [channels EXCEPT ![x] = row]
        /\ UNCHANGED <<keys, entries, given, refusals, edited, applying>>
    BY <1>3 DEF R!UpdateChannel
  <2>4. ChannelsFit'
    <3>1. \A y, z \in DOMAIN channels' : channels'[y].name = channels'[z].name => y = z
      BY <2>1 DEF RegistryInv, ChannelsFit, R!NameTaken
    <3> QED BY <2>1, <3>1 DEF RegistryInv, ChannelsFit
  <2>5. KeysFit' /\ EntriesFit' /\ RefusalsFit' /\ R!RefusalIsOwn'
    BY <2>1 DEF RegistryInv, KeysFit, EntriesFit, RefusalsFit, R!RefusalIsOwn
  <2> QED BY <2>1, <2>4, <2>5 DEF RegistryInv
<1> QED BY <1>1, <1>2, <1>3

\* A new key is at an id past all that were given, so no refusal is on its way to it.
LEMMA KeyAdded ==
  ASSUME RegistryInv, NEW x \in DOMAIN channels', NEW s \in Secret,
         DOMAIN channels \subseteq DOMAIN channels', x \in 1..MaxId,
         given.keys + 1 <= MaxId,
         keys' = R!With(keys, given.keys + 1, R!NewKey(x, s)),
         given'.keys = given.keys + 1, UNCHANGED <<refusals, edited>>
  PROVE  KeysFit' /\ RefusalsFit' /\ R!RefusalIsOwn'
<1> DEFINE id == given.keys + 1
<1>1. keys' = [k \in DOMAIN keys \cup {id} |-> IF k = id THEN R!NewKey(x, s) ELSE keys[k]]
  BY DEF R!With
<1>2. given.keys \in 0..MaxId /\ id \in 1..MaxId /\ id \notin DOMAIN keys
  BY RegistryConstants DEF RegistryInv, KeysFit
<1>3. /\ R!NewKey(x, s) \in R!KeyRow /\ R!NewKey(x, s).channel = x
      /\ R!NewKey(x, s).status = "ok"
  BY DEF R!NewKey, R!KeyRow
<1>4. KeysFit'
  <2>1. DOMAIN keys' \subseteq 1..given'.keys
    BY <1>1, <1>2 DEF RegistryInv, KeysFit
  <2>2. \A k \in DOMAIN keys' : keys'[k] \in R!KeyRow /\ keys'[k].channel \in DOMAIN channels'
    BY <1>1, <1>3 DEF RegistryInv, KeysFit
  <2> QED BY <2>1, <2>2 DEF KeysFit
<1>5. RefusalsFit'
  <2>1. ASSUME NEW r \in refusals
        PROVE  /\ r[1] <= given'.keys
               /\ r[1] \in DOMAIN keys' \ edited' => keys'[r[1]].secret = r[2]
    <3>1. r[1] \in Nat /\ r[1] <= given.keys
      BY RegistryConstants DEF RegistryInv, RefusalsFit
    <3>2. r[1] # id
      BY <1>2, <3>1
    <3> QED BY <1>1, <1>2, <3>1, <3>2 DEF RegistryInv, RefusalsFit
  <2> QED BY <2>1 DEF RegistryInv, RefusalsFit
<1>6. R!RefusalIsOwn'
  BY <1>1, <1>3 DEF RegistryInv, R!RefusalIsOwn
<1> QED BY <1>4, <1>5, <1>6

LEMMA KeyEdits ==
  ASSUME RegistryInv, edits' \in 0..MaxEdits,
         \/ \E x \in DOMAIN channels, s \in Secret : R!CreateKey(x, s)
         \/ \E k \in DOMAIN keys :
              \/ R!TurnOn(k) \/ R!TurnOff(k) \/ R!DeleteKey(k)
              \/ \E s \in Secret : R!ReplaceSecret(k, s)
  PROVE  RegistryInv'
<1>1. ASSUME NEW x \in DOMAIN channels, NEW s \in Secret, R!CreateKey(x, s)
      PROVE  RegistryInv'
  <2>1. /\ given.keys + 1 <= MaxId
        /\ keys' = R!With(keys, given.keys + 1, R!NewKey(x, s))
        /\ given' = [given EXCEPT !.keys = given.keys + 1]
        /\ UNCHANGED <<channels, entries, refusals, edited, applying>>
    BY <1>1 DEF R!CreateKey, R!NextId
  <2>2. /\ given.channels \in 0..MaxId /\ given.keys + 1 \in 0..MaxId
        /\ given'.keys = given.keys + 1 /\ given'.channels = given.channels
        /\ given' \in [channels : 0..MaxId, keys : 0..MaxId]
    BY <2>1, RegistryConstants DEF RegistryInv
  <2>3. x \in 1..MaxId
    BY <2>2, RegistryConstants DEF RegistryInv, ChannelsFit
  <2>4. KeysFit' /\ RefusalsFit' /\ R!RefusalIsOwn'
    BY <2>1, <2>2, <2>3, KeyAdded
  <2>5. ChannelsFit' /\ EntriesFit'
    BY <2>1, <2>2 DEF RegistryInv, ChannelsFit, EntriesFit
  <2> QED BY <2>1, <2>2, <2>4, <2>5 DEF RegistryInv
<1>2. ASSUME NEW k \in DOMAIN keys, R!DeleteKey(k)
      PROVE  RegistryInv'
  <2>1. /\ keys' = [y \in DOMAIN keys \ {k} |-> keys[y]]
        /\ edited' = edited \ {k}
        /\ UNCHANGED <<channels, entries, given, refusals, applying>>
    BY <1>2 DEF R!DeleteKey, R!Without
  <2>2. DOMAIN keys' \ edited' \subseteq DOMAIN keys \ edited
    BY <2>1
  <2>3. ChannelsFit' /\ EntriesFit' /\ KeysFit'
    BY <2>1 DEF RegistryInv, ChannelsFit, EntriesFit, KeysFit
  <2>4. RefusalsFit' /\ R!RefusalIsOwn'
    BY <2>1, <2>2 DEF RegistryInv, RefusalsFit, R!RefusalIsOwn
  <2> QED BY <2>1, <2>3, <2>4 DEF RegistryInv
<1>3. ASSUME NEW k \in DOMAIN keys, R!TurnOn(k) \/ R!TurnOff(k)
      PROVE  RegistryInv'
  <2>1. /\ \/ keys' = [keys EXCEPT ![k].enabled = TRUE, ![k].status = "ok", ![k].by = None]
           \/ keys' = [keys EXCEPT ![k].enabled = FALSE]
        /\ UNCHANGED <<channels, entries, given, refusals, edited, applying>>
    BY <1>3, Zenon DEF R!TurnOn, R!TurnOff
  <2>2. keys[k] \in R!KeyRow
    BY DEF RegistryInv, KeysFit
  <2>3. /\ DOMAIN keys' = DOMAIN keys
        /\ \A y \in DOMAIN keys \ {k} : keys'[y] = keys[y]
        /\ keys'[k] \in R!KeyRow /\ keys'[k].channel = keys[k].channel
        /\ keys'[k].secret = keys[k].secret
        /\ keys'[k].status = "disabled" => keys[k].status = "disabled" /\ keys'[k].by = keys[k].by
    <3>1. CASE keys' = [keys EXCEPT ![k].enabled = TRUE, ![k].status = "ok", ![k].by = None]
      BY <2>2, <3>1 DEF R!KeyRow
    <3>2. CASE keys' = [keys EXCEPT ![k].enabled = FALSE]
      BY <2>2, <3>2 DEF R!KeyRow
    <3> QED BY <2>1, <3>1, <3>2
  <2>4. ChannelsFit' /\ EntriesFit'
    BY <2>1 DEF RegistryInv, ChannelsFit, EntriesFit
  <2>5. KeysFit'
    BY <2>1, <2>3 DEF RegistryInv, KeysFit
  <2>6. RefusalsFit' /\ R!RefusalIsOwn'
    BY <2>1, <2>3 DEF RegistryInv, RefusalsFit, R!RefusalIsOwn
  <2> QED BY <2>1, <2>4, <2>5, <2>6 DEF RegistryInv
<1>4. ASSUME NEW k \in DOMAIN keys, NEW s \in Secret, R!ReplaceSecret(k, s)
      PROVE  RegistryInv'
  <2>1. /\ keys' = [keys EXCEPT ![k].secret = s]
        /\ edited' = edited \cup {k}
        /\ UNCHANGED <<channels, entries, given, refusals, applying>>
    BY <1>4 DEF R!ReplaceSecret
  <2>2. keys[k] \in R!KeyRow /\ k \in 1..MaxId
    BY RegistryConstants DEF RegistryInv, KeysFit
  <2>3. /\ DOMAIN keys' = DOMAIN keys
        /\ \A y \in DOMAIN keys \ {k} : keys'[y] = keys[y]
        /\ keys'[k] \in R!KeyRow /\ keys'[k].channel = keys[k].channel
    BY <2>1, <2>2 DEF R!KeyRow
  <2>4. ChannelsFit' /\ EntriesFit'
    BY <2>1 DEF RegistryInv, ChannelsFit, EntriesFit
  <2>5. KeysFit'
    BY <2>1, <2>3 DEF RegistryInv, KeysFit
  <2>6. RefusalsFit' /\ R!RefusalIsOwn'
    BY <2>1, <2>3 DEF RegistryInv, RefusalsFit, R!RefusalIsOwn
  <2> QED BY <2>1, <2>2, <2>4, <2>5, <2>6 DEF RegistryInv
<1> QED BY <1>1, <1>2, <1>3, <1>4

LEMMA EntryEdits ==
  ASSUME RegistryInv, edits' \in 0..MaxEdits,
         \/ \E x \in DOMAIN channels, m \in Model : R!CreateEntry(x, m)
         \/ \E e \in entries :
              R!DeleteEntry(e[1], e[2]) \/ \E n \in Model : R!UpdateEntry(e[1], e[2], n)
  PROVE  RegistryInv'
<1>1. UNCHANGED <<channels, keys, given, refusals, edited, applying>>
  BY DEF R!CreateEntry, R!DeleteEntry, R!UpdateEntry
<1>2. EntriesFit'
  <2>1. ASSUME NEW x \in DOMAIN channels, NEW m \in Model, R!CreateEntry(x, m)
        PROVE  EntriesFit'
    BY <2>1 DEF R!CreateEntry, RegistryInv, EntriesFit
  <2>2. ASSUME NEW e \in entries, R!DeleteEntry(e[1], e[2])
        PROVE  EntriesFit'
    BY <2>2 DEF R!DeleteEntry, RegistryInv, EntriesFit
  <2>3. ASSUME NEW e \in entries, NEW n \in Model, R!UpdateEntry(e[1], e[2], n)
        PROVE  EntriesFit'
    <3>1. e[1] \in DOMAIN channels
      BY DEF RegistryInv, EntriesFit
    <3> QED BY <2>3, <3>1 DEF R!UpdateEntry, RegistryInv, EntriesFit
  <2> QED BY <2>1, <2>2, <2>3
<1>3. ChannelsFit' /\ KeysFit' /\ RefusalsFit' /\ R!RefusalIsOwn'
  BY <1>1 DEF RegistryInv, ChannelsFit, KeysFit, RefusalsFit, R!RefusalIsOwn
<1> QED BY <1>1, <1>2, <1>3 DEF RegistryInv

LEMMA RegistryAttempts ==
  ASSUME RegistryInv, UNCHANGED edits, R!Attempts
  PROVE  RegistryInv'
<1>1. ASSUME NEW k \in DOMAIN keys, R!Attempt(k)
      PROVE  RegistryInv'
  <2>1. /\ refusals' = refusals \cup {<<k, keys[k].secret>>}
        /\ UNCHANGED <<channels, keys, entries, given, edited, applying>>
    BY <1>1 DEF R!Attempt
  <2>2. k \in 1..MaxId /\ k <= given.keys /\ keys[k].secret \in Secret
    BY RegistryConstants DEF RegistryInv, KeysFit, R!KeyRow
  <2>3. RefusalsFit'
    BY <2>1, <2>2 DEF RegistryInv, RefusalsFit
  <2>4. ChannelsFit' /\ KeysFit' /\ EntriesFit' /\ R!RefusalIsOwn'
    BY <2>1 DEF RegistryInv, ChannelsFit, KeysFit, EntriesFit, R!RefusalIsOwn
  <2> QED BY <2>1, <2>3, <2>4 DEF RegistryInv
<1>2. ASSUME NEW r \in refusals, R!Refuse(r[1], r[2])
      PROVE  RegistryInv'
  <2>0. PICK k, s : k = r[1] /\ s = r[2] /\ s \in Secret
    BY DEF RegistryInv, RefusalsFit
  <2>1. /\ refusals' = refusals \ {<<k, s>>}
        /\ keys' = IF k \in DOMAIN keys
                   THEN [keys EXCEPT ![k].enabled = FALSE, ![k].status = "disabled", ![k].by = s]
                   ELSE keys
        /\ UNCHANGED <<channels, entries, given, edited, applying>>
    BY <1>2, <2>0 DEF R!Refuse
  <2>2. ChannelsFit' /\ EntriesFit'
    BY <2>1 DEF RegistryInv, ChannelsFit, EntriesFit
  <2>3. CASE k \notin DOMAIN keys
    <3>1. KeysFit' /\ RefusalsFit' /\ R!RefusalIsOwn'
      BY <2>1, <2>3 DEF RegistryInv, KeysFit, RefusalsFit, R!RefusalIsOwn
    <3> QED BY <2>1, <2>2, <3>1 DEF RegistryInv
  <2>4. CASE k \in DOMAIN keys
    <3>1. keys[k] \in R!KeyRow
      BY <2>4 DEF RegistryInv, KeysFit
    <3>2. /\ DOMAIN keys' = DOMAIN keys
          /\ \A y \in DOMAIN keys \ {k} : keys'[y] = keys[y]
          /\ keys'[k] \in R!KeyRow /\ keys'[k].channel = keys[k].channel
          /\ keys'[k].secret = keys[k].secret /\ keys'[k].by = s
      BY <2>0, <2>1, <2>4, <3>1 DEF R!KeyRow
    <3>3. KeysFit'
      BY <2>1, <3>2 DEF RegistryInv, KeysFit
    <3>4. k \notin edited => keys[k].secret = s
      BY <2>0, <2>4 DEF RegistryInv, RefusalsFit
    <3>5. RefusalsFit' /\ R!RefusalIsOwn'
      BY <2>1, <3>2, <3>4 DEF RegistryInv, RefusalsFit, R!RefusalIsOwn
    <3> QED BY <2>1, <2>2, <3>3, <3>5 DEF RegistryInv
  <2> QED BY <2>3, <2>4
<1> QED BY <1>1, <1>2 DEF R!Attempts

\* The channel that a preset claims is one of its address, or a new one.
LEMMA ClaimedIsHome ==
  ASSUME RegistryInv
  PROVE  /\ R!AtHome # {} => R!Claimed \in R!AtHome
         /\ R!AtHome = {} => R!Claimed = given.channels + 1
         /\ IsFiniteSet(R!AtHome) /\ R!AtHome \subseteq DOMAIN channels
<1>1. R!AtHome \subseteq DOMAIN channels /\ R!AtHome \subseteq Nat
  BY DEF RegistryInv, ChannelsFit, R!AtHome
<1>2. ASSUME R!AtHome # {}
      PROVE  R!Claimed \in R!AtHome
  <2>1. PICK x \in R!AtHome : \A y \in R!AtHome : ~(<<y, x>> \in OpToRel(<, Nat))
    BY <1>1, <1>2, NatLessThanWellFounded, WFMin, Zenon
  <2>2. ASSUME NEW y \in R!AtHome
        PROVE  x <= y
    <3>1. x \in Nat /\ y \in Nat
      BY <1>1
    <3>2. CASE y < x
      <4>1. <<y, x>> \in {p \in Nat \X Nat : p[1] < p[2]}
        BY <3>1, <3>2
      <4>2. <<y, x>> \in OpToRel(<, Nat)
        BY <4>1 DEF OpToRel
      <4> QED BY <2>1, <4>2, Zenon
    <3> QED BY <3>1, <3>2
  <2>3. R!Claimed = R!Min(R!AtHome)
    BY <1>2 DEF R!Claimed
  <2> QED BY <2>2, <2>3 DEF R!Min
<1>3. IsFiniteSet(1..given.channels)
  BY FS_Interval DEF RegistryInv
<1>4. IsFiniteSet(R!AtHome)
  BY <1>1, <1>3, FS_Subset DEF RegistryInv, ChannelsFit
<1> QED BY <1>1, <1>2, <1>4 DEF R!Claimed, R!NextId

\* Registry counts as this module does.
LEMMA SameRows ==
  \A X : R!Cardinality(X) = Cardinality(X)
BY DEF R!Cardinality, Cardinality

\* What the transaction of a preset does: the claimed channel is there afterwards, and
\* is one of the preset's address.
LEMMA BuildIsWhole ==
  ASSUME RegistryInv, UNCHANGED edits, R!Build
  PROVE  RegistryInv' /\ R!AppliedWhole
<1>0. PICK x : x = R!Claimed
  OBVIOUS
<1> DEFINE id == given.keys + 1
           adds == R!AddsKey(x)
<1>1. /\ applying.at = "checked" /\ ~R!CannotApply(x) /\ x <= MaxId
      /\ R!AddsKey(x) => id <= MaxId
      /\ channels' = R!With(channels, x, R!Claim(x))
      /\ keys' = IF R!AddsKey(x) THEN R!With(keys, id, R!NewKey(x, applying.secret)) ELSE keys
      /\ given' = [channels |-> R!Max({given.channels, x}),
                   keys |-> IF R!AddsKey(x) THEN id ELSE given.keys]
      /\ entries' = entries \cup ({x} \X applying.models)
      /\ applying' = [R!Idle EXCEPT !.at = "done"]
      /\ UNCHANGED <<refusals, edited>>
  BY <1>0 DEF R!Build, R!NextId
<1>2. /\ R!AtHome # {} => x \in R!AtHome
      /\ R!AtHome = {} => x = given.channels + 1
      /\ IsFiniteSet(R!AtHome) /\ R!AtHome \subseteq DOMAIN channels
  BY <1>0, ClaimedIsHome
<1>3. /\ given.channels \in 0..MaxId /\ given.keys \in 0..MaxId /\ MaxId \in Nat
      /\ x \in 1..MaxId
      /\ x \in DOMAIN channels <=> R!AtHome # {}
      /\ x \notin DOMAIN channels => x = given.channels + 1
  BY <1>1, <1>2, RegistryConstants DEF RegistryInv, ChannelsFit
<1>4. /\ R!Max({given.channels, x}) \in {given.channels, x}
      /\ R!Max({given.channels, x}) >= x /\ R!Max({given.channels, x}) >= given.channels
  <2>1. \E m \in {given.channels, x} : \A y \in {given.channels, x} : m >= y
    BY <1>3
  <2> QED BY <2>1 DEF R!Max
<1>5. /\ given'.channels \in 0..MaxId /\ given'.channels >= given.channels
      /\ given'.channels >= x
      /\ given'.keys = IF adds THEN id ELSE given.keys
      /\ given' \in [channels : 0..MaxId, keys : 0..MaxId]
  BY <1>1, <1>3, <1>4
<1>6. channels' = [y \in DOMAIN channels \cup {x} |-> IF y = x THEN R!Claim(x) ELSE channels[y]]
  BY <1>1 DEF R!With
<1>7. /\ R!Claim(x) \in R!ChannelRow /\ R!Claim(x).route = Home
      /\ x \in DOMAIN channels =>
           /\ R!Claim(x).name = channels[x].name /\ R!Claim(x).route = channels[x].route
           /\ \A h \in Header : channels[x].headers[h] # "absent" =>
                R!Claim(x).headers[h] = channels[x].headers[h]
           /\ channels[x].profile = "opencode" => R!Claim(x).profile = "opencode"
      /\ x \notin DOMAIN channels => R!Claim(x).name = PresetName
      /\ \A h \in Header : R!Claim(x).headers[h] # "absent"
      /\ R!Claim(x).profile = "opencode"
  <2>1. CASE x \in DOMAIN channels
    <3>1. channels[x] \in R!ChannelRow /\ channels[x].route = Home
      BY <1>2, <1>3, <2>1 DEF RegistryInv, ChannelsFit, R!AtHome
    <3> DEFINE old == channels[x]
               merged == [h \in Header |->
                            IF old.headers[h] = "absent" THEN "preset" ELSE old.headers[h]]
               profile == IF old.profile \in {"unset", "none"} THEN "opencode" ELSE old.profile
    <3>2. R!Claim(x) = [old EXCEPT !.headers = merged, !.profile = profile]
      BY <2>1 DEF R!Claim
    <3>3. /\ old.headers \in [Header -> {"absent", "user", "preset"}]
          /\ old.profile \in {"unset", "none", "opencode"}
          /\ old = [name |-> old.name, route |-> old.route,
                    headers |-> old.headers, profile |-> old.profile]
          /\ old.name \in Name /\ old.route \in Route
      BY <3>1 DEF R!ChannelRow, R!HeaderTables, R!Profile
    <3>4. merged \in [Header -> {"user", "preset"}] /\ profile = "opencode"
      BY <3>3
    <3> HIDE DEF merged, profile, old
    <3>5. R!Claim(x) = [name |-> old.name, route |-> old.route,
                        headers |-> merged, profile |-> profile]
      BY <3>2, <3>3
    <3>6. R!Claim(x) \in R!ChannelRow
      BY <3>3, <3>4, <3>5 DEF R!ChannelRow, R!HeaderTables, R!Profile
    <3>7. \A h \in Header : old.headers[h] # "absent" => merged[h] = old.headers[h]
      BY DEF merged
    <3>8. \A h \in Header : merged[h] # "absent"
      BY <3>4
    <3> QED BY <2>1, <3>1, <3>4, <3>5, <3>6, <3>7, <3>8 DEF old
  <2>2. CASE x \notin DOMAIN channels
    <3>1. R!Claim(x) = R!Preset
      BY <2>2 DEF R!Claim
    <3> QED BY <2>2, <3>1, RegistryConstants
            DEF R!Preset, R!ChannelRow, R!HeaderTables, R!Profile
  <2> QED BY <2>1, <2>2
<1>8. ChannelsFit'
  <2>1. DOMAIN channels' \subseteq 1..given'.channels
    BY <1>3, <1>5, <1>6 DEF RegistryInv, ChannelsFit
  <2>2. \A y \in DOMAIN channels' : channels'[y] \in R!ChannelRow
    BY <1>6, <1>7 DEF RegistryInv, ChannelsFit
  <2>3. \A y \in DOMAIN channels \ {x} : channels[y].name # R!Claim(x).name
    BY <1>1, <1>7 DEF RegistryInv, ChannelsFit, R!CannotApply, R!NameTaken
  <2>4. \A y, z \in DOMAIN channels' : channels'[y].name = channels'[z].name => y = z
    BY <1>6, <2>3 DEF RegistryInv, ChannelsFit
  <2> QED BY <2>1, <2>2, <2>4 DEF ChannelsFit
<1>9. x \in DOMAIN channels' /\ DOMAIN channels \subseteq DOMAIN channels'
  BY <1>6
<1>10. applying.secret \in Secret \cup {None} /\ applying.models \subseteq Model
  BY DEF RegistryInv, R!Applying
<1>11. KeysFit' /\ RefusalsFit' /\ R!RefusalIsOwn'
  <2>1. CASE adds
    <3>1. applying.secret \in Secret
      BY <1>10, <2>1 DEF R!AddsKey
    <3>2. PICK s \in Secret : s = applying.secret
      BY <3>1
    <3>3. given'.keys = given.keys + 1 /\ given.keys + 1 <= MaxId
          /\ keys' = R!With(keys, given.keys + 1, R!NewKey(x, s))
      BY <1>1, <1>5, <2>1, <3>2
    <3> QED BY <1>1, <1>3, <1>9, <3>3, KeyAdded
  <2>2. CASE ~adds
    <3>1. keys' = keys /\ given'.keys = given.keys
      BY <1>1, <1>5, <2>2
    <3> QED BY <1>1, <1>9, <3>1 DEF RegistryInv, KeysFit, RefusalsFit, R!RefusalIsOwn
  <2> QED BY <2>1, <2>2
<1>12. EntriesFit'
  BY <1>1, <1>9, <1>10 DEF RegistryInv, EntriesFit
<1>13. applying' \in R!Applying /\ applying'.at = "done"
  BY <1>1 DEF R!Idle, R!Applying
<1>14. RegistryInv'
  BY <1>1, <1>5, <1>8, <1>11, <1>12, <1>13 DEF RegistryInv
<1>15. R!AtHome' = R!AtHome \cup {x}
  <2>1. \A y \in DOMAIN channels' : channels'[y].route = Home <=> y \in R!AtHome \cup {x}
    BY <1>6, <1>7 DEF R!AtHome
  <2> QED BY <1>2, <1>9, <2>1 DEF R!AtHome
<1>16. Cardinality(R!AtHome)' = R!Max({1, Cardinality(R!AtHome)})
  <2>1. CASE R!AtHome = {}
    <3>1. Cardinality(R!AtHome) = 0 /\ R!AtHome' = {x}
      BY <1>15, <2>1, FS_EmptySet
    <3>2. Cardinality(R!AtHome') = 1
      BY <3>1, FS_Singleton
    <3>3. R!Max({1, 0}) = 1
      <4>1. \E m \in {1, 0} : \A y \in {1, 0} : m >= y
        OBVIOUS
      <4> QED BY <4>1 DEF R!Max
    <3> QED BY <3>1, <3>2, <3>3
  <2>2. CASE R!AtHome # {}
    <3>1. R!AtHome' = R!AtHome
      BY <1>2, <1>15, <2>2
    <3>2. Cardinality(R!AtHome) \in Nat /\ Cardinality(R!AtHome) # 0
      BY <1>2, <2>2, FS_CardinalityType, FS_EmptySet
    <3> DEFINE size == Cardinality(R!AtHome)
    <3>3. PICK n : n = size
      OBVIOUS
    <3>4. R!Max({1, n}) = n
      <4>1. n \in Nat /\ n >= 1
        BY <3>2, <3>3
      <4>2. \E m \in {1, n} : \A y \in {1, n} : m >= y
        BY <4>1
      <4> QED BY <4>1, <4>2 DEF R!Max
    <3> QED BY <3>1, <3>3, <3>4
  <2> QED BY <2>1, <2>2
<1>17. \A k \in DOMAIN keys : keys'[k] = keys[k]
  BY <1>1 DEF R!With, RegistryInv, KeysFit
<1>18. R!KeysOf(x)' # {}
  <2>1. CASE adds
    <3>1. keys' = [k \in DOMAIN keys \cup {id} |->
                     IF k = id THEN R!NewKey(x, applying.secret) ELSE keys[k]]
      BY <1>1, <2>1 DEF R!With
    <3>2. id \in DOMAIN keys' /\ keys'[id].channel = x
      BY <3>1 DEF R!NewKey
    <3> QED BY <3>2 DEF R!KeysOf
  <2>2. CASE ~adds
    <3>1. keys' = keys
      BY <1>1, <2>2
    <3>2. R!KeysOf(x) # {}
      BY <1>1, <2>2 DEF R!AddsKey, R!CannotApply
    <3> QED BY <3>1, <3>2 DEF R!KeysOf
  <2> QED BY <2>1, <2>2
<1>19. \A y \in DOMAIN channels :
         /\ channels'[y].name = channels[y].name /\ channels'[y].route = channels[y].route
         /\ \A h \in Header : channels[y].headers[h] # "absent" =>
              channels'[y].headers[h] = channels[y].headers[h]
         /\ channels[y].profile = "opencode" => channels'[y].profile = "opencode"
         /\ y # R!Claimed => channels'[y] = channels[y]
  BY <1>0, <1>6, <1>7
<1>20. (\A h \in Header : channels'[x].headers[h] # "absent")
       /\ channels'[x].profile = "opencode"
  BY <1>6, <1>7
<1>21. x \in R!AtHome' /\ {x} \X applying.models \subseteq entries' /\ entries \subseteq entries'
  BY <1>1, <1>15
<1>22. R!AppliedWhole
  BY <1>13, <1>16, <1>17, <1>18, <1>19, <1>20, <1>21, SameRows DEF R!AppliedWhole
<1> QED BY <1>14, <1>22

LEMMA RegistryStep ==
  ASSUME RegistryInv, R!Next
  PROVE  RegistryInv' /\ R!AppliedWhole
<1>1. ASSUME edits < MaxEdits, edits' = edits + 1, R!Edit
      PROVE  RegistryInv' /\ R!AppliedWhole
  <2>1. edits' \in 0..MaxEdits
    BY <1>1, RegistryConstants DEF RegistryInv
  <2>2. \/ \E n \in Name, r \in Route : R!CreateChannel(n, r)
        \/ \E x \in DOMAIN channels :
             \/ R!DeleteChannel(x)
             \/ \E row \in R!ChannelRow : R!UpdateChannel(x, row)
        \/ \E x \in DOMAIN channels, s \in Secret : R!CreateKey(x, s)
        \/ \E k \in DOMAIN keys :
             \/ R!TurnOn(k) \/ R!TurnOff(k) \/ R!DeleteKey(k)
             \/ \E s \in Secret : R!ReplaceSecret(k, s)
        \/ \E x \in DOMAIN channels, m \in Model : R!CreateEntry(x, m)
        \/ \E e \in entries :
             R!DeleteEntry(e[1], e[2]) \/ \E n \in Model : R!UpdateEntry(e[1], e[2], n)
    BY <1>1, FormsAreRows DEF R!Edit
  <2>3. RegistryInv'
    BY <2>1, <2>2, ChannelEdits, KeyEdits, EntryEdits
  <2>4. applying' = applying
    BY <2>2, Zenon DEF R!CreateChannel, R!DeleteChannel, R!UpdateChannel, R!CreateKey, R!TurnOn,
       R!TurnOff, R!DeleteKey, R!ReplaceSecret, R!CreateEntry, R!DeleteEntry, R!UpdateEntry
  <2> QED BY <2>3, <2>4 DEF R!AppliedWhole
<1>2. ASSUME UNCHANGED edits, R!Attempts
      PROVE  RegistryInv' /\ R!AppliedWhole
  <2>1. applying' = applying
    BY <1>2, Zenon DEF R!Attempts, R!Attempt, R!Refuse
  <2> QED BY <1>2, <2>1, RegistryAttempts DEF R!AppliedWhole
<1>3. ASSUME UNCHANGED edits, NEW s \in Secret \cup {None}, NEW ms \in SUBSET Model,
             R!Check(s, ms)
      PROVE  RegistryInv' /\ R!AppliedWhole
  <2>1. /\ applying' = [at |-> "checked", secret |-> s, models |-> ms]
        /\ UNCHANGED <<channels, keys, entries, given, refusals, edited>>
    BY <1>3 DEF R!Check
  <2>2. applying' \in R!Applying
    BY <2>1 DEF R!Applying
  <2>3. ChannelsFit' /\ KeysFit' /\ EntriesFit' /\ RefusalsFit' /\ R!RefusalIsOwn'
    BY <2>1 DEF RegistryInv, ChannelsFit, KeysFit, EntriesFit, RefusalsFit, R!RefusalIsOwn
  <2>4. RegistryInv'
    BY <1>3, <2>1, <2>2, <2>3 DEF RegistryInv
  <2> QED BY <2>1, <2>4 DEF R!AppliedWhole
<1>4. ASSUME UNCHANGED edits, R!GiveUp
      PROVE  RegistryInv' /\ R!AppliedWhole
  <2>1. /\ applying' = [R!Idle EXCEPT !.at = "failed"]
        /\ UNCHANGED <<channels, keys, entries, given, refusals, edited>>
    BY <1>4 DEF R!GiveUp
  <2>2. applying' \in R!Applying /\ applying'.at = "failed"
    BY <2>1 DEF R!Applying, R!Idle
  <2>3. ChannelsFit' /\ KeysFit' /\ EntriesFit' /\ RefusalsFit' /\ R!RefusalIsOwn'
    BY <2>1 DEF RegistryInv, ChannelsFit, KeysFit, EntriesFit, RefusalsFit, R!RefusalIsOwn
  <2>4. RegistryInv'
    BY <1>4, <2>1, <2>2, <2>3 DEF RegistryInv
  <2> QED BY <2>1, <2>2, <2>4 DEF R!AppliedWhole
<1> QED BY <1>1, <1>2, <1>3, <1>4, BuildIsWhole DEF R!Next, R!Apply

(***************************************************************************)
(* Order.                                                                  *)
(***************************************************************************)
PageOf(at, shown, layers) == [at |-> at, shown |-> shown, layers |-> layers]

PagesAreRecords ==
  /\ page = [a \in Admin |-> PageOf(page[a].at, page[a].shown, page[a].layers)]
  /\ \A a \in Admin : page[a].shown = [id \in DOMAIN page[a].shown |-> page[a].shown[id]]
PagesShowOwners ==
  \A a \in Admin : page[a].at = "open" =>
    \A id \in DOMAIN page[a].shown \cap DOMAIN places : page[a].shown[id] = places[id].owner

\* A row keeps its owner as long as it is there, and no id is given twice; so a row that
\* an open page shows is, if it is still there, the row that it shows.
OrderInv ==
  /\ O!TypeOK
  /\ PagesAreRecords
  /\ PagesShowOwners

LEMMA OrderConstants == MaxRow \in Nat /\ MaxLayers \in Nat /\ FirstPlace \in Nat
BY StoreAssumption DEF O!OrderAssumption

LEMMA OrderBegins == O!Init => OrderInv
BY OrderConstants DEF O!Init, OrderInv, PagesAreRecords, PagesShowOwners, O!TypeOK,
   O!Closed, O!Range, PageOf

\* A finite set of naturals has a greatest element: of the sets of what lies above its
\* elements one is minimal, and that one is empty.
LEMMA GreatestExists ==
  ASSUME NEW X, X \subseteq Nat, X # {}, IsFiniteSet(X)
  PROVE  \E m \in X : \A y \in X : m >= y
<1> DEFINE Above(x) == {y \in X : y > x}
           Y == {Above(x) : x \in X}
<1>1. IsWellFoundedOn(StrictSubsetOrdering(X), FiniteSubsetsOf(X))
  BY FS_StrictSubsetOrderingWellFounded
<1>2. Y \subseteq FiniteSubsetsOf(X) /\ Y # {}
  <2>1. FiniteSubsetsOf(X) = SUBSET X
    BY FS_FiniteSubsetsOfFinite
  <2>2. \A U \in Y : U \subseteq X
    OBVIOUS
  <2>3. Y # {}
    OBVIOUS
  <2> HIDE DEF Y
  <2> QED BY <2>1, <2>2, <2>3
<1>3. \E U \in Y : \A V \in Y : ~(<<V, U>> \in StrictSubsetOrdering(X))
  <2> HIDE DEF Y
  <2> QED BY <1>1, <1>2, WFMin
<1>4. PICK m \in X : \A z \in X : ~(<<Above(z), Above(m)>> \in StrictSubsetOrdering(X))
  BY <1>3
<1>5. ASSUME NEW y \in X, y > m
      PROVE  FALSE
  <2>1. Above(y) \subseteq Above(m) /\ Above(y) # Above(m)
    <3>1. y \in Above(m) /\ y \notin Above(y)
      BY <1>5
    <3>2. \A z \in Above(y) : z \in Above(m)
      BY <1>5
    <3> QED BY <3>1, <3>2
  <2>2. <<Above(y), Above(m)>> \in StrictSubsetOrdering(X)
    BY <2>1 DEF StrictSubsetOrdering
  <2> QED BY <1>4, <2>2
<1> QED BY <1>4, <1>5

\* create_search_backend() finds a last place.
LEMMA LastPlaceExists ==
  ASSUME OrderInv
  PROVE  O!AtTheEnd \in Nat
<1> DEFINE X == {places[id].place : id \in DOMAIN places} \cup {0}
<1>1. X \subseteq Nat /\ X # {}
  BY DEF OrderInv, PagesAreRecords, PagesShowOwners, O!TypeOK, O!Row, O!Range
<1>2. IsFiniteSet(X)
  <2>1. IsFiniteSet(1..lastRow)
    BY FS_Interval DEF OrderInv, O!TypeOK
  <2>2. IsFiniteSet(DOMAIN places)
    BY <2>1, FS_Subset DEF OrderInv, O!TypeOK
  <2>3. IsFiniteSet({places[id].place : id \in DOMAIN places})
    <3> DEFINE Y == {places[id].place : id \in DOMAIN places}
               f == [id \in DOMAIN places |-> places[id].place]
    <3>1. f \in Surjection(DOMAIN places, Y)
      BY DEF Surjection
    <3> HIDE DEF f
    <3> QED BY <2>2, <3>1, FS_Surjection
  <2> QED BY <2>3, FS_AddElement
<1>3. \E m \in X : \A y \in X : m >= y
  <2> HIDE DEF X
  <2> QED BY <1>1, <1>2, GreatestExists
<1>4. O!Max(X) \in X
  BY <1>3 DEF O!Max
<1> QED BY <1>1, <1>4 DEF O!AtTheEnd, O!Step

LEMMA OrderAdd ==
  ASSUME OrderInv, NEW o \in Owner, NEW place \in Nat, O!Add(o, place)
  PROVE  OrderInv'
<1>1. /\ lastRow + 1 <= MaxRow
      /\ places' = [id \in DOMAIN places \cup {lastRow + 1} |->
                      IF id = lastRow + 1 THEN [owner |-> o, place |-> place] ELSE places[id]]
      /\ lastRow' = lastRow + 1
      /\ UNCHANGED page
  BY DEF O!Add, O!NextRow
<1>2. lastRow' \in 0..MaxRow /\ lastRow \in Nat
  BY <1>1, OrderConstants DEF OrderInv, O!TypeOK
<1>3. DOMAIN places' \subseteq 1..lastRow' /\ lastRow + 1 \notin DOMAIN places
  BY <1>1, <1>2 DEF OrderInv, O!TypeOK
<1>4. \A id \in DOMAIN places' : places'[id] \in O!Row
  BY <1>1 DEF OrderInv, PagesAreRecords, PagesShowOwners, O!TypeOK, O!Row, O!Range
<1>5. \A a \in Admin : DOMAIN page[a].shown \subseteq 1..lastRow
  BY DEF OrderInv, O!TypeOK
<1>6. O!TypeOK'
  <2>1. \A a \in Admin : DOMAIN page'[a].shown \subseteq 1..lastRow'
    BY <1>1, <1>2, <1>5
  <2> QED BY <1>1, <1>2, <1>3, <1>4, <2>1 DEF OrderInv, O!TypeOK, O!Range
<1>7. ASSUME NEW a \in Admin, page[a].at = "open",
             NEW id \in DOMAIN page[a].shown \cap DOMAIN places'
      PROVE  page[a].shown[id] = places'[id].owner
  <2>1. id # lastRow + 1
    BY <1>2, <1>5
  <2> QED BY <1>1, <1>7, <2>1 DEF OrderInv, PagesAreRecords, PagesShowOwners
<1> QED BY <1>1, <1>6, <1>7 DEF OrderInv, PagesAreRecords, PagesShowOwners

\* Nothing else gives a row an owner: the rows that are left are as they were but for
\* their places.
LEMMA OrderKeepsOwners ==
  ASSUME OrderInv, UNCHANGED <<lastRow, page>>, DOMAIN places' \subseteq DOMAIN places,
         \A id \in DOMAIN places' : places'[id] \in O!Row /\ places'[id].owner = places[id].owner
  PROVE  OrderInv'
<1>1. O!TypeOK'
  BY DEF OrderInv, O!TypeOK, O!Range
<1> QED BY <1>1 DEF OrderInv, PagesAreRecords, PagesShowOwners

LEMMA OrderEditOrDelete ==
  ASSUME OrderInv,
         \/ \E id \in DOMAIN places : O!Edit(id, FirstPlace)
         \/ \E ids : O!Delete(ids)
  PROVE  OrderInv'
<1>1. \A id \in DOMAIN places : places[id] \in O!Row
  BY DEF OrderInv, O!TypeOK, O!Range
<1>2. ASSUME NEW id \in DOMAIN places, O!Edit(id, FirstPlace)
      PROVE  OrderInv'
  <2>1. places' = [places EXCEPT ![id].place = FirstPlace] /\ UNCHANGED <<lastRow, page>>
    BY <1>2 DEF O!Edit
  <2>2. \A x \in DOMAIN places' : places'[x] \in O!Row /\ places'[x].owner = places[x].owner
    BY <1>1, <2>1, OrderConstants DEF O!Row
  <2> QED BY <2>1, <2>2, OrderKeepsOwners
<1>3. ASSUME NEW ids, O!Delete(ids)
      PROVE  OrderInv'
  BY <1>1, <1>3, OrderKeepsOwners DEF O!Delete
<1> QED BY <1>2, <1>3

LEMMA OrderOpen ==
  ASSUME OrderInv, NEW a \in Admin, O!Open(a)
  PROVE  OrderInv'
<1> DEFINE shown == [id \in DOMAIN places |-> places[id].owner]
<1>1. /\ page' = [page EXCEPT ![a] = PageOf("open", shown, <<>>)]
      /\ UNCHANGED <<places, lastRow>>
  BY DEF O!Open, O!Owners, PageOf
<1>2. /\ page'[a] = PageOf("open", shown, <<>>)
      /\ \A b \in Admin \ {a} : page'[b] = page[b]
      /\ page' = [b \in Admin |-> PageOf(page'[b].at, page'[b].shown, page'[b].layers)]
  BY <1>1 DEF OrderInv, PagesAreRecords, PagesShowOwners, PageOf
<1>3. DOMAIN shown \subseteq 1..lastRow /\ shown = [id \in DOMAIN shown |-> shown[id]]
  BY DEF OrderInv, O!TypeOK
<1>4. O!TypeOK'
  BY <1>1, <1>2, <1>3 DEF OrderInv, PagesAreRecords, PagesShowOwners, O!TypeOK, PageOf
<1>5. \A b \in Admin : page'[b].shown = [id \in DOMAIN page'[b].shown |-> page'[b].shown[id]]
  BY <1>2, <1>3 DEF OrderInv, PagesAreRecords, PagesShowOwners, PageOf
<1>6. \A b \in Admin : page'[b].at = "open" =>
        \A id \in DOMAIN page'[b].shown \cap DOMAIN places' : page'[b].shown[id] = places'[id].owner
  BY <1>1, <1>2 DEF OrderInv, PagesAreRecords, PagesShowOwners, PageOf
<1> QED BY <1>2, <1>4, <1>5, <1>6 DEF OrderInv, PagesAreRecords, PagesShowOwners

\* An order is of rows in layers, each in one of them.
LEMMA LayersAreOfAll ==
  ASSUME NEW ids, NEW ls \in O!Layers(ids), NEW x \in ids
  PROVE  O!LayerOf(ls, x) \in Nat /\ O!LayerOf(ls, x) \in DOMAIN ls /\ x \in ls[O!LayerOf(ls, x)]
<1>1. UNION O!Range(ls) = ids
  BY DEF O!Layers
<1>2. PICK n \in 0..MaxLayers : ls \in [1..n -> SUBSET ids]
  BY DEF O!Layers
<1>3. \E i \in DOMAIN ls : x \in ls[i]
  BY <1>1 DEF O!Range
<1>4. O!LayerOf(ls, x) \in DOMAIN ls /\ x \in ls[O!LayerOf(ls, x)]
  BY <1>3 DEF O!LayerOf
<1> QED BY <1>2, <1>4, OrderConstants

LEMMA OrderReorder ==
  ASSUME OrderInv, NEW a \in Admin, NEW ls \in O!Layers(DOMAIN page[a].shown), O!Reorder(a, ls)
  PROVE  OrderInv' /\ O!OrderAsShown
<1>1. page[a].at = "open" /\ lastRow' = lastRow
  BY DEF O!Reorder
<1>2. \A id \in DOMAIN places : places[id] \in O!Row
  BY DEF OrderInv, O!TypeOK, O!Range
<1>3. CASE DOMAIN page[a].shown = DOMAIN places
  <2>1. /\ places' = [id \in DOMAIN places |->
                        IF \E i \in DOMAIN ls : id \in ls[i]
                        THEN [places[id] EXCEPT !.place = O!Step * O!LayerOf(ls, id)]
                        ELSE places[id]]
        /\ page' = [page EXCEPT ![a].at = "done", ![a].layers = ls]
    BY <1>3 DEF O!Reorder, O!Accepts
  <2>2. /\ page'[a] = PageOf("done", page[a].shown, ls)
        /\ \A b \in Admin \ {a} : page'[b] = page[b]
        /\ page' = [b \in Admin |-> PageOf(page'[b].at, page'[b].shown, page'[b].layers)]
    <3>1. page[a] = PageOf(page[a].at, page[a].shown, page[a].layers) /\ DOMAIN page = Admin
      BY DEF OrderInv, PagesAreRecords, PagesShowOwners
    <3>2. /\ page'[a] = [page[a] EXCEPT !.at = "done", !.layers = ls]
          /\ \A b \in Admin \ {a} : page'[b] = page[b]
          /\ page' = [b \in Admin |-> page'[b]]
      BY <2>1, <3>1
    <3>3. page'[a] = PageOf("done", page[a].shown, ls)
      BY <3>1, <3>2 DEF PageOf
    <3>4. \A b \in Admin : page'[b] = PageOf(page'[b].at, page'[b].shown, page'[b].layers)
      <4>1. \A b \in Admin : page[b] = PageOf(page[b].at, page[b].shown, page[b].layers)
        BY DEF OrderInv, PagesAreRecords, PagesShowOwners
      <4>2. page'[a] = PageOf(page'[a].at, page'[a].shown, page'[a].layers)
        BY <3>3 DEF PageOf
      <4> QED BY <3>2, <4>1, <4>2
    <3> QED BY <3>2, <3>3, <3>4
  <2>3. ASSUME NEW id \in DOMAIN places
        PROVE  /\ O!LayerOf(ls, id) \in Nat
               /\ places'[id] = [places[id] EXCEPT !.place = O!Step * O!LayerOf(ls, id)]
    <3>1. O!LayerOf(ls, id) \in Nat /\ \E i \in DOMAIN ls : id \in ls[i]
      BY <1>3, LayersAreOfAll
    <3> QED BY <2>1, <3>1
  <2>4. ASSUME NEW id \in DOMAIN places
        PROVE  /\ places'[id] \in O!Row /\ places'[id].owner = places[id].owner
               /\ places'[id].place = 10 * O!LayerOf(ls, id)
    <3>1. \A n \in Nat : 10 * n \in Nat
      OBVIOUS
    <3>2. 10 * O!LayerOf(ls, id) \in Nat
      BY <2>3, <3>1
    <3> QED BY <1>2, <2>3, <3>2 DEF O!Row, O!Step
  <2>5. DOMAIN places' = DOMAIN places
    BY <2>1
  <2>6. O!TypeOK'
    BY <1>1, <2>2, <2>4, <2>5 DEF OrderInv, PagesAreRecords, O!TypeOK, O!Range, PageOf
  <2>7. \A b \in Admin :
          page'[b].shown = page[b].shown /\ (page'[b].at = "open" => page[b].at = "open")
    BY <2>2 DEF PageOf
  <2>8. OrderInv'
    BY <2>2, <2>4, <2>5, <2>6, <2>7 DEF OrderInv, PagesAreRecords, PagesShowOwners
  <2>9. O!Owners(places) = page[a].shown
    <3>1. \A id \in DOMAIN places : page[a].shown[id] = places[id].owner
      BY <1>1, <1>3 DEF OrderInv, PagesAreRecords, PagesShowOwners
    <3>2. page[a].shown = [id \in DOMAIN page[a].shown |-> page[a].shown[id]]
      BY DEF OrderInv, PagesAreRecords, PagesShowOwners
    <3> QED BY <1>3, <3>1, <3>2 DEF O!Owners
  <2>10. \A x, y \in DOMAIN places' :
           places'[x].place < places'[y].place <=> O!LayerOf(ls, x) < O!LayerOf(ls, y)
    <3>1. SUFFICES ASSUME NEW x \in DOMAIN places, NEW y \in DOMAIN places
                   PROVE  places'[x].place < places'[y].place
                            <=> O!LayerOf(ls, x) < O!LayerOf(ls, y)
      BY <2>5
    <3>2. \A m, n \in Nat : 10 * m < 10 * n <=> m < n
      OBVIOUS
    <3>3. places'[x].place = 10 * O!LayerOf(ls, x) /\ places'[y].place = 10 * O!LayerOf(ls, y)
      BY <2>4
    <3>4. O!LayerOf(ls, x) \in Nat /\ O!LayerOf(ls, y) \in Nat
      BY <2>3
    <3> QED BY <3>2, <3>3, <3>4
  <2>11. page'[a].layers = ls /\ page'[a].at = "done"
    BY <2>2 DEF PageOf
  <2> QED BY <2>2, <2>8, <2>9, <2>10, <2>11 DEF O!OrderAsShown
<1>4. CASE DOMAIN page[a].shown # DOMAIN places
  <2>1. page' = [page EXCEPT ![a].at = "conflict"] /\ places' = places
    BY <1>4 DEF O!Reorder, O!Accepts
  <2>2. /\ page'[a] = PageOf("conflict", page[a].shown, page[a].layers)
        /\ \A b \in Admin \ {a} : page'[b] = page[b]
        /\ page' = [b \in Admin |-> PageOf(page'[b].at, page'[b].shown, page'[b].layers)]
    BY <2>1 DEF OrderInv, PagesAreRecords, PagesShowOwners, PageOf
  <2>3. \A b \in Admin :
          page'[b].shown = page[b].shown /\ (page'[b].at = "open" => page[b].at = "open")
    BY <2>2 DEF PageOf
  <2>4. O!TypeOK'
    BY <1>1, <2>1, <2>2 DEF OrderInv, PagesAreRecords, PagesShowOwners, O!TypeOK, PageOf
  <2>5. OrderInv'
    <3>1. PagesAreRecords'
      BY <2>2, <2>3 DEF OrderInv, PagesAreRecords
    <3>2. PagesShowOwners'
      BY <2>1, <2>3 DEF OrderInv, PagesShowOwners
    <3> QED BY <2>4, <3>1, <3>2 DEF OrderInv
  <2>6. \A b \in Admin \ {a} : page'[b].at = page[b].at
    BY <2>2
  <2>7. page'[a].at = "conflict"
    BY <2>2 DEF PageOf
  <2> QED BY <1>4, <2>5, <2>6, <2>7 DEF O!OrderAsShown
<1> QED BY <1>3, <1>4

LEMMA OrderStep ==
  ASSUME OrderInv, O!Next
  PROVE  OrderInv' /\ O!OrderAsShown
<1>1. ASSUME NEW o \in Owner, NEW place \in {FirstPlace, O!AtTheEnd}, O!Add(o, place)
      PROVE  OrderInv' /\ O!OrderAsShown
  <2>1. page' = page
    BY <1>1 DEF O!Add
  <2>2. OrderInv'
    BY <1>1, OrderConstants, LastPlaceExists, OrderAdd
  <2> QED BY <2>1, <2>2 DEF O!OrderAsShown
<1>2. ASSUME \/ \E id \in DOMAIN places : O!Edit(id, FirstPlace)
             \/ \E ids : O!Delete(ids)
      PROVE  OrderInv' /\ O!OrderAsShown
  <2>1. page' = page
    BY <1>2 DEF O!Edit, O!Delete
  <2> QED BY <1>2, <2>1, OrderEditOrDelete DEF O!OrderAsShown
<1>3. ASSUME NEW a \in Admin, O!Open(a)
      PROVE  OrderInv' /\ O!OrderAsShown
  <2>1. page[a].at # "open" /\ \A b \in Admin \ {a} : page'[b] = page[b]
    BY <1>3 DEF O!Open, OrderInv, PagesAreRecords
  <2> QED BY <1>3, <2>1, OrderOpen DEF O!OrderAsShown
<1> QED BY <1>1, <1>2, <1>3, OrderReorder DEF O!Next

(***************************************************************************)
(* Settings.                                                               *)
(***************************************************************************)
\* A change under way has read the row, and as long as it is alone the row is as it read
\* it; the exception is noted when the second of two begins.
ChangeFits(change) ==
  \/ change = S!Nothing
  \/ change \in [what : {"token"}, new : Token, got : S!Row]
  \/ change \in [what : {"options", "import"}, new : S!Row, got : S!Row]

SettingsInv ==
  /\ S!TypeOK
  /\ ChangeFits(inGateway) /\ ChangeFits(inShell)
  /\ inGateway # S!Nothing /\ inShell # S!Nothing => crossed
  /\ ~crossed /\ inGateway # S!Nothing => inGateway.got = settings
  /\ ~crossed /\ inShell # S!Nothing => inShell.got = settings
  /\ S!TokenIsTheLast

LEMMA SettingsBegin == S!Init => SettingsInv
<1> SUFFICES ASSUME S!Init PROVE SettingsInv
  OBVIOUS
<1>1. /\ settings \in [token : {None}, options : Options] /\ form = settings
      /\ inGateway = S!Nothing /\ inShell = S!Nothing
      /\ rotated = None /\ saved = settings.options /\ crossed = FALSE
  BY DEF S!Init
<1>2. S!TypeOK
  BY <1>1 DEF S!TypeOK, S!Row, S!Nothing
<1> QED BY <1>1, <1>2 DEF SettingsInv, ChangeFits, S!TokenIsTheLast

\* What a change writes back is a row, with the token and the options that were last
\* given if it read those.
LEMMA WrittenBack ==
  ASSUME SettingsInv, NEW change, ChangeFits(change), change # S!Nothing, S!WriteBack(change)
  PROVE  /\ settings' \in S!Row /\ rotated' \in Token \cup {None} /\ saved' \in Options
         /\ ~crossed /\ change.got = settings =>
              settings'.token = rotated' /\ settings'.options = saved'
<1>1. /\ settings' = S!Altered(change)
      /\ rotated' = IF change.what = "options" THEN rotated ELSE S!Altered(change).token
      /\ saved' = IF change.what = "token" THEN saved ELSE S!Altered(change).options
  BY DEF S!WriteBack
<1>2. rotated \in Token \cup {None} /\ saved \in Options
  BY DEF SettingsInv, S!TypeOK
<1>3. ~crossed => settings.token = rotated /\ settings.options = saved
  BY DEF SettingsInv, S!TokenIsTheLast
<1>4. CASE change \in [what : {"token"}, new : Token, got : S!Row]
  <2>1. S!Altered(change) = [change.got EXCEPT !.token = change.new] /\ change.what = "token"
    BY <1>4 DEF S!Altered
  <2>2. change.got \in S!Row /\ change.new \in Token
    BY <1>4
  <2> QED BY <1>1, <1>2, <1>3, <2>1, <2>2 DEF S!Row
<1>5. CASE change \in [what : {"options", "import"}, new : S!Row, got : S!Row]
  <2>1. change.got \in S!Row /\ change.new \in S!Row
    BY <1>5
  <2>2. CASE change.what = "options"
    <3>1. S!Altered(change) = [change.new EXCEPT !.token = change.got.token]
      BY <2>2 DEF S!Altered
    <3> QED BY <1>1, <1>2, <1>3, <2>1, <2>2, <3>1 DEF S!Row
  <2>3. CASE change.what = "import"
    <3>1. S!Altered(change) = change.new
      BY <2>3 DEF S!Altered
    <3> QED BY <1>1, <1>2, <1>3, <2>1, <2>3, <3>1 DEF S!Row
  <2> QED BY <1>5, <2>2, <2>3
<1> QED BY <1>4, <1>5 DEF ChangeFits

LEMMA SettingsStep ==
  ASSUME SettingsInv, S!Next
  PROVE  SettingsInv'
<1>1. settings \in S!Row /\ form \in S!Row /\ crossed \in BOOLEAN
  BY DEF SettingsInv, S!TypeOK
<1>2. ASSUME S!OpenForm
      PROVE  SettingsInv'
  BY <1>1, <1>2 DEF S!OpenForm, SettingsInv, S!TypeOK, ChangeFits, S!TokenIsTheLast
<1>3. ASSUME NEW what, NEW new, S!Begin(what, new),
             \/ what = "token" /\ new \in Token
             \/ what \in {"options", "import"} /\ new \in S!Row
      PROVE  SettingsInv'
  <2>1. /\ inGateway = S!Nothing
        /\ inGateway' = [what |-> what, new |-> new, got |-> settings]
        /\ crossed' = (crossed \/ inShell # S!Nothing)
        /\ UNCHANGED <<settings, form, inShell, rotated, saved>>
    BY <1>3 DEF S!Begin
  <2>2. ChangeFits(inGateway') /\ inGateway'.got = settings
    BY <1>1, <1>3, <2>1 DEF ChangeFits
  <2>3. S!TypeOK'
    BY <1>1, <1>3, <2>1 DEF SettingsInv, S!TypeOK
  <2> QED BY <1>1, <2>1, <2>2, <2>3 DEF SettingsInv, S!TokenIsTheLast, ChangeFits
<1>4. ASSUME NEW t \in Token, S!BeginInShell(t)
      PROVE  SettingsInv'
  <2>1. /\ inShell = S!Nothing
        /\ inShell' = [what |-> "token", new |-> t, got |-> settings]
        /\ crossed' = (crossed \/ inGateway # S!Nothing)
        /\ UNCHANGED <<settings, form, inGateway, rotated, saved>>
    BY <1>4 DEF S!BeginInShell
  <2>2. ChangeFits(inShell') /\ inShell'.got = settings
    BY <1>1, <2>1 DEF ChangeFits
  <2>3. S!TypeOK'
    BY <1>1, <2>1 DEF SettingsInv, S!TypeOK
  <2> QED BY <1>1, <2>1, <2>2, <2>3 DEF SettingsInv, S!TokenIsTheLast, ChangeFits
<1>5. ASSUME S!EndInGateway
      PROVE  SettingsInv'
  <2>1. /\ inGateway # S!Nothing /\ S!WriteBack(inGateway)
        /\ inGateway' = S!Nothing
        /\ UNCHANGED <<form, inShell, crossed>>
    BY <1>5 DEF S!EndInGateway
  <2>2. /\ settings' \in S!Row /\ rotated' \in Token \cup {None} /\ saved' \in Options
        /\ ~crossed => settings'.token = rotated' /\ settings'.options = saved'
    BY <2>1, WrittenBack DEF SettingsInv
  <2>3. S!TypeOK'
    BY <2>1, <2>2 DEF SettingsInv, S!TypeOK, S!Nothing
  <2>4. ~crossed => inShell = S!Nothing
    BY <2>1 DEF SettingsInv
  <2> QED BY <2>1, <2>2, <2>3, <2>4 DEF SettingsInv, S!TokenIsTheLast, ChangeFits
<1>6. ASSUME S!EndInShell
      PROVE  SettingsInv'
  <2>1. /\ inShell # S!Nothing /\ S!WriteBack(inShell)
        /\ inShell' = S!Nothing
        /\ UNCHANGED <<form, inGateway, crossed>>
    BY <1>6 DEF S!EndInShell
  <2>2. /\ settings' \in S!Row /\ rotated' \in Token \cup {None} /\ saved' \in Options
        /\ ~crossed => settings'.token = rotated' /\ settings'.options = saved'
    BY <2>1, WrittenBack DEF SettingsInv
  <2>3. S!TypeOK'
    BY <2>1, <2>2 DEF SettingsInv, S!TypeOK, S!Nothing
  <2>4. ~crossed => inGateway = S!Nothing
    BY <2>1 DEF SettingsInv
  <2> QED BY <2>1, <2>2, <2>3, <2>4 DEF SettingsInv, S!TokenIsTheLast, ChangeFits
<1>7. \A o \in Options : [form EXCEPT !.options = o] \in S!Row
  BY <1>1 DEF S!Row
<1> QED BY <1>2, <1>3, <1>4, <1>5, <1>6, <1>7 DEF S!Next

(***************************************************************************)
(* Deploy.                                                                 *)
(***************************************************************************)
UploadRecord ==
  [at : {"waiting", "writing", "written", "checked", "installed", "failed"},
   told : Bundle \cup {None}, body : Bundle \cup {None}, file : Nat, put : Bundle \cup {None}]

\* Whatever is in a file is of a deployment that used it, and so is what was installed.
SpoolFits ==
  \A s \in DOMAIN spool : spool[s] # Broken =>
    \E v \in Upload :
      upload[v].at # "waiting" /\ upload[v].file = s /\ spool[s] = upload[v].body
InstalledFits ==
  \A u \in Upload : upload[u].at = "installed" =>
    \E v \in Upload : /\ upload[v].at # "waiting" /\ upload[v].file = upload[u].file
                      /\ upload[u].put = upload[v].body

DeployInv ==
  /\ D!TypeOK
  /\ upload \in [Upload -> UploadRecord]
  /\ \A u \in Upload : upload[u].at # "waiting" =>
       /\ upload[u].told = upload[u].body /\ upload[u].body \in Bundle
       /\ upload[u].file \in DOMAIN spool
  /\ SpoolFits /\ InstalledFits

LEMMA DeployConstants ==
  /\ Broken \notin Bundle /\ None \notin Token /\ None \notin Bundle /\ MaxSecond \in Nat
BY StoreAssumption DEF D!DeployAssumption

LEMMA DeployBegins == D!Init => DeployInv
BY DeployConstants DEF D!Init, DeployInv, D!TypeOK, D!Waiting, UploadRecord, D!Range, SpoolFits,
   InstalledFits

LEMMA DeployImplies == DeployInv => D!TypeOK /\ D!DeploysAreWhole
<1> SUFFICES ASSUME DeployInv, NEW u \in Upload, upload[u].at = "installed"
             PROVE  upload[u].put \in {upload[v].told : v \in D!Rivals(u) \cup {u}}
  BY DEF DeployInv, D!DeploysAreWhole
<1>1. PICK v \in Upload : /\ upload[v].at # "waiting" /\ upload[v].file = upload[u].file
                           /\ upload[u].put = upload[v].body
  BY DEF DeployInv, InstalledFits
<1>2. v \in D!Rivals(u) \cup {u}
  BY <1>1 DEF D!Rivals
<1>3. upload[u].put = upload[v].told
  BY <1>1 DEF DeployInv
<1> QED BY <1>2, <1>3

\* One deployment moves on and keeps its hash, its body and its file, and whatever is in
\* a file is of one that used it.
LEMMA UploadMoves ==
  ASSUME DeployInv, NEW u \in Upload, NEW n \in UploadRecord,
         upload' = [upload EXCEPT ![u] = n],
         upload[u].at # "waiting", n.at # "waiting",
         n.told = upload[u].told, n.body = upload[u].body, n.file = upload[u].file,
         n.at = "installed" =>
           \E v \in Upload : /\ upload[v].at # "waiting" /\ upload[v].file = n.file
                             /\ n.put = upload[v].body,
         UNCHANGED <<second, token>>,
         DOMAIN spool' = DOMAIN spool,
         \A s \in DOMAIN spool :
           \/ spool'[s] = spool[s]
           \/ spool'[s] = Broken
           \/ \E v \in Upload :
                upload[v].at # "waiting" /\ upload[v].file = s /\ spool'[s] = upload[v].body
  PROVE  DeployInv'
<1>1. /\ upload' \in [Upload -> UploadRecord] /\ upload'[u] = n
      /\ \A v \in Upload \ {u} : upload'[v] = upload[v]
      /\ \A v \in Upload : /\ upload'[v].body = upload[v].body
                           /\ upload'[v].told = upload[v].told
                           /\ upload'[v].file = upload[v].file
                           /\ upload'[v].at # "waiting" <=> upload[v].at # "waiting"
  BY DEF DeployInv
<1>2. SpoolFits'
  <2>1. ASSUME NEW s \in DOMAIN spool, spool'[s] # Broken
        PROVE  \E v \in Upload :
                 upload[v].at # "waiting" /\ upload[v].file = s /\ spool'[s] = upload[v].body
    BY <2>1 DEF DeployInv, SpoolFits
  <2> QED BY <1>1, <2>1 DEF SpoolFits
<1>3. \A v \in Upload : upload'[v].at # "waiting" =>
        /\ upload'[v].told = upload'[v].body /\ upload'[v].body \in Bundle
        /\ upload'[v].file \in DOMAIN spool'
  BY <1>1 DEF DeployInv
<1>4. \A s \in DOMAIN spool' : spool'[s] \in Bundle \cup {Broken}
  BY <1>2, <1>3 DEF SpoolFits
<1>5. D!TypeOK'
  BY <1>1, <1>4 DEF DeployInv, D!TypeOK, D!Range, UploadRecord
<1>6. InstalledFits'
  <2>1. ASSUME NEW v \in Upload, upload'[v].at = "installed"
        PROVE  \E w \in Upload : /\ upload[w].at # "waiting" /\ upload[w].file = upload[v].file
                                 /\ upload'[v].put = upload[w].body
    <3>1. CASE v = u
      BY <1>1, <2>1, <3>1
    <3>2. CASE v # u
      BY <1>1, <2>1, <3>2 DEF DeployInv, InstalledFits
    <3> QED BY <3>1, <3>2
  <2> QED BY <1>1, <2>1 DEF InstalledFits
<1> QED BY <1>1, <1>2, <1>3, <1>5, <1>6 DEF DeployInv

LEMMA DeployReceive ==
  ASSUME DeployInv, NEW u \in Upload, NEW told \in Bundle, NEW body \in Bundle, NEW t,
         D!Receive(u, t, told, body)
  PROVE  DeployInv'
<1>0. PICK n : n = [at |-> "writing", told |-> told, body |-> body, file |-> second, put |-> None]
  OBVIOUS
<1>1. /\ upload[u].at = "waiting" /\ body = told
      /\ upload' = [upload EXCEPT ![u] = n]
      /\ spool' = [s \in DOMAIN spool \cup {second} |-> IF s = second THEN Broken ELSE spool[s]]
      /\ UNCHANGED <<second, token>>
  BY <1>0 DEF D!Receive, D!Accepts, D!With
<1>2. second \in 0..MaxSecond /\ n \in UploadRecord
  BY <1>0, DeployConstants DEF DeployInv, D!TypeOK, UploadRecord
<1>3. /\ upload' \in [Upload -> UploadRecord] /\ upload'[u] = n
      /\ \A v \in Upload \ {u} : upload'[v] = upload[v]
  BY <1>1, <1>2 DEF DeployInv
<1>4. /\ n.at = "writing" /\ n.told = n.body /\ n.body \in Bundle
      /\ n.file = second /\ n.put = None
  BY <1>0, <1>1
<1>5. \A v \in Upload : upload[v].at # "waiting" => v # u /\ upload'[v] = upload[v]
  BY <1>1, <1>3
<1>6. D!TypeOK'
  <2>1. /\ DOMAIN spool' \subseteq 0..second'
        /\ \A s \in DOMAIN spool' : spool'[s] \in Bundle \cup {Broken}
    BY <1>1, <1>2, DeployConstants DEF DeployInv, D!TypeOK, D!Range
  <2>2. D!Range(spool') \subseteq Bundle \cup {Broken}
    BY <2>1 DEF D!Range
  <2>3. \A v \in Upload :
          /\ upload'[v].at \in {"waiting", "writing", "written", "checked", "installed", "failed"}
          /\ upload'[v].put \in Bundle \cup {None}
    BY <1>3 DEF UploadRecord
  <2> QED BY <1>1, <2>1, <2>2, <2>3 DEF DeployInv, D!TypeOK
<1>7. \A v \in Upload : upload'[v].at # "waiting" =>
        /\ upload'[v].told = upload'[v].body /\ upload'[v].body \in Bundle
        /\ upload'[v].file \in DOMAIN spool'
  BY <1>1, <1>3, <1>4 DEF DeployInv
<1>8. SpoolFits'
  <2>1. ASSUME NEW s \in DOMAIN spool, spool[s] # Broken
        PROVE  \E v \in Upload :
                 upload'[v].at # "waiting" /\ upload'[v].file = s /\ spool[s] = upload'[v].body
    BY <1>5, <2>1 DEF DeployInv, SpoolFits
  <2> QED BY <1>1, <2>1 DEF SpoolFits
<1>9. InstalledFits'
  <2>1. ASSUME NEW v \in Upload, upload'[v].at = "installed"
        PROVE  \E w \in Upload : /\ upload'[w].at # "waiting" /\ upload'[w].file = upload'[v].file
                                 /\ upload'[v].put = upload'[w].body
    <3>1. v # u /\ upload'[v] = upload[v]
      BY <1>3, <1>4, <2>1
    <3> QED BY <1>5, <2>1, <3>1 DEF DeployInv, InstalledFits
  <2> QED BY <2>1 DEF InstalledFits
<1> QED BY <1>3, <1>6, <1>7, <1>8, <1>9 DEF DeployInv

LEMMA DeployStep ==
  ASSUME DeployInv, D!Next
  PROVE  DeployInv'
<1>1. ASSUME NEW u \in Upload, NEW triggered \in BOOLEAN, D!Write(u, triggered)
      PROVE  DeployInv'
  <2> DEFINE n == [upload[u] EXCEPT !.at = IF triggered THEN "written" ELSE "failed"]
             file == upload[u].file
  <2>1. PICK content \in {upload[u].body} \cup (IF D!Rivals(u) = {} THEN {} ELSE {Broken}) :
          spool' = [s \in DOMAIN spool \cup {file} |-> IF s = file THEN content ELSE spool[s]]
    BY <1>1 DEF D!Write, D!With
  <2>2. /\ upload[u].at = "writing" /\ upload' = [upload EXCEPT ![u] = n]
        /\ UNCHANGED <<second, token>>
    BY <1>1 DEF D!Write
  <2>3. upload[u] \in UploadRecord /\ file \in DOMAIN spool
    BY <2>2 DEF DeployInv
  <2>4. /\ n \in UploadRecord /\ n.at # "waiting" /\ n.at # "installed"
        /\ n.told = upload[u].told /\ n.body = upload[u].body /\ n.file = upload[u].file
    BY <2>3 DEF UploadRecord
  <2>5. /\ DOMAIN spool' = DOMAIN spool
        /\ \A s \in DOMAIN spool : \/ spool'[s] = spool[s]
                                   \/ spool'[s] = Broken
                                   \/ \E v \in Upload : /\ upload[v].at # "waiting"
                                                        /\ upload[v].file = s
                                                        /\ spool'[s] = upload[v].body
    <3>1. content \in {upload[u].body, Broken}
      BY <2>1
    <3> QED BY <2>1, <2>2, <2>3, <3>1
  <2> HIDE DEF n
  <2> QED BY <2>2, <2>4, <2>5, UploadMoves
<1>2. ASSUME NEW u \in Upload, D!CheckFile(u)
      PROVE  DeployInv'
  <2> DEFINE n == [upload[u] EXCEPT !.at =
                     IF spool[upload[u].file] = upload[u].body THEN "checked" ELSE "failed"]
  <2>1. /\ upload[u].at = "written" /\ upload' = [upload EXCEPT ![u] = n]
        /\ UNCHANGED <<second, spool, token>>
    BY <1>2 DEF D!CheckFile
  <2>2. upload[u] \in UploadRecord
    BY DEF DeployInv
  <2>3. /\ n \in UploadRecord /\ n.at # "waiting" /\ n.at # "installed"
        /\ n.told = upload[u].told /\ n.body = upload[u].body /\ n.file = upload[u].file
    BY <2>2 DEF UploadRecord
  <2> HIDE DEF n
  <2> QED BY <2>1, <2>3, UploadMoves
<1>3. ASSUME NEW u \in Upload, D!Unpack(u)
      PROVE  DeployInv'
  <2>0. PICK content : content = spool[upload[u].file]
    OBVIOUS
  <2> DEFINE n == [upload[u] EXCEPT !.at = IF content = Broken THEN "failed" ELSE "installed",
                                    !.put = IF content = Broken THEN None ELSE content]
  <2>1. /\ upload[u].at = "checked" /\ upload' = [upload EXCEPT ![u] = n]
        /\ UNCHANGED <<second, spool, token>>
    <3>1. upload[u] \in UploadRecord /\ upload \in [Upload -> UploadRecord]
      BY DEF DeployInv
    <3> QED BY <1>3, <2>0, <3>1 DEF D!Unpack
  <2>2. upload[u] \in UploadRecord /\ upload[u].file \in DOMAIN spool
    BY <2>1 DEF DeployInv
  <2>3. content # Broken =>
          /\ content \in Bundle
          /\ \E v \in Upload : /\ upload[v].at # "waiting" /\ upload[v].file = upload[u].file
                               /\ content = upload[v].body
    BY <2>0, <2>2 DEF DeployInv, SpoolFits
  <2>4. /\ n \in UploadRecord /\ n.at # "waiting"
        /\ n.told = upload[u].told /\ n.body = upload[u].body /\ n.file = upload[u].file
        /\ n.at = "installed" => content # Broken /\ n.put = content
    BY <2>2, <2>3 DEF UploadRecord
  <2> HIDE DEF n
  <2> QED BY <2>1, <2>3, <2>4, UploadMoves
<1>4. ASSUME NEW t \in Token, D!Rotate(t)
      PROVE  DeployInv'
  BY <1>4 DEF D!Rotate, DeployInv, D!TypeOK, SpoolFits, InstalledFits
<1>5. ASSUME D!TickSecond
      PROVE  DeployInv'
  <2>1. second' = second + 1 /\ second < MaxSecond /\ UNCHANGED <<spool, upload, token>>
    BY <1>5 DEF D!TickSecond
  <2>2. D!TypeOK'
    BY <2>1, DeployConstants DEF DeployInv, D!TypeOK
  <2> QED BY <2>1, <2>2 DEF DeployInv, SpoolFits, InstalledFits
<1> QED BY <1>1, <1>2, <1>3, <1>4, <1>5, DeployReceive DEF D!Next

(***************************************************************************)
(* Access.                                                                 *)
(***************************************************************************)
\* What can be looked up: some keys, each enabled or not.
Lists == UNION {[X -> BOOLEAN] : X \in SUBSET Secret}
HandlerRecord(latest) ==
  [at : {"free", "changed", "read"}, got : Lists, asOf : 0..latest, mine : 0..latest]

\* A handler reads no table older than its own change, and what it read, or what is
\* served, is the table if there was no change since.
HandlersFit ==
  /\ handling \in [Handler -> HandlerRecord(changes)]
  /\ \A h \in Handler : handling[h].at = "read" =>
       /\ handling[h].mine <= handling[h].asOf
       /\ handling[h].asOf = changes => handling[h].got = C!Downstream
ClientsFit ==
  /\ DOMAIN clients \subseteq 1..MaxSlot
  /\ \A i \in DOMAIN clients :
       /\ clients[i] \in C!ClientRow /\ clients[i].hash \in drawn
       /\ clients[i].plain # None => clients[i].plain = clients[i].hash
  /\ \A i, j \in DOMAIN clients : clients[i].hash = clients[j].hash => i = j
ServedFits ==
  /\ admitted \in [keys : Lists, asOf : 0..changes]
  /\ admitted.asOf < settled => backwards
  /\ admitted.asOf = changes => admitted.keys = C!Downstream

AccessInv ==
  /\ ClientsFit /\ HandlersFit /\ ServedFits
  /\ drawn \subseteq Secret
  /\ changes \in 0..MaxChanges /\ settled \in 0..changes /\ backwards \in BOOLEAN

LEMMA AccessConstants == None \notin Secret /\ MaxSlot \in Nat /\ MaxChanges \in Nat
BY StoreAssumption DEF C!AccessAssumption

LEMMA ListsAreFunctions ==
  /\ \A X \in SUBSET Secret : \A f \in [X -> BOOLEAN] : f \in Lists
  /\ \A f \in Lists : DOMAIN f \subseteq Secret
  /\ <<>> \in Lists
<1>1. \A X \in SUBSET Secret : \A f \in [X -> BOOLEAN] : f \in Lists
  BY DEF Lists
<1>2. \A f \in Lists : DOMAIN f \subseteq Secret
  BY DEF Lists
<1>3. <<>> \in [{} -> BOOLEAN]
  OBVIOUS
<1>4. {} \in SUBSET Secret
  OBVIOUS
<1> QED BY <1>1, <1>2, <1>3, <1>4

LEMMA DownstreamIsList ==
  ASSUME ClientsFit, drawn \subseteq Secret
  PROVE  /\ C!Downstream \in Lists
         /\ DOMAIN C!Downstream = {clients[i].hash : i \in DOMAIN clients}
         /\ \A s \in DOMAIN C!Downstream :
              C!Downstream[s] <=> \E i \in DOMAIN clients : clients[i].hash = s /\ clients[i].on
<1> DEFINE Y == {clients[i].hash : i \in DOMAIN clients}
<1>1. Y \in SUBSET Secret
  BY DEF ClientsFit
<1>2. C!Downstream \in [Y -> BOOLEAN]
  BY DEF C!Downstream
<1>3. C!Downstream \in Lists
  <2> HIDE DEF Y
  <2> QED BY <1>1, <1>2, ListsAreFunctions
<1> QED BY <1>3 DEF C!Downstream

LEMMA AccessImplies == AccessInv => C!TypeOK /\ C!WithdrawnIsRefused
<1> SUFFICES ASSUME AccessInv PROVE C!TypeOK /\ C!WithdrawnIsRefused
  OBVIOUS
<1>1. C!TypeOK
  <2>1. \A h \in Handler :
          /\ handling[h].at \in {"free", "changed", "read"}
          /\ DOMAIN handling[h].got \subseteq Secret
          /\ {handling[h].asOf, handling[h].mine} \subseteq 0..changes
    BY ListsAreFunctions DEF AccessInv, HandlersFit, HandlerRecord
  <2>2. DOMAIN admitted.keys \subseteq Secret /\ admitted.asOf \in 0..changes
    BY ListsAreFunctions DEF AccessInv, ServedFits
  <2>3. DOMAIN clients \subseteq 1..MaxSlot /\ C!Range(clients) \subseteq C!ClientRow
    BY DEF AccessInv, ClientsFit, C!Range
  <2>4. /\ {clients[i].hash : i \in DOMAIN clients} \subseteq drawn
        /\ \A i, j \in DOMAIN clients : clients[i].hash = clients[j].hash => i = j
    BY DEF AccessInv, ClientsFit
  <2> QED BY <2>1, <2>2, <2>3, <2>4 DEF AccessInv, C!TypeOK
<1>2. \A i \in DOMAIN clients : C!Shown(i) # None => C!Shown(i) = clients[i].hash
  BY DEF AccessInv, ClientsFit, C!Shown
<1>3. ASSUME admitted.asOf = changes, NEW s \in Secret
      PROVE  C!LetIn(s) <=> \E i \in DOMAIN clients : clients[i].hash = s /\ clients[i].on
  <2>1. admitted.keys = C!Downstream
    BY <1>3 DEF AccessInv, ServedFits
  <2> QED BY <2>1, DownstreamIsList DEF C!LetIn, AccessInv
<1> QED BY <1>1, <1>2, <1>3 DEF C!WithdrawnIsRefused, AccessInv, ServedFits

LEMMA AccessBegins == C!Init => AccessInv
<1> SUFFICES ASSUME C!Init PROVE AccessInv
  OBVIOUS
<1>1. /\ clients = <<>> /\ drawn = {} /\ changes = 0
      /\ handling = [h \in Handler |-> C!Free]
      /\ admitted = [keys |-> <<>>, asOf |-> 0]
      /\ backwards = FALSE /\ settled = 0
  BY DEF C!Init
<1>2. ClientsFit
  BY <1>1 DEF ClientsFit
<1>3. HandlersFit
  <2>1. C!Free \in HandlerRecord(0) /\ C!Free.at = "free"
    BY ListsAreFunctions DEF C!Free, HandlerRecord
  <2> QED BY <1>1, <2>1 DEF HandlersFit
<1>4. ServedFits
  <2>1. C!Downstream = <<>>
    BY <1>1 DEF C!Downstream
  <2> QED BY <1>1, <2>1, ListsAreFunctions DEF ServedFits
<1>5. changes \in 0..MaxChanges /\ settled \in 0..changes
  BY <1>1, AccessConstants
<1> QED BY <1>1, <1>2, <1>3, <1>4, <1>5 DEF AccessInv

\* Whatever the change is: the others now lag behind, and the one that made it has read
\* nothing yet.
LEMMA AccessMutated ==
  ASSUME AccessInv, NEW h \in Handler, NEW rows, C!Mutated(h, rows),
         ClientsFit', drawn' \subseteq Secret
  PROVE  AccessInv'
<1> DEFINE n == [C!Free EXCEPT !.at = "changed", !.mine = changes + 1]
<1>1. /\ changes < MaxChanges /\ changes' = changes + 1
      /\ handling' = [handling EXCEPT ![h] = n]
      /\ UNCHANGED <<admitted, backwards, settled>>
  BY DEF C!Mutated
<1>2. changes \in Nat /\ changes' \in 0..MaxChanges /\ settled \in 0..changes
  BY <1>1, AccessConstants DEF AccessInv
<1>3. HandlersFit'
  <2>1. n \in HandlerRecord(changes + 1) /\ n.at = "changed"
    <3>1. C!Free \in HandlerRecord(changes + 1)
      BY <1>2, ListsAreFunctions DEF C!Free, HandlerRecord
    <3>2. changes + 1 \in 0..(changes + 1)
      BY <1>2
    <3> QED BY <3>1, <3>2 DEF HandlerRecord
  <2>2. \A g \in Handler : handling[g] \in HandlerRecord(changes + 1)
    BY <1>2 DEF AccessInv, HandlersFit, HandlerRecord
  <2>3. /\ handling' \in [Handler -> HandlerRecord(changes')]
        /\ handling'[h].at = "changed"
        /\ \A g \in Handler \ {h} : handling'[g] = handling[g]
    BY <1>1, <2>1, <2>2 DEF AccessInv, HandlersFit
  <2>4. \A g \in Handler : handling[g].asOf \in 0..changes
    BY DEF AccessInv, HandlersFit, HandlerRecord
  <2> QED BY <1>1, <1>2, <2>3, <2>4 DEF AccessInv, HandlersFit
<1>4. ServedFits'
  <2>1. admitted.asOf \in 0..changes /\ admitted \in [keys : Lists, asOf : 0..changes + 1]
    BY <1>2 DEF AccessInv, ServedFits
  <2> QED BY <1>1, <1>2, <2>1 DEF AccessInv, ServedFits
<1> QED BY <1>1, <1>2, <1>3, <1>4 DEF AccessInv

\* A key that is drawn is nobody's, so that rows do not come to share one.
LEMMA AccessNewRow ==
  ASSUME AccessInv, NEW i \in 1..MaxSlot, NEW s \in Secret \ drawn, NEW row \in C!ClientRow,
         row.hash = s, row.plain \in {s, None},
         clients' = [x \in DOMAIN clients \cup {i} |-> IF x = i THEN row ELSE clients[x]],
         drawn' = drawn \cup {s}
  PROVE  ClientsFit' /\ drawn' \subseteq Secret
<1>1. DOMAIN clients' \subseteq 1..MaxSlot /\ drawn' \subseteq Secret
  BY DEF AccessInv, ClientsFit
<1>2. \A x \in DOMAIN clients' :
        /\ clients'[x] \in C!ClientRow /\ clients'[x].hash \in drawn'
        /\ clients'[x].plain # None => clients'[x].plain = clients'[x].hash
  BY DEF AccessInv, ClientsFit
<1>3. \A x, y \in DOMAIN clients' : clients'[x].hash = clients'[y].hash => x = y
  BY DEF AccessInv, ClientsFit
<1> QED BY <1>1, <1>2, <1>3 DEF ClientsFit

LEMMA AccessChange ==
  ASSUME AccessInv, NEW h \in Handler, NEW i \in 1..MaxSlot,
         \/ \E s \in Secret : C!Rotate(h, i, s)
         \/ \E s \in Secret, on \in BOOLEAN : C!Create(h, i, s, on) \/ C!Import(h, i, s, on)
         \/ \E on \in BOOLEAN : C!Update(h, i, on)
         \/ C!Delete(h, i)
  PROVE  AccessInv'
<1>1. ASSUME NEW s \in Secret, NEW on \in BOOLEAN, C!Create(h, i, s, on) \/ C!Import(h, i, s, on)
      PROVE  AccessInv'
  <2>1. PICK plain \in {s, None} :
          /\ s \notin drawn /\ drawn' = drawn \cup {s}
          /\ C!Mutated(h, C!With(clients, i, C!Row(s, plain, on)))
    BY <1>1 DEF C!Create, C!Import
  <2>2. /\ C!Row(s, plain, on) \in C!ClientRow
        /\ C!Row(s, plain, on).hash = s /\ C!Row(s, plain, on).plain = plain
    BY <2>1 DEF C!Row, C!ClientRow
  <2>3. clients' = [x \in DOMAIN clients \cup {i} |->
                      IF x = i THEN C!Row(s, plain, on) ELSE clients[x]]
    BY <2>1 DEF C!Mutated, C!With
  <2> QED BY <2>1, <2>2, <2>3, AccessNewRow, AccessMutated
<1>2. ASSUME NEW s \in Secret, C!Rotate(h, i, s)
      PROVE  AccessInv'
  <2> DEFINE row == C!Rotated(clients[i], s)
  <2>1. /\ i \in DOMAIN clients /\ s \notin drawn /\ drawn' = drawn \cup {s}
        /\ C!Mutated(h, [clients EXCEPT ![i] = row])
    BY <1>2 DEF C!Rotate
  <2>2. row \in C!ClientRow /\ row.hash = s /\ row.plain = s
    BY <2>1 DEF AccessInv, ClientsFit, C!ClientRow, C!Rotated
  <2>3. clients' = [x \in DOMAIN clients \cup {i} |-> IF x = i THEN row ELSE clients[x]]
    BY <2>1 DEF C!Mutated
  <2> HIDE DEF row
  <2> QED BY <2>1, <2>2, <2>3, AccessNewRow, AccessMutated
<1>3. ASSUME NEW on \in BOOLEAN, C!Update(h, i, on)
      PROVE  AccessInv'
  <2>1. /\ i \in DOMAIN clients /\ drawn' = drawn
        /\ C!Mutated(h, [clients EXCEPT ![i].on = on])
    BY <1>3 DEF C!Update
  <2>2. clients' = [clients EXCEPT ![i].on = on]
    BY <2>1 DEF C!Mutated
  <2>3. clients[i] \in C!ClientRow
    BY <2>1 DEF AccessInv, ClientsFit
  <2>4. /\ DOMAIN clients' = DOMAIN clients
        /\ \A x \in DOMAIN clients \ {i} : clients'[x] = clients[x]
        /\ clients'[i] \in C!ClientRow /\ clients'[i].hash = clients[i].hash
        /\ clients'[i].plain = clients[i].plain
    BY <2>1, <2>2, <2>3 DEF C!ClientRow
  <2>5. ClientsFit' /\ drawn' \subseteq Secret
    BY <2>1, <2>4 DEF AccessInv, ClientsFit
  <2> QED BY <2>1, <2>5, AccessMutated
<1>4. ASSUME C!Delete(h, i)
      PROVE  AccessInv'
  <2>1. /\ drawn' = drawn
        /\ C!Mutated(h, C!Without(clients, i))
    BY <1>4 DEF C!Delete
  <2>2. clients' = [x \in DOMAIN clients \ {i} |-> clients[x]]
    BY <2>1 DEF C!Mutated, C!Without
  <2>3. ClientsFit' /\ drawn' \subseteq Secret
    BY <2>1, <2>2 DEF AccessInv, ClientsFit
  <2> QED BY <2>1, <2>3, AccessMutated
<1> QED BY <1>1, <1>2, <1>3, <1>4

LEMMA AccessReload ==
  ASSUME AccessInv, NEW h \in Handler, C!Read(h) \/ C!ReadFails(h) \/ C!Publish(h)
  PROVE  AccessInv'
<1>1. handling[h] \in HandlerRecord(changes) /\ changes \in Nat
  BY DEF AccessInv, HandlersFit
<1>2. UNCHANGED <<clients, drawn, changes>>
  BY DEF C!Read, C!ReadFails, C!Publish
<1>3. C!Downstream' = C!Downstream /\ C!Downstream \in Lists
  BY <1>2, DownstreamIsList DEF C!Downstream, AccessInv
<1>4. ClientsFit'
  BY <1>2 DEF AccessInv, ClientsFit
<1>5. C!Free \in HandlerRecord(changes) /\ C!Free.at = "free"
  BY <1>1, ListsAreFunctions DEF C!Free, HandlerRecord
<1>6. CASE C!Read(h)
  <2> DEFINE n == [handling[h] EXCEPT !.at = "read", !.got = C!Downstream, !.asOf = changes]
  <2>1. /\ handling' = [handling EXCEPT ![h] = n]
        /\ UNCHANGED <<admitted, backwards, settled>>
    BY <1>6 DEF C!Read, AccessInv, HandlersFit
  <2>2. /\ n \in HandlerRecord(changes) /\ n.at = "read" /\ n.got = C!Downstream
        /\ n.asOf = changes /\ n.mine \in 0..changes
    <3>1. /\ n \in [at : {"free", "changed", "read"}, got : Lists,
                   asOf : 0..changes, mine : 0..changes]
          /\ n.at = "read" /\ n.got = C!Downstream /\ n.asOf = changes
      <4>1. PICK list \in Lists : list = C!Downstream
        BY <1>3
      <4>2. PICK m : m = [handling[h] EXCEPT !.at = "read", !.got = list]
        OBVIOUS
      <4>3. m \in HandlerRecord(changes) /\ m.at = "read" /\ m.got = list
        BY <1>1, <4>1, <4>2 DEF HandlerRecord
      <4>4. n = [m EXCEPT !.asOf = changes] /\ changes \in 0..changes
        BY <1>1, <4>1, <4>2
      <4> HIDE DEF n
      <4> QED BY <4>1, <4>3, <4>4 DEF HandlerRecord
    <3> HIDE DEF n
    <3> QED BY <3>1 DEF HandlerRecord
  <2> HIDE DEF n
  <2>3. HandlersFit'
    BY <1>2, <1>3, <2>1, <2>2 DEF AccessInv, HandlersFit
  <2>4. ServedFits'
    BY <1>2, <1>3, <2>1 DEF AccessInv, ServedFits
  <2> QED BY <1>2, <1>4, <2>1, <2>3, <2>4 DEF AccessInv
<1>7. ASSUME handling' = [handling EXCEPT ![h] = C!Free]
      PROVE  HandlersFit'
  BY <1>2, <1>3, <1>5, <1>7 DEF AccessInv, HandlersFit
<1>8. CASE C!ReadFails(h)
  <2>1. ServedFits'
    BY <1>2, <1>3, <1>8 DEF AccessInv, ServedFits, C!ReadFails
  <2> QED BY <1>2, <1>4, <1>7, <1>8, <2>1 DEF AccessInv, C!ReadFails
<1>9. CASE C!Publish(h)
  <2>0. PICK mine : mine = handling[h]
    OBVIOUS
  <2>1. /\ mine.at = "read"
        /\ admitted' = [keys |-> mine.got, asOf |-> mine.asOf]
        /\ settled' = IF mine.mine > settled THEN mine.mine ELSE settled
        /\ backwards' = (mine.asOf < admitted.asOf \/ (backwards /\ mine.asOf < settled'))
        /\ handling' = [handling EXCEPT ![h] = C!Free]
    BY <1>9, <2>0 DEF C!Publish
  <2>2. /\ mine.got \in Lists /\ mine.asOf \in 0..changes /\ mine.mine \in 0..changes
        /\ mine.mine <= mine.asOf
        /\ mine.asOf = changes => mine.got = C!Downstream
    BY <1>1, <2>0, <2>1 DEF HandlerRecord, AccessInv, HandlersFit
  <2>3. /\ settled \in 0..changes /\ admitted.asOf \in 0..changes
        /\ admitted.asOf < settled => backwards
    BY DEF AccessInv, ServedFits
  <2>4. settled' \in 0..changes /\ backwards' \in BOOLEAN
    BY <2>1, <2>2, <2>3
  <2>5. mine.asOf < settled' => backwards'
    <3>1. SUFFICES ASSUME mine.asOf < settled' PROVE mine.asOf < admitted.asOf \/ backwards
      BY <2>1
    <3>2. mine.asOf < settled
      BY <2>1, <2>2, <2>3, <3>1
    <3> QED BY <2>2, <2>3, <3>2
  <2>6. admitted' \in [keys : Lists, asOf : 0..changes'] /\ admitted'.asOf = mine.asOf
        /\ admitted'.keys = mine.got
    BY <1>2, <2>1, <2>2
  <2>7. ServedFits'
    BY <1>2, <1>3, <2>2, <2>5, <2>6 DEF ServedFits
  <2> QED BY <1>2, <1>4, <1>7, <2>1, <2>4, <2>7 DEF AccessInv
<1> QED BY <1>6, <1>8, <1>9

LEMMA AccessStep == AccessInv /\ C!Next => AccessInv'
BY AccessChange, AccessReload DEF C!Next

(***************************************************************************)
(* The parts together.                                                     *)
(***************************************************************************)
PartsInv ==
  /\ TypeOK
  /\ part = "registry" => RegistryInv
  /\ part = "order" => OrderInv
  /\ part = "auth" => AuthInv
  /\ part = "alerts" => AlerterInv
  /\ part = "access" => AccessInv
  /\ part = "settings" => SettingsInv
  /\ part = "deploy" => DeployInv

LEMMA PartsBegin == StoreInit => PartsInv
<1> SUFFICES ASSUME StoreInit PROVE PartsInv
  OBVIOUS
<1>1. TypeOK
  BY SnapshotAssumption, LoadedType DEF StoreInit, Init, TypeOK, IdleTask, Stage
<1>2. /\ part = "registry" => R!Init
      /\ part = "order" => O!Init
      /\ part = "auth" => A!Init
      /\ part = "alerts" => N!Init
      /\ part = "access" => C!Init
      /\ part = "settings" => S!Init
      /\ part = "deploy" => D!Init
  BY DEF StoreInit
<1> QED BY <1>1, <1>2, RegistryBegins, OrderBegins, AuthBegins, AlerterBegins, AccessBegins,
        SettingsBegin, DeployBegins DEF PartsInv

\* A part whose state stands still keeps its invariant.
LEMMA PartsStandStill ==
  /\ RegistryInv /\ UNCHANGED ofRegistry => RegistryInv'
  /\ OrderInv /\ UNCHANGED ofOrder => OrderInv'
  /\ AuthInv /\ UNCHANGED ofAdminAuth => AuthInv'
  /\ AlerterInv /\ UNCHANGED ofAlerter => AlerterInv'
  /\ AccessInv /\ UNCHANGED ofAccess => AccessInv'
  /\ SettingsInv /\ UNCHANGED ofSettings => SettingsInv'
  /\ DeployInv /\ UNCHANGED ofDeploy => DeployInv'
<1>1. RegistryInv /\ UNCHANGED ofRegistry => RegistryInv'
  BY Zenon DEF ofRegistry, RegistryInv, ChannelsFit, KeysFit, EntriesFit, RefusalsFit,
     R!RefusalIsOwn
<1>2. OrderInv /\ UNCHANGED ofOrder => OrderInv'
  <2>1. ASSUME UNCHANGED ofOrder
        PROVE  /\ O!TypeOK' <=> O!TypeOK
               /\ PagesAreRecords' <=> PagesAreRecords
               /\ PagesShowOwners' <=> PagesShowOwners
    BY <2>1 DEF ofOrder, O!TypeOK, PagesAreRecords, PagesShowOwners
  <2> QED BY <2>1 DEF OrderInv
<1>3. AuthInv /\ UNCHANGED ofAdminAuth => AuthInv'
  <2>1. ASSUME UNCHANGED ofAdminAuth
        PROVE  /\ \A a : Counted(a)' = Counted(a) /\ LoginsOf(a)' = LoginsOf(a)
               /\ A!TypeOK' <=> A!TypeOK
               /\ A!FailuresAreLimited' <=> A!FailuresAreLimited
    BY <2>1 DEF ofAdminAuth, Counted, LoginsOf, A!TypeOK, A!FailuresAreLimited
  <2> QED BY <2>1 DEF ofAdminAuth, AuthInv
<1>4. AlerterInv /\ UNCHANGED ofAlerter => AlerterInv'
  BY Zenon DEF ofAlerter, AlerterInv, N!TypeOK, N!AlertsAreSpaced
<1>5. AccessInv /\ UNCHANGED ofAccess => AccessInv'
  <2>1. ASSUME UNCHANGED ofAccess
        PROVE  /\ C!Downstream' = C!Downstream
               /\ ClientsFit' <=> ClientsFit
    BY <2>1 DEF ofAccess, ClientsFit, C!Downstream
  <2>2. ASSUME UNCHANGED ofAccess
        PROVE  (HandlersFit' <=> HandlersFit) /\ (ServedFits' <=> ServedFits)
    BY <2>1, <2>2 DEF ofAccess, HandlersFit, ServedFits
  <2> QED BY <2>1, <2>2 DEF ofAccess, AccessInv
<1>6. SettingsInv /\ UNCHANGED ofSettings => SettingsInv'
  <2>1. ASSUME UNCHANGED ofSettings
        PROVE  (S!TypeOK' <=> S!TypeOK) /\ (S!TokenIsTheLast' <=> S!TokenIsTheLast)
    BY <2>1 DEF ofSettings, S!TypeOK, S!TokenIsTheLast
  <2> QED BY <2>1 DEF ofSettings, SettingsInv, ChangeFits
<1>7. DeployInv /\ UNCHANGED ofDeploy => DeployInv'
  <2>1. ASSUME UNCHANGED ofDeploy
        PROVE  /\ D!TypeOK' <=> D!TypeOK
               /\ SpoolFits' <=> SpoolFits
               /\ InstalledFits' <=> InstalledFits
    BY <2>1 DEF ofDeploy, D!TypeOK, SpoolFits, InstalledFits
  <2> QED BY <2>1 DEF ofDeploy, DeployInv
<1> QED BY <1>1, <1>2, <1>3, <1>4, <1>5, <1>6, <1>7

LEMMA PartsStep ==
  ASSUME PartsInv, [StoreNext]_<<part, vars, others>>
  PROVE  /\ PartsInv'
         /\ [part = "registry" => R!AppliedWhole]_ofRegistry
         /\ [part = "order" => O!OrderAsShown]_ofOrder
<1>1. /\ part' = part
      /\ (part = "registry" /\ R!Next) \/ UNCHANGED ofRegistry
      /\ (part = "order" /\ O!Next) \/ UNCHANGED ofOrder
      /\ (part = "auth" /\ A!Next) \/ UNCHANGED ofAdminAuth
      /\ (part = "alerts" /\ N!Next) \/ UNCHANGED ofAlerter
      /\ (part = "access" /\ C!Next) \/ UNCHANGED ofAccess
      /\ (part = "settings" /\ S!Next) \/ UNCHANGED ofSettings
      /\ (part = "deploy" /\ D!Next) \/ UNCHANGED ofDeploy
  BY PartSteps
<1>2. TypeOK'
  <2>1. [Next]_vars
    BY Zenon DEF StoreNext, vars
  <2> QED BY <2>1, TypeStep DEF PartsInv
<1>3. part = "registry" => RegistryInv' /\ [R!AppliedWhole]_ofRegistry
  BY <1>1, RegistryStep, PartsStandStill DEF PartsInv
<1>4. part = "order" => OrderInv' /\ [O!OrderAsShown]_ofOrder
  BY <1>1, OrderStep, PartsStandStill DEF PartsInv
<1>5. part = "auth" => AuthInv'
  BY <1>1, AuthStep, PartsStandStill DEF PartsInv
<1>6. part = "alerts" => AlerterInv'
  BY <1>1, AlerterStep, PartsStandStill DEF PartsInv
<1>7. part = "access" => AccessInv'
  BY <1>1, AccessStep, PartsStandStill DEF PartsInv
<1>8. part = "settings" => SettingsInv'
  BY <1>1, SettingsStep, PartsStandStill DEF PartsInv
<1>9. part = "deploy" => DeployInv'
  BY <1>1, DeployStep, PartsStandStill DEF PartsInv
<1> QED BY <1>1, <1>2, <1>3, <1>4, <1>5, <1>6, <1>7, <1>8, <1>9 DEF PartsInv

\* The inductive invariant of every part, whichever part it is.
THEOREM PartsAreKept == StoreSpec => []PartsInv
<1>1. StoreInit => PartsInv
  BY PartsBegin
<1>2. PartsInv /\ [StoreNext]_<<part, vars, others>> => PartsInv'
  BY PartsStep
<1> QED BY <1>1, <1>2, PTL DEF StoreSpec

\* What MCStore declares of the snapshot and of the tables behind the administration:
\* among it that keys belong to channels, that no two channels share a name, and that no
\* id is past the last one given.
THEOREM StoreIsTyped == StoreSpec => []StoreTypeOK
<1>1. PartsInv => StoreTypeOK
  BY RegistryImplies, AuthImplies, AccessImplies
     DEF PartsInv, StoreTypeOK, OrderInv, AlerterInv, SettingsInv, DeployInv
<1> QED BY <1>1, PartsAreKept, PTL

\* The failures of an address within a window are the limit and one for each login that
\* may be under way; and mails of a kind are apart, with none dropped but for one before.
THEOREM LimitsAreHeld == StoreSpec => []LimitsHold
<1>1. PartsInv => LimitsHold
  BY AuthImplies DEF PartsInv, LimitsHold, AlerterInv
<1> QED BY <1>1, PartsAreKept, PTL

\* A session is good exactly until its end, a withdrawn client key is refused but for
\* reloads that end out of order, and a late refusal hits no other key.
THEOREM AccessStaysCurrent == StoreSpec => []AccessIsCurrent
<1>1. PartsInv => AccessIsCurrent
  BY AuthImplies, AccessImplies, RegistryImplies DEF PartsInv, AccessIsCurrent
<1> QED BY <1>1, PartsAreKept, PTL

\* No old page brings back an old deploy token, and a deployment installs what came with
\* its hash or within its second.
THEOREM DeploymentsStayOwn == StoreSpec => []DeploymentsAreOwn
<1>1. PartsInv => DeploymentsAreOwn
  BY DeployImplies DEF PartsInv, DeploymentsAreOwn, SettingsInv
<1> QED BY <1>1, PartsAreKept, PTL

\* A preset and an order of rows are taken wholly or not at all, whatever changes came
\* between the look of the page and its request.
THEOREM PagesAreWhole == StoreSpec => PagesAreTakenWhole
<1>1. PartsInv /\ [StoreNext]_<<part, vars, others>> =>
        /\ [part = "registry" => R!AppliedWhole]_ofRegistry
        /\ [part = "order" => O!OrderAsShown]_ofOrder
  BY PartsStep
<1> QED BY <1>1, PartsAreKept, PTL DEF StoreSpec, PagesAreTakenWhole
===============================================================================
