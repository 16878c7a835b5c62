-------------------------------- MODULE Snapshot --------------------------------
(***************************************************************************)
(* The configuration snapshot of store/mod.rs: the pool that every request *)
(* reads without a lock, the tables it is loaded from, and the two ways in *)
(* which a change reaches it.  An administrator's change writes the tables *)
(* and then reloads; a rejection by an upstream queues a write and spawns  *)
(* a reload, which does not wait for the writer thread.                    *)
(*                                                                         *)
(* Pool::load() runs one SELECT per table, with no transaction around      *)
(* them: each is a step, and the tables may change in between.             *)
(***************************************************************************)
EXTENDS Integers, Sequences

CONSTANTS
  Channel, Key, Entry,  \* rows of channels, upstream_keys and entries
  ChannelOf,            \* the channel of a key or an entry
  Request,              \* slots for the requests in flight
  Task,                 \* slots for the reloads in flight
  QueueCap,             \* WRITE_QUEUE; what the writer has in hand counts
  Faults                \* whether a reload's read of the database may fail

ASSUME SnapshotAssumption ==
  /\ ChannelOf \in [Key \cup Entry -> Channel]
  /\ Channel \cap (Key \cup Entry) = {} /\ Key \cap Entry = {}
  /\ QueueCap \in Nat \ {0} /\ Faults \in BOOLEAN

Row == Channel \cup Key \cup Entry

VARIABLES
  table,     \* the rows that are enabled
  queue,     \* Db::tx: rows to be disabled, not yet committed
  pool,      \* Snapshot::pool: the rows that requests are served from
  request,   \* the plan of a request: the rows it may still try
  task,      \* the reloads in flight: the next SELECT, and the rows loaded so far
  rejected   \* history: the enabled rows whose disabling write is awaited

vars == <<table, queue, pool, request, task, rejected>>

Stage == {"idle", "channels", "keys", "entries", "store"}

TypeOK ==
  /\ table \subseteq Row
  /\ queue \in Seq(Key \cup Entry) /\ Len(queue) <= QueueCap
  /\ pool \subseteq Row
  /\ request \in [Request -> SUBSET (Key \cup Entry)]
  /\ task \in [Task -> [at: Stage, got: SUBSET Row]]
  /\ rejected \subseteq Key \cup Entry

\* An entry whose channel is disabled or has no enabled key does not enter the
\* pool: the entries of `from` that the rows of `got` can serve.
Usable_Any(got, from) == from \cap Entry
Usable(got, from) ==
  {e \in from \cap Entry : /\ ChannelOf[e] \in got
                           /\ \E k \in got \cap Key : ChannelOf[k] = ChannelOf[e]}

\* What Pool::load() makes of tables that stand still.
Loaded(t) == (t \cap (Channel \cup Key)) \cup Usable(t, t)

\* Pool::candidates(): the entries of the pool times the keys of their channels.
Candidates(p) ==
  {c \in (p \cap Entry) \X (p \cap Key) :
     ChannelOf[c[1]] = ChannelOf[c[2]] /\ ChannelOf[c[1]] \in p}

IdleTask == [at |-> "idle", got |-> {}]
Begun == [at |-> "channels", got |-> {}]

Init ==
  /\ table = Row
  /\ queue = <<>>
  /\ pool = Loaded(table)
  /\ request = [r \in Request |-> {}]
  /\ task = [t \in Task |-> IdleTask]
  /\ rejected = {}

-------------------------------------------------------------------------------
\* A request reads the pool and plans its candidates.
Plan(r) ==
  /\ request[r] = {}
  /\ request' = [request EXCEPT ![r] = UNION {{c[1], c[2]} : c \in Candidates(pool)}]
  /\ UNCHANGED <<table, queue, pool, task, rejected>>

Finish(r) ==
  /\ request' = [request EXCEPT ![r] = {}]
  /\ UNCHANGED <<table, queue, pool, task, rejected>>

\* An upstream answers 401 or 403, or takes no thinking parameter: the write
\* that disables the key or the entry is queued, then a reload is spawned.
Reject_Droppable(r, t, x) ==
  /\ x \in request[r] /\ task[t] = IdleTask
  /\ queue' = IF Len(queue) < QueueCap THEN Append(queue, x) ELSE queue
  /\ task' = [task EXCEPT ![t] = Begun]
  /\ rejected' = rejected \cup ({x} \cap table)
  /\ UNCHANGED <<table, pool, request>>
Reject_Unbounded(r, t, x) ==
  /\ x \in request[r] /\ task[t] = IdleTask
  /\ queue' = Append(queue, x)
  /\ task' = [task EXCEPT ![t] = Begun]
  /\ rejected' = rejected \cup ({x} \cap table)
  /\ UNCHANGED <<table, pool, request>>
Reject(r, t, x) ==
  /\ x \in request[r] /\ task[t] = IdleTask
  /\ Len(queue) < QueueCap
  /\ queue' = Append(queue, x)
  /\ task' = [task EXCEPT ![t] = Begun]
  /\ rejected' = rejected \cup ({x} \cap table)
  /\ UNCHANGED <<table, pool, request>>

\* The writer thread commits a batch of the queue.
Commit(n) ==
  LET batch == {queue[i] : i \in 1..n} IN
  /\ table' = table \ batch
  /\ queue' = SubSeq(queue, n + 1, Len(queue))
  /\ rejected' = rejected \ batch
  /\ UNCHANGED <<pool, request, task>>

\* A write of another component in the batch breaks a constraint, and all of
\* the batch is rolled back and gone: see Cooldown.
RollBack(n) ==
  /\ queue' = SubSeq(queue, n + 1, Len(queue))
  /\ rejected' = rejected \ {queue[i] : i \in 1..n}
  /\ UNCHANGED <<table, pool, request, task>>

\* mutate(): the administrator enables or disables a row, then reloads.
Change(t, x) ==
  /\ task[t] = IdleTask
  /\ table' = IF x \in table THEN table \ {x} ELSE table \cup {x}
  /\ task' = [task EXCEPT ![t] = Begun]
  /\ rejected' = rejected \ {x}
  /\ UNCHANGED <<queue, pool, request>>

\* reload(): the three SELECTs of Pool::load()...
Read(t, stage, next, rows) ==
  /\ task[t].at = stage
  /\ task' = [task EXCEPT ![t] = [at |-> next, got |-> @.got \cup rows]]
  /\ UNCHANGED <<table, queue, pool, request, rejected>>

ReadChannels(t) == Read(t, "channels", "keys", table \cap Channel)
ReadKeys(t) == Read(t, "keys", "entries", table \cap Key)
ReadEntries(t) == Read(t, "entries", "store", Usable(task[t].got, table))

\* ... any of which may fail: the old pool stays...
Fail(t) ==
  /\ Faults /\ task[t].at \in {"channels", "keys", "entries"}
  /\ task' = [task EXCEPT ![t] = IdleTask]
  /\ UNCHANGED <<table, queue, pool, request, rejected>>

\* ... and the pointer that is swapped.
Store(t) ==
  /\ task[t].at = "store"
  /\ pool' = task[t].got
  /\ task' = [task EXCEPT ![t] = IdleTask]
  /\ UNCHANGED <<table, queue, request, rejected>>

\* The process starts again; the queue is lost.
Restart ==
  /\ queue' = <<>>
  /\ pool' = Loaded(table)
  /\ request' = [r \in Request |-> {}]
  /\ task' = [t \in Task |-> IdleTask]
  /\ rejected' = {}
  /\ UNCHANGED table

Reload(t) == ReadChannels(t) \/ ReadKeys(t) \/ ReadEntries(t) \/ Fail(t) \/ Store(t)

WriterStep == \E n \in 1..Len(queue) : Commit(n) \/ RollBack(n)

Next ==
  \/ \E r \in Request : Plan(r) \/ Finish(r) \/ \E t \in Task, x \in Row : Reject(r, t, x)
  \/ WriterStep
  \/ \E t \in Task : Reload(t) \/ \E x \in Row : Change(t, x)
  \/ Restart

Spec == Init /\ [][Next]_vars

-------------------------------------------------------------------------------
\* However the reads interleave with changes, an entry of the pool has its
\* channel and a key in it: candidates() offers each entry at least once.
PoolIsClosed ==
  \A e \in pool \cap Entry : \E k \in pool \cap Key : <<e, k>> \in Candidates(pool)

\* The write behind a rejection is never dropped, whatever the load (db.rs:225):
\* it stays queued until the writer takes it, the administrator decides
\* otherwise or the process ends.
RejectionIsQueued == \A x \in rejected : \E i \in 1..Len(queue) : queue[i] = x

\* With nothing queued and no reload in flight, requests are served what the
\* tables say.  admin/mod.rs:2690: the changes of an administrator take effect at once;
\* api/mod.rs:90: once a key is rejected, later requests do not choose it.
ServesTheTables ==
  (queue = <<>> /\ \A t \in Task : task[t] = IdleTask) => pool = Loaded(table)
===============================================================================
