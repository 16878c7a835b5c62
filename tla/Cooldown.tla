-------------------------------- MODULE Cooldown --------------------------------
(***************************************************************************)
(* The cooldowns (upstream key x model) of health/cooldown.rs and the way  *)
(* they reach the database: a map under a mutex, a bounded queue to the    *)
(* writer thread of store/db.rs, and the cooldowns table.                  *)
(*                                                                         *)
(* Requests set cooldowns when an upstream answers with a quota error; the *)
(* administrator clears them and deletes keys; the writer commits batches; *)
(* the hourly maintenance prunes; the process may stop at any instant and  *)
(* restart from the table.  set() sends to the queue with the mutex held,  *)
(* clear() lets go of it first: both are two steps here.                   *)
(***************************************************************************)
EXTENDS Integers, Sequences

CONSTANTS
  Key, Model,   \* the cooldowns are indexed by Key \X Model
  Every,        \* "no restriction", in the filter of clear()
  Worker,       \* slots for the attempts in flight at one time
  Clearer,      \* slots for the reset_health calls in flight
  Deletable,    \* the keys the administrator may delete
  Nobody,       \* the mutex is free
  Hint,         \* durations an upstream may ask for, in ticks
  BackoffBase,  \* BACKOFF_BASE_MS, in ticks
  BackoffMax,   \* BACKOFF_MAX_MS, in ticks
  QueueCap,     \* WRITE_QUEUE; what the writer has in hand counts as queued
  MaxNow,       \* bound on the clock
  MaxHits       \* bound on the hits at which a refusal is still modelled

Pair == Key \X Model
Filter == (Key \cup {Every}) \X (Model \cup {Every})

CooldownAssumption ==
  /\ Key # {} /\ Model # {} /\ Every \notin Key \cup Model
  /\ Nobody \notin Worker
  /\ Deletable \subseteq Key
  /\ Hint \subseteq Nat \ {0}
  /\ BackoffBase \in Nat \ {0} /\ BackoffMax \in Nat \ {0}
  /\ QueueCap \in Nat \ {0}
  /\ MaxNow \in Nat /\ MaxHits \in Nat

VARIABLES
  now,      \* the wall clock
  keys,     \* table upstream_keys: the keys that exist
  rows,     \* table cooldowns: until_ms, 0 for no row
  queue,    \* Db::tx: the cooldown writes not yet committed
  mem,      \* Cooldowns::map; hits = 0 for no entry
  holder,   \* who holds the mutex of the map across a step
  worker,   \* the attempts in flight, and what is left of their cooling
  clearer,  \* clear() calls between the map and the queue: their filter
  excused   \* history: the pairs whose map entry and last write differ, by
            \* one of the two ways in which the code lets them

vars == <<now, keys, rows, queue, mem, holder, worker, clearer, excused>>

\* A queued write: until = 0 clears the pairs the filter covers.
Write == [on: Filter, until: Nat]
Item == [until: Nat, hits: Nat]
NoItem == [until |-> 0, hits |-> 0]
\* An attempt: left counts the set() calls still to make, done those made.
Task == [pc: {"idle", "trying", "insert", "send"}, at: Pair, until: Nat,
         left: 0..2, done: 0..2]

Covers(f, p) == f[1] \in {p[1], Every} /\ f[2] \in {p[2], Every}

\* The last write of q that concerns p, and what p's row holds once q is applied.
Latest(q, p) ==
  {i \in DOMAIN q : Covers(q[i].on, p) /\ \A j \in DOMAIN q : j > i => ~Covers(q[j].on, p)}
After(q, p, old) ==
  IF Latest(q, p) = {} THEN old ELSE q[CHOOSE i \in Latest(q, p) : TRUE].until

\* What the table will hold for p when the writer has caught up.
Destined(p) == After(queue, p, rows[p])

Cooling(p) == mem[p].until > now

TypeOK ==
  /\ now \in Nat
  /\ keys \subseteq Key
  /\ rows \in [Pair -> Nat]
  /\ queue \in Seq(Write) /\ Len(queue) <= QueueCap
  /\ mem \in [Pair -> Item]
  /\ holder \in Worker \cup {Nobody}
  /\ worker \in [Worker -> Task]
  /\ clearer \in [Clearer -> SUBSET Filter]
  /\ excused \subseteq Pair

IdleTask == [pc |-> "idle", at |-> CHOOSE p \in Pair : TRUE, until |-> 0,
             left |-> 0, done |-> 0]

Init ==
  /\ now = 0
  /\ keys = Key
  /\ rows = [p \in Pair |-> 0]
  /\ queue = <<>>
  /\ mem = [p \in Pair |-> NoItem]
  /\ holder = Nobody
  /\ worker = [w \in Worker |-> IdleTask]
  /\ clearer = [c \in Clearer |-> {}]
  /\ excused = {}

-------------------------------------------------------------------------------
\* check() finds no cooldown: the attempt goes to the upstream.
Try(w, p) ==
  /\ worker[w].pc = "idle" /\ holder = Nobody
  /\ p[1] \in keys /\ ~Cooling(p)
  /\ worker' = [worker EXCEPT ![w] = [IdleTask EXCEPT !.pc = "trying", !.at = p]]
  /\ UNCHANGED <<now, keys, rows, queue, mem, holder, clearer, excused>>

\* Any answer that does not cool the key.
Answered(w) ==
  /\ worker[w].pc = "trying"
  /\ worker' = [worker EXCEPT ![w] = IdleTask]
  /\ UNCHANGED <<now, keys, rows, queue, mem, holder, clearer, excused>>

\* CoolKey with a duration from the upstream: one set().
HintedRefusal(w, d) ==
  /\ worker[w].pc = "trying" /\ mem[worker[w].at].hits <= MaxHits
  /\ worker' = [worker EXCEPT ![w].pc = "insert", ![w].until = now + d, ![w].left = 1]
  /\ UNCHANGED <<now, keys, rows, queue, mem, holder, clearer, excused>>

\* BACKOFF_BASE_MS << hits.min(6), at most BACKOFF_MAX_MS.
Doublings == <<1, 2, 4, 8, 16, 32, 64>>
Backoff(hits) ==
  LET shift == IF hits < 6 THEN hits ELSE 6
      long  == BackoffBase * Doublings[shift + 1]
  IN  IF long < BackoffMax THEN long ELSE BackoffMax

\* CoolKey with none: set_backoff() reads the hits and lets go of the mutex,
\* then calls set(); forward::run calls set() again with the same instant.
PlainRefusal(w) ==
  /\ worker[w].pc = "trying" /\ holder = Nobody /\ mem[worker[w].at].hits <= MaxHits
  /\ worker' = [worker EXCEPT ![w].pc = "insert", ![w].left = 2,
                              ![w].until = now + Backoff(mem[worker[w].at].hits + 1)]
  /\ UNCHANGED <<now, keys, rows, queue, mem, holder, clearer, excused>>

\* set() under the mutex, which it keeps...
Insert_Unlocked(w) ==
  LET p == worker[w].at IN
  /\ worker[w].pc = "insert" /\ holder = Nobody
  /\ mem' = [mem EXCEPT ![p] = [until |-> worker[w].until, hits |-> @.hits + 1]]
  /\ holder' = Nobody
  /\ worker' = [worker EXCEPT ![w].pc = "send", ![w].done = @ + 1]
  /\ UNCHANGED <<now, keys, rows, queue, clearer, excused>>
Insert(w) ==
  LET p == worker[w].at IN
  /\ worker[w].pc = "insert" /\ holder = Nobody
  /\ mem' = [mem EXCEPT ![p] = [until |-> worker[w].until, hits |-> @.hits + 1]]
  /\ holder' = w
  /\ worker' = [worker EXCEPT ![w].pc = "send", ![w].done = @ + 1]
  /\ UNCHANGED <<now, keys, rows, queue, clearer, excused>>

Send_Unbounded(w) ==
  LET p == worker[w].at IN
  /\ worker[w].pc = "send"
  /\ queue' = Append(queue, [on |-> p, until |-> worker[w].until])
  /\ holder' = Nobody
  /\ worker' = [worker EXCEPT ![w] = IF worker[w].left = 2
                                     THEN [@ EXCEPT !.pc = "insert", !.left = 1]
                                     ELSE IdleTask]
  /\ excused' = excused \ {p}
  /\ UNCHANGED <<now, keys, rows, mem, clearer>>
\* ... until the queue has taken the write, which blocks while it is full.
Send(w) ==
  LET p == worker[w].at IN
  /\ worker[w].pc = "send" /\ Len(queue) < QueueCap
  /\ queue' = Append(queue, [on |-> p, until |-> worker[w].until])
  /\ holder' = Nobody
  /\ worker' = [worker EXCEPT ![w] = IF worker[w].left = 2
                                     THEN [@ EXCEPT !.pc = "insert", !.left = 1]
                                     ELSE IdleTask]
  /\ excused' = excused \ {p}
  /\ UNCHANGED <<now, keys, rows, mem, clearer>>

\* clear() empties the map and drops the mutex...
Erase(c, f) ==
  /\ clearer[c] = {} /\ holder = Nobody
  /\ mem' = [p \in Pair |-> IF Covers(f, p) THEN NoItem ELSE mem[p]]
  /\ clearer' = [clearer EXCEPT ![c] = {f}]
  /\ UNCHANGED <<now, keys, rows, queue, holder, worker, excused>>

\* ... and only then queues the write: a set() in between is undone by it.
SendClear(c) ==
  /\ Len(queue) < QueueCap
  /\ \E f \in clearer[c] :
       /\ queue' = Append(queue, [on |-> f, until |-> 0])
       /\ excused' = {p \in Pair : IF Covers(f, p) THEN mem[p].hits > 0 ELSE p \in excused}
  /\ clearer' = [clearer EXCEPT ![c] = {}]
  /\ UNCHANGED <<now, keys, rows, mem, holder, worker>>

Accepted_Unchecked(batch) == TRUE
\* Whether the table takes every write of a batch: key_id is a foreign key.
Accepted(batch) ==
  \A i \in DOMAIN batch : batch[i].until > 0 => batch[i].on[1] \in keys

\* The writer thread applies the first n queued writes in one transaction; an
\* error rolls all of them back, and they are gone.
Commit_UnderLock(n) ==
  LET batch == SubSeq(queue, 1, n)
      rest  == SubSeq(queue, n + 1, Len(queue)) IN
  /\ holder = Nobody
  /\ queue' = rest
  /\ rows' = IF Accepted(batch) THEN [p \in Pair |-> After(batch, p, rows[p])] ELSE rows
  /\ excused' = IF Accepted(batch) THEN excused
                ELSE excused \cup {p \in Pair : Latest(batch, p) # {} /\ Latest(rest, p) = {}}
  /\ UNCHANGED <<now, keys, mem, holder, worker, clearer>>
Commit(n) ==
  LET batch == SubSeq(queue, 1, n)
      rest  == SubSeq(queue, n + 1, Len(queue)) IN
  /\ queue' = rest
  /\ rows' = IF Accepted(batch) THEN [p \in Pair |-> After(batch, p, rows[p])] ELSE rows
  /\ excused' = IF Accepted(batch) THEN excused
                ELSE excused \cup {p \in Pair : Latest(batch, p) # {} /\ Latest(rest, p) = {}}
  /\ UNCHANGED <<now, keys, mem, holder, worker, clearer>>

\* The administrator deletes a key; its rows go with it (ON DELETE CASCADE).
DeleteKey(k) ==
  /\ k \in keys \cap Deletable
  /\ keys' = keys \ {k}
  /\ rows' = [p \in Pair |-> IF p[1] = k THEN 0 ELSE rows[p]]
  /\ UNCHANGED <<now, queue, mem, holder, worker, clearer, excused>>

\* The hourly maintenance drops expired entries from the map...
Prune_Boundary ==
  /\ holder = Nobody
  /\ mem' = [p \in Pair |-> IF mem[p].until > now + 1 THEN mem[p] ELSE NoItem]
  /\ UNCHANGED <<now, keys, rows, queue, holder, worker, clearer, excused>>
Prune ==
  /\ holder = Nobody
  /\ mem' = [p \in Pair |-> IF mem[p].until > now THEN mem[p] ELSE NoItem]
  /\ UNCHANGED <<now, keys, rows, queue, holder, worker, clearer, excused>>

\* ... and the daily one from the table.
PruneRows ==
  /\ rows' = [p \in Pair |-> IF rows[p] < now THEN 0 ELSE rows[p]]
  /\ UNCHANGED <<now, keys, queue, mem, holder, worker, clearer, excused>>

\* The process stops, at the drain timeout or otherwise, and starts again:
\* the queue is not drained, load() restores the rows that have not expired.
Restart ==
  /\ queue' = <<>>
  /\ mem' = [p \in Pair |-> IF rows[p] > now THEN [until |-> rows[p], hits |-> 1] ELSE NoItem]
  /\ holder' = Nobody
  /\ worker' = [w \in Worker |-> IdleTask]
  /\ clearer' = [c \in Clearer |-> {}]
  /\ excused' = {}
  /\ UNCHANGED <<now, keys, rows>>

Tick ==
  /\ now < MaxNow
  /\ now' = now + 1
  /\ UNCHANGED <<keys, rows, queue, mem, holder, worker, clearer, excused>>

Step(w) ==
  \/ \E p \in Pair : Try(w, p)
  \/ Answered(w)
  \/ \E d \in Hint : HintedRefusal(w, d)
  \/ PlainRefusal(w)
  \/ Insert(w)

WriterStep == \E n \in 1..Len(queue) : Commit(n)

Next ==
  \/ \E w \in Worker : Step(w) \/ Send(w)
  \/ \E c \in Clearer : SendClear(c) \/ \E f \in Filter : Erase(c, f)
  \/ WriterStep
  \/ \E k \in Key : DeleteKey(k)
  \/ Prune
  \/ PruneRows
  \/ Restart
  \/ Tick

Spec == Init /\ [][Next]_vars

-------------------------------------------------------------------------------
\* set()'s write is on its way: the map is ahead of the queue.
BeingSet(p) == holder # Nobody /\ worker[holder].at = p

\* cooldown.rs:102: a cooldown survives a restart.  Whenever a pair is cooling
\* the last write queued or committed for it carries that instant, but for the
\* two excused ways: a clear() overtaken by a set(), a batch that failed.
CoolingIsDurable ==
  \A p \in Pair : (Cooling(p) /\ p[1] \in keys /\ p \notin excused /\ ~BeingSet(p)) =>
    Destined(p) = mem[p].until

\* Conversely a restart revives nothing: what the table is going to hold, and
\* has not expired, is cooling in the map, save while a clear() is on its way.
NothingComesBack ==
  \A p \in Pair : (/\ Destined(p) > now /\ p \notin excused /\ ~BeingSet(p)
                   /\ \A c \in Clearer : \A f \in clearer[c] : ~Covers(f, p))
    => mem[p].until = Destined(p)

\* No cooldown outlives its key in the table.
RowsHaveKeys == \A p \in Pair : rows[p] > 0 => p[1] \in keys

\* set() waits for room in the queue with the mutex of the map in hand, and all
\* requests wait for the mutex: it can go on, or the writer thread can.
HolderGoesOn == holder # Nobody => ENABLED Send(holder) \/ ENABLED WriterStep

\* What the comments promise, and the code does not keep.
\*
\* db.rs:225 and cooldown.rs:102: the write of a cooldown must land, so that
\* it survives a restart, with no excuse.
CooldownsLand ==
  \A p \in Pair : (Cooling(p) /\ p[1] \in keys /\ ~BeingSet(p)) => Destined(p) = mem[p].until

\* cooldown.rs:24: the hits behind the exponential backoff count the refusals,
\* so one refusal is one hit.
OneHitPerRefusal == \A w \in Worker : worker[w].done <= 1

\* cooldown.rs:7 and :11: a key out of its daily quota is left alone until the
\* quota is reset.  A cooldown only ends early when it is cleared or lost in a
\* restart; no other answer of the upstream shortens it.
NeverShortened ==
  [][\A p \in Pair : (Cooling(p) /\ mem'[p].until < mem[p].until) =>
        \/ mem'[p] = NoItem
        \/ mem'[p].until = rows[p]]_vars
===============================================================================
