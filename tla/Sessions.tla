-------------------------------- MODULE Sessions --------------------------------
(***************************************************************************)
(* The sticky sessions of router/session.rs: the map under a mutex, which  *)
(* candidate last answered each session, and the rows that carry it across *)
(* a restart.  A binding is written when it changes, and at intervals when *)
(* it does not, through the queue to the writer thread of store/db.rs.     *)
(*                                                                         *)
(* set() and prune() let go of the mutex before they queue their write, so *)
(* each is two steps.  set()'s write is dropped when the queue is full.    *)
(***************************************************************************)
EXTENDS Integers, Sequences

CONSTANTS
  Session,
  Target,    \* candidates: entry x key, with their channel and model
  None,      \* no binding
  Worker,    \* requests in the middle of set()
  Interval,  \* PERSIST_INTERVAL_MS, in ticks
  Ttl,       \* Settings::session_ttl_days, in ticks
  QueueCap,  \* WRITE_QUEUE; what the writer has in hand counts as queued
  MaxNow     \* bound on the clock

SessionsAssumption ==
  /\ None \notin Target
  /\ Interval \in Nat \ {0} /\ Ttl \in Nat \ {0}
  /\ QueueCap \in Nat \ {0} /\ MaxNow \in Nat

VARIABLES
  now,      \* the wall clock; the epoch is more than an interval ago
  rows,     \* table sessions: target and updated_ms
  queue,    \* Db::tx: bindings to write, and instants to prune before
  map,      \* Sessions::map
  worker,   \* the bindings that set() has still to queue
  pruner,   \* the instants that prune() has still to queue
  written,  \* history: when each binding was last handed to the queue
  excused   \* history: the sessions whose last write was dropped, overtaken,
            \* rolled back, or pruned from the table alone

vars == <<now, rows, queue, map, worker, pruner, written, excused>>

Binding == [session: Session, to: Target]
NoEntry == [to |-> None, updated |-> 0, persisted |-> 0]
NoRow == [to |-> None, at |-> 0]

TypeOK ==
  /\ now \in Nat
  /\ rows \in [Session -> [to: Target \cup {None}, at: Nat]]
  /\ queue \in Seq([bind: SUBSET Binding, before: Nat]) /\ Len(queue) <= QueueCap
  /\ map \in [Session -> [to: Target \cup {None}, updated: Nat, persisted: Nat]]
  /\ worker \in [Worker -> SUBSET Binding]
  /\ pruner \in SUBSET Nat
  /\ written \in [Session -> Nat]
  /\ excused \subseteq Session

Init ==
  /\ now = Interval
  /\ rows = [s \in Session |-> NoRow]
  /\ queue = <<>>
  /\ map = [s \in Session |-> NoEntry]
  /\ worker = [w \in Worker |-> {}]
  /\ pruner = {}
  /\ written = [s \in Session |-> 0]
  /\ excused = {}

-------------------------------------------------------------------------------
Persists_OnChangeOnly(s, c) == map[s].to # None /\ map[s].to # c
\* Whether set() writes the binding: it is new, has changed, or is due.
Persists(s, c) == map[s].to # c \/ now - map[s].persisted >= Interval

\* record_session(): the candidate that answered, into the map...
Set(w, s, c) ==
  /\ worker[w] = {}
  /\ map' = [map EXCEPT ![s] = [to |-> c, updated |-> now,
                                persisted |-> IF Persists(s, c) THEN now ELSE 0]]
  /\ worker' = [worker EXCEPT ![w] = IF Persists(s, c) THEN {[session |-> s, to |-> c]} ELSE {}]
  /\ written' = [written EXCEPT ![s] = IF Persists(s, c) THEN now ELSE @]
  /\ UNCHANGED <<now, rows, queue, pruner, excused>>

Send_Unbounded(w) ==
  /\ \E b \in worker[w] :
       /\ queue' = Append(queue, [bind |-> {b}, before |-> 0])
       /\ excused' = IF map[b.session].to = b.to
                     THEN excused \ {b.session} ELSE excused \cup {b.session}
  /\ worker' = [worker EXCEPT ![w] = {}]
  /\ UNCHANGED <<now, rows, map, pruner, written>>
\* ... and then into the queue, unless it is full.
Send(w) ==
  /\ \E b \in worker[w] :
       IF Len(queue) < QueueCap
       THEN /\ queue' = Append(queue, [bind |-> {b}, before |-> 0])
            /\ excused' = IF map[b.session].to = b.to
                          THEN excused \ {b.session} ELSE excused \cup {b.session}
       ELSE queue' = queue /\ excused' = excused \cup {b.session}
  /\ worker' = [worker EXCEPT ![w] = {}]
  /\ UNCHANGED <<now, rows, map, pruner, written>>

\* The hourly maintenance: what was not used for the TTL leaves the map...
Prune ==
  /\ pruner = {}
  /\ map' = [s \in Session |-> IF map[s].updated >= now - Ttl THEN map[s] ELSE NoEntry]
  /\ pruner' = {IF now > Ttl THEN now - Ttl ELSE 0}
  /\ UNCHANGED <<now, rows, queue, worker, written, excused>>

\* ... and then the table, by way of the queue.
SendPrune ==
  /\ Len(queue) < QueueCap
  /\ \E t \in pruner : queue' = Append(queue, [bind |-> {}, before |-> t])
  /\ pruner' = {}
  /\ UNCHANGED <<now, rows, map, worker, written, excused>>

\* The rows last written before an instant are deleted: those that the map
\* still holds go on unsaved.
Forget(t) ==
  LET old == {s \in Session : rows[s].to # None /\ rows[s].at < t} IN
  /\ rows' = [s \in Session |-> IF s \in old THEN NoRow ELSE rows[s]]
  /\ excused' = excused \cup {s \in old : map[s].to # None}

Upsert(b) ==
  /\ rows' = [rows EXCEPT ![b.session] = [to |-> b.to, at |-> now]]
  /\ UNCHANGED excused

\* The writer thread applies the oldest write...
Commit ==
  /\ queue # <<>>
  /\ \/ \E b \in Head(queue).bind : Upsert(b)
     \/ Head(queue).bind = {} /\ Forget(Head(queue).before)
  /\ queue' = Tail(queue)
  /\ UNCHANGED <<now, map, worker, pruner, written>>

\* ... or loses its batch to another component's write that fails.
RollBack ==
  /\ queue # <<>>
  /\ queue' = Tail(queue)
  /\ excused' = excused \cup {b.session : b \in Head(queue).bind}
  /\ UNCHANGED <<now, rows, map, worker, pruner, written>>

\* The daily maintenance prunes the table directly.
PruneRows ==
  /\ Forget(now - Ttl)
  /\ UNCHANGED <<now, queue, map, worker, pruner, written>>

\* The process starts again: the queue is lost, load() reads the table.
Restart ==
  /\ queue' = <<>>
  /\ map' = [s \in Session |->
               [to |-> rows[s].to, updated |-> rows[s].at, persisted |-> rows[s].at]]
  /\ worker' = [w \in Worker |-> {}]
  /\ pruner' = {}
  /\ written' = [s \in Session |-> rows[s].at]
  /\ excused' = {}
  /\ UNCHANGED <<now, rows>>

Tick ==
  /\ now < MaxNow
  /\ now' = now + 1
  /\ UNCHANGED <<rows, queue, map, worker, pruner, written, excused>>

\* What goes on when no write fails.
Smooth ==
  \/ \E w \in Worker : Send(w) \/ \E s \in Session, c \in Target : Set(w, s, c)
  \/ Prune \/ SendPrune \/ Commit \/ PruneRows \/ Restart \/ Tick

Next == Smooth \/ RollBack

Spec == Init /\ [][Next]_vars
SmoothSpec == Init /\ [][Smooth]_vars

-------------------------------------------------------------------------------
Latest(s) ==
  {i \in DOMAIN queue : /\ s \in {b.session : b \in queue[i].bind}
                        /\ \A j \in DOMAIN queue : j > i => s \notin {b.session : b \in queue[j].bind}}

\* Where the session will be bound after a restart, once the queue is written.
Destined(s) ==
  IF Latest(s) = {} THEN rows[s].to
  ELSE CHOOSE c \in Target : \E i \in Latest(s) : [session |-> s, to |-> c] \in queue[i].bind

BeingSent(s) == \E w \in Worker : s \in {b.session : b \in worker[w]}

\* session.rs:9: a restart does not shuffle the sessions.  What the table will
\* hold is the binding of the map, however rarely it is written, except where
\* the last write was dropped, overtaken, rolled back or pruned on its own.
BindingIsDurable ==
  \A s \in Session : (map[s].to # None /\ s \notin excused /\ ~BeingSent(s)) =>
    Destined(s) = map[s].to

\* What the comments promise, and the code does not keep.
\*
\* db.rs:225 and session.rs:125: the binding of a session is a write that must
\* land, at once when it changes.  With no write on its way, a row agrees with
\* the map; the code breaks it even when no write fails.
BindingsLand ==
  \A s \in Session : (map[s].to # None /\ rows[s].to # None /\ ~BeingSent(s) /\ queue = <<>>) =>
    rows[s].to = map[s].to

\* session.rs:66: a binding that has not changed is not written again before
\* the interval has passed.
WritesAreThrottled ==
  [][\A s \in Session : (map[s].to = map'[s].to /\ written'[s] # written[s] /\ written[s] > 0) =>
        written'[s] - written[s] >= Interval]_vars
===============================================================================
