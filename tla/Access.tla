--------------------------------- MODULE Access ---------------------------------
(***************************************************************************)
(* The keys of the gateway's own clients (api/admin/mod.rs and             *)
(* api/auth.rs): a row holds the hash that a presented key is looked up    *)
(* by and, unless it came by an import or is older than the column, the    *)
(* key itself for the links that administrators hand out.  Each handler    *)
(* changes the table and then reloads the snapshot that requests are       *)
(* authenticated by; the reloads of two handlers may end in any order, and *)
(* one may fail, which is only logged.                                     *)
(*                                                                         *)
(* A hash is the key it is of.                                             *)
(***************************************************************************)
EXTENDS Integers, FiniteSets, Functions

CONSTANTS
  Secret,    \* keys that are drawn at random: each is drawn once
  Handler,   \* slots for the handlers in flight
  MaxSlot,   \* the bound on the ids of rows
  MaxChanges, \* the bound on the changes in a behaviour
  None

AccessAssumption == None \notin Secret /\ {MaxSlot, MaxChanges} \subseteq Nat \ {0}

VARIABLES
  clients,   \* downstream_keys: id -> [hash, plain, on]
  drawn,     \* the keys drawn so far, which never come up again
  changes,   \* history: how often the table was changed
  handling,  \* handlers between their change and their answer
  admitted,  \* Pool::downstream: key -> enabled, and the change it is as of
  backwards, \* history: the snapshot was replaced by one of an older table
  settled    \* history: the last change whose reload was published

vars == <<clients, drawn, changes, handling, admitted, backwards, settled>>

ClientRow == [hash: Secret, plain: Secret \cup {None}, on: BOOLEAN]
Free == [at |-> "free", got |-> <<>>, asOf |-> 0, mine |-> 0]

TypeOK ==
  /\ DOMAIN clients \subseteq 1..MaxSlot /\ Range(clients) \subseteq ClientRow
  /\ drawn \subseteq Secret /\ {clients[i].hash : i \in DOMAIN clients} \subseteq drawn
  /\ \A i, j \in DOMAIN clients : clients[i].hash = clients[j].hash => i = j
  /\ changes \in 0..MaxChanges /\ settled \in 0..changes /\ backwards \in BOOLEAN
  /\ \A h \in Handler :
       /\ handling[h].at \in {"free", "changed", "read"}
       /\ DOMAIN handling[h].got \subseteq Secret
       /\ {handling[h].asOf, handling[h].mine} \subseteq 0..changes
  /\ DOMAIN admitted.keys \subseteq Secret /\ admitted.asOf \in 0..changes

Init ==
  /\ clients = <<>> /\ drawn = {} /\ changes = 0
  /\ handling = [h \in Handler |-> Free]
  /\ admitted = [keys |-> <<>>, asOf |-> 0]
  /\ backwards = FALSE /\ settled = 0

With(f, id, row) == [x \in DOMAIN f \cup {id} |-> IF x = id THEN row ELSE f[x]]
Without(f, id) == [x \in DOMAIN f \ {id} |-> f[x]]

\* What Pool::load() makes of the table: whoever was looked up by a key is found by
\* its hash, disabled or not.
Downstream ==
  [s \in {clients[i].hash : i \in DOMAIN clients} |->
     \E i \in DOMAIN clients : clients[i].hash = s /\ clients[i].on]

-------------------------------------------------------------------------------
\* mutate(): the change itself, in the administrator's connection...
Mutated_ReadsFirst(h, rows) ==
  /\ handling[h] = Free /\ changes < MaxChanges
  /\ clients' = rows
  /\ changes' = changes + 1
  /\ handling' = [handling EXCEPT ![h] = [at |-> "read", got |-> Downstream,
                                          asOf |-> changes, mine |-> changes + 1]]
  /\ UNCHANGED <<admitted, backwards, settled>>
Mutated(h, rows) ==
  /\ handling[h] = Free /\ changes < MaxChanges
  /\ clients' = rows
  /\ changes' = changes + 1
  /\ handling' = [handling EXCEPT ![h] = [Free EXCEPT !.at = "changed", !.mine = changes + 1]]
  /\ UNCHANGED <<admitted, backwards, settled>>

Row(s, plain, on) == [hash |-> s, plain |-> plain, on |-> on]

Create(h, i, s, on) ==
  /\ i \notin DOMAIN clients /\ s \notin drawn
  /\ drawn' = drawn \cup {s}
  /\ Mutated(h, With(clients, i, Row(s, s, on)))

\* import_all(): the file holds hashes only.
Import(h, i, s, on) ==
  /\ i \notin DOMAIN clients /\ s \notin drawn
  /\ drawn' = drawn \cup {s}
  /\ Mutated(h, With(clients, i, Row(s, None, on)))

\* A new key takes the place of the old one, hash and plain.
Rotated_HashOnly(row, s) == [row EXCEPT !.hash = s]
Rotated(row, s) == [row EXCEPT !.hash = s, !.plain = s]

Rotate(h, i, s) ==
  /\ i \in DOMAIN clients /\ s \notin drawn
  /\ drawn' = drawn \cup {s}
  /\ Mutated(h, [clients EXCEPT ![i] = Rotated(@, s)])

Update(h, i, on) ==
  /\ i \in DOMAIN clients
  /\ UNCHANGED drawn
  /\ Mutated(h, [clients EXCEPT ![i].on = on])

Delete(h, i) ==
  /\ i \in DOMAIN clients
  /\ UNCHANGED drawn
  /\ Mutated(h, Without(clients, i))

\* ... and then Snapshot::reload(): the table is read...
Read(h) ==
  /\ handling[h].at = "changed"
  /\ handling' = [handling EXCEPT ![h].at = "read", ![h].got = Downstream, ![h].asOf = changes]
  /\ UNCHANGED <<clients, drawn, changes, admitted, backwards, settled>>

\* ... which may fail: the handler answers all the same...
ReadFails(h) ==
  /\ handling[h].at = "changed"
  /\ handling' = [handling EXCEPT ![h] = Free]
  /\ UNCHANGED <<clients, drawn, changes, admitted, backwards, settled>>

\* ... and published, whatever was published in between.
Publish(h) ==
  LET mine == handling[h] IN
  /\ mine.at = "read"
  /\ admitted' = [keys |-> mine.got, asOf |-> mine.asOf]
  /\ settled' = IF mine.mine > settled THEN mine.mine ELSE settled
  /\ backwards' = (mine.asOf < admitted.asOf \/ (backwards /\ mine.asOf < settled'))
  /\ handling' = [handling EXCEPT ![h] = Free]
  /\ UNCHANGED <<clients, drawn, changes>>

\* downstream_import_link(): the key that is shown for a row, if there is one.
Shown(i) == clients[i].plain

\* authenticate(): the key is looked up in the snapshot and must be enabled.
LetIn(s) == s \in DOMAIN admitted.keys /\ admitted.keys[s]

Next ==
  \E h \in Handler :
    \/ \E i \in 1..MaxSlot :
         \/ \E s \in Secret : Rotate(h, i, s)
         \/ \E s \in Secret, on \in BOOLEAN : Create(h, i, s, on) \/ Import(h, i, s, on)
         \/ \E on \in BOOLEAN : Update(h, i, on)
         \/ Delete(h, i)
    \/ Read(h) \/ ReadFails(h) \/ Publish(h)

Spec == Init /\ [][Next]_vars

-------------------------------------------------------------------------------
\* admin/mod.rs:1239 and :1335: the key that is shown for a row lets its holder in
\* as soon as the table is served, and is nobody else's; and a key that was
\* withdrawn is let in no longer once a change made then or later was answered,
\* unless a reload that read an older table was published after it.
WithdrawnIsRefused ==
  /\ \A i \in DOMAIN clients : Shown(i) # None => Shown(i) = clients[i].hash
  /\ admitted.asOf < settled => backwards
  /\ admitted.asOf = changes =>
       \A s \in Secret :
         LetIn(s) <=> \E i \in DOMAIN clients : clients[i].hash = s /\ clients[i].on

\* admin/mod.rs:1239: the old key is refused as soon as the new one was answered.
OldKeyIsRefusedAtOnce ==
  \A s \in Secret :
    LetIn(s) => \/ \E i \in DOMAIN clients : clients[i].hash = s /\ clients[i].on
                \/ \E h \in Handler : handling[h].at # "free"
===============================================================================
