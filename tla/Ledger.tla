--------------------------------- MODULE Ledger ---------------------------------
(***************************************************************************)
(* What is kept of the requests (store/maintenance.rs, and the statistics  *)
(* of api/admin/mod.rs): a row for each, queued when the request ends and  *)
(* inserted later by the writer thread; the daily maintenance, which adds  *)
(* the rows before a cutoff to the rollups of their days and deletes them; *)
(* the statistics, which add the two up again; and the backups.            *)
(*                                                                         *)
(* The clock counts half days, so that a cutoff, which is so many days     *)
(* before now, falls within a day as well as between two.                  *)
(***************************************************************************)
EXTENDS Integers, Sequences, FiniteSets, FiniteSetsExt, Functions, Bags

CONSTANTS
  Label,        \* what rows are grouped by: key, channel, model, error or not
  Retention,    \* detail_retention_days, in half days
  QueueCap,     \* WRITE_QUEUE
  Keep,         \* BACKUP_KEEP
  MaxNow,       \* the bound on the clock
  MaxRequests   \* the bound on the requests

LedgerAssumption == {Retention, QueueCap, Keep, MaxNow, MaxRequests} \subseteq Nat \ {0}

VARIABLES
  time,      \* half days since the start
  unsaved,   \* Db::tx: rows that are not inserted yet
  details,   \* request_logs: a bag of [label, created]
  rollups,   \* daily_rollups: a bag of <<label, day>>
  ended,     \* history: the requests that ended, a bag of [label, created]
  lost,      \* history: the rows that never reached the table
  backups    \* the files in backup_dir, by the time of their name

vars == <<time, unsaved, details, rollups, ended, lost, backups>>

RequestRow == [label: Label, created: 0..MaxNow]
Day(t) == t \div 2

TypeOK ==
  /\ time \in 0..MaxNow
  /\ unsaved \in Seq(RequestRow) /\ Len(unsaved) <= QueueCap
  /\ IsABag(details) /\ DOMAIN details \subseteq RequestRow
  /\ IsABag(rollups) /\ DOMAIN rollups \subseteq Label \X (0..Day(MaxNow))
  /\ IsABag(ended) /\ DOMAIN ended \subseteq RequestRow /\ BagCardinality(ended) <= MaxRequests
  /\ IsABag(lost) /\ DOMAIN lost \subseteq RequestRow
  /\ backups \subseteq 0..MaxNow

Init ==
  /\ time = 0 /\ unsaved = <<>>
  /\ details = EmptyBag /\ rollups = EmptyBag /\ ended = EmptyBag /\ lost = EmptyBag
  /\ backups = {}

One(x) == SetToBag({x})
SumOf(bag, S) == MapThenSumSet(LAMBDA x : bag[x], S)

-------------------------------------------------------------------------------
\* A request ends: its row bears the time its answer began, which may be an earlier
\* one, and is dropped if the queue is full.
End(l, began) ==
  LET row == [label |-> l, created |-> began] IN
  /\ BagCardinality(ended) < MaxRequests
  /\ ended' = ended (+) One(row)
  /\ IF Len(unsaved) < QueueCap
     THEN unsaved' = Append(unsaved, row) /\ UNCHANGED lost
     ELSE lost' = lost (+) One(row) /\ UNCHANGED unsaved
  /\ UNCHANGED <<time, details, rollups, backups>>

Batch(n) == FoldFunction(LAMBDA x, b : b (+) One(x), EmptyBag, SubSeq(unsaved, 1, n))

\* The writer commits a batch, however late...
Save(n) ==
  /\ details' = details (+) Batch(n)
  /\ unsaved' = SubSeq(unsaved, n + 1, Len(unsaved))
  /\ UNCHANGED <<time, rollups, ended, lost, backups>>

\* ... or fails, or the process is gone: the rows with it.
Lose(n) ==
  /\ lost' = lost (+) Batch(n)
  /\ unsaved' = SubSeq(unsaved, n + 1, Len(unsaved))
  /\ UNCHANGED <<time, details, rollups, ended, backups>>

\* run_daily(): in one transaction the rows before the cutoff are grouped by day,
\* added to the rollups that are there, and deleted.  The writer has its turn
\* before or after.
Old(c) == {x \in DOMAIN details : x.created < c}
Deleted_UpTo(c) == {x \in DOMAIN details : x.created <= c}
Deleted(c) == {x \in DOMAIN details : x.created < c}

Days(c) == {<<x.label, Day(x.created)>> : x \in Old(c)}
Grouped(c) ==
  [g \in Days(c) |-> SumOf(details, {x \in Old(c) : <<x.label, Day(x.created)>> = g})]

\* INSERT ... ON CONFLICT DO UPDATE.
Upserted_Replaces(c) ==
  [g \in DOMAIN rollups \cup Days(c) |-> IF g \in Days(c) THEN Grouped(c)[g] ELSE rollups[g]]
Upserted(c) == rollups (+) Grouped(c)

\* After the transaction there is a backup, unless it fails or bears the name of
\* one that is there; then the oldest by name are removed.
Newest_TooFew(files) == {b \in files : Cardinality({x \in files : x > b}) < Keep - 1}
Newest(files) == {b \in files : Cardinality({x \in files : x > b}) < Keep}

Cutoff == time - Retention

RunDaily(saved) ==
  /\ rollups' = Upserted(Cutoff)
  /\ details' = [x \in DOMAIN details \ Deleted(Cutoff) |-> details[x]]
  /\ backups' = Newest(IF saved THEN backups \cup {time} ELSE backups)
  /\ UNCHANGED <<time, unsaved, ended, lost>>

\* Time passes, or the clock is set back.
Tick(t) ==
  /\ t \in {time + 1, time - 1} /\ t \in 0..MaxNow
  /\ time' = t
  /\ UNCHANGED <<unsaved, details, rollups, ended, lost, backups>>

Writer == \E n \in DOMAIN unsaved : Save(n) \/ Lose(n)

Next ==
  \/ \E l \in Label, began \in {time, time - 1} \cap Nat : End(l, began)
  \/ Writer
  \/ \E saved \in BOOLEAN : RunDaily(saved)
  \/ \E t \in 0..MaxNow : Tick(t)

Spec == Init /\ [][Next]_vars

-------------------------------------------------------------------------------
\* admin/mod.rs, stats(): what a page of the last so many days shows for a label and
\* a day, of the rows and of the rollups together.
Since(days) == time - 2 * days
FromRollups(l, d, since) ==
  IF d >= Day(since) /\ <<l, d>> \in DOMAIN rollups THEN rollups[<<l, d>>] ELSE 0
FromDetails(l, d, since) ==
  SumOf(details, {x \in DOMAIN details :
                    x.label = l /\ Day(x.created) = d /\ x.created >= since})
Shown(l, d, days) == FromDetails(l, d, Since(days)) + FromRollups(l, d, Since(days))

InDay(bag, l, d) == SumOf(bag, {x \in DOMAIN bag : x.label = l /\ Day(x.created) = d})
Waiting(l, d) ==
  Cardinality({i \in DOMAIN unsaved : unsaved[i].label = l /\ Day(unsaved[i].created) = d})

\* maintenance.rs:3: however late a row comes in, however the cutoff cuts its day,
\* and however often the clock lets the maintenance run: each request that ended is
\* counted once, on its day, by every page that reaches back past that day, unless
\* its row is still queued or was lost.
EachRequestCountsOnce ==
  \A l \in Label, d \in 0..Day(MaxNow), days \in 1..MaxNow :
    d > Day(Since(days)) =>
      Shown(l, d, days) + Waiting(l, d) + InDay(lost, l, d) = InDay(ended, l, d)

\* A backup is removed only when as many newer ones are kept.
OldestGo == \A b \in backups \ backups' : Cardinality({x \in backups' : x > b}) = Keep

BackupsAreRecent == [][OldestGo]_vars
===============================================================================
