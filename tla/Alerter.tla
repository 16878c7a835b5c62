--------------------------------- MODULE Alerter --------------------------------
(***************************************************************************)
(* The mails about what needs a person (alert.rs): notify() takes the      *)
(* event, or drops it because one of its kind went out too recently, under *)
(* a mutex; the mail itself is sent by a task of its own, and may fail.    *)
(***************************************************************************)
EXTENDS Integers, FiniteSets, FiniteSetsExt, Functions

CONSTANTS
  Kind,        \* key_disabled, entry_thinking, pool_unavailable, db_write_dropped
  Floor,       \* the least interval: 60 s
  Intervals,   \* alerts.minIntervalSecs, as an administrator may set it
  MaxHour      \* the bound on the clock

AlerterAssumption ==
  /\ Floor \in Nat /\ Intervals \subseteq Nat /\ MaxHour \in Nat
  /\ \E i \in Intervals : \A j \in Intervals : j <= i

VARIABLES
  hour,       \* the clock
  interval,   \* the setting
  enabled,    \* the mail settings are complete
  last,       \* Alerter::last: kind -> when it was taken
  outbox,     \* tasks: <<kind, when it was taken>>
  mailed,     \* history: <<kind, when>>, arrived or not
  unheard     \* history: <<kind, when>> of events that were dropped while enabled

vars == <<hour, interval, enabled, last, outbox, mailed, unheard>>

Taken == Kind \X (0..MaxHour)

TypeOK ==
  /\ hour \in 0..MaxHour /\ interval \in Intervals /\ enabled \in BOOLEAN
  /\ DOMAIN last \subseteq Kind /\ Range(last) \subseteq 0..MaxHour
  /\ outbox \subseteq Taken /\ mailed \subseteq Taken /\ unheard \subseteq Taken

Init ==
  /\ hour = 0 /\ interval \in Intervals /\ enabled \in BOOLEAN
  /\ last = <<>> /\ outbox = {} /\ mailed = {} /\ unheard = {}

AtLeast(i) == Max({i, Floor})

\* One of the kind was taken within the interval.
Recent_OfAnyKind(k) == \E x \in DOMAIN last : hour - last[x] < AtLeast(interval)
Recent(k) == k \in DOMAIN last /\ hour - last[k] < AtLeast(interval)

\* The instant is noted before the mail is sent.
NotedAt_Later(k) == last
NotedAt(k) == [x \in DOMAIN last \cup {k} |-> IF x = k THEN hour ELSE last[x]]

Notify(k) ==
  /\ enabled
  /\ IF Recent(k)
     THEN unheard' = unheard \cup {<<k, hour>>} /\ UNCHANGED <<last, outbox>>
     ELSE /\ last' = NotedAt(k)
          /\ outbox' = outbox \cup {<<k, hour>>}
          /\ UNCHANGED unheard
  /\ UNCHANGED <<hour, interval, enabled, mailed>>

\* send(): to the server, or to no avail.
Send(m) ==
  /\ m \in outbox
  /\ outbox' = outbox \ {m}
  /\ mailed' = mailed \cup {m}
  /\ UNCHANGED <<hour, interval, enabled, last, unheard>>

Configure(i, on) ==
  /\ interval' = i /\ enabled' = on
  /\ UNCHANGED <<hour, last, outbox, mailed, unheard>>

Tick ==
  /\ hour < MaxHour
  /\ hour' = hour + 1
  /\ UNCHANGED <<interval, enabled, last, outbox, mailed, unheard>>

Next ==
  \/ \E k \in Kind : Notify(k)
  \/ \E m \in outbox : Send(m)
  \/ \E i \in Intervals, on \in BOOLEAN : Configure(i, on)
  \/ Tick

Spec == Init /\ [][Next]_vars

-------------------------------------------------------------------------------
\* alert.rs:4: however slow the mails and however the setting changes, two of a
\* kind are no closer than the least interval, so that a failure does not fill the
\* mailbox; and an event is dropped only for a mail of its own kind that was taken
\* within the longest interval before it.
AlertsAreSpaced ==
  LET taken == outbox \cup mailed IN
  /\ \A m, n \in taken : m[1] = n[1] /\ m[2] < n[2] => n[2] - m[2] >= Floor
  /\ \A u \in unheard :
       \E m \in taken : m[1] = u[1] /\ m[2] <= u[2] /\ u[2] - m[2] < AtLeast(Max(Intervals))
===============================================================================
