------------------------- MODULE BreakerEntry_proofs --------------------------
(***************************************************************************)
(* Lemmas about the operators of BreakerEntry, for every setting of the    *)
(* thresholds: what allow(), record() and release() return, what they      *)
(* preserve of an entry, and how they move the abstract circuit of it.     *)
(* Breaker and Forward rest on them.                                       *)
(***************************************************************************)
EXTENDS BreakerEntry, TLAPS

(***************************************************************************)
(* The operators of BreakerEntry return entries.                           *)
(***************************************************************************)
\* A fresh entry, and the one that stands for an absent key, are entries.
LEMMA NewEntryType ==
  ASSUME NEW t \in Nat
  PROVE  NewEntry(t) \in Entry /\ NoEntry \in Entry
BY DEF NewEntry, NoEntry, Entry, BreakerState

\* allow() leaves an entry.
LEMMA AfterAllowType ==
  ASSUME NEW e \in Entry, NEW t \in Nat
  PROVE  AfterAllow(e, t) \in Entry
BY BreakerAssumption DEF AfterAllow, GrantsProbe, Allows, NewEntry, Entry, BreakerState

\* record() leaves an entry when the breaker is closed ...
LEMMA RecordClosedType ==
  ASSUME NEW e \in Entry, NEW ok \in BOOLEAN, NEW t \in Nat
  PROVE  RecordClosed(e, ok, t) \in Entry
<1> DEFINE f == [e EXCEPT !.total = @ + 1, !.failed = @ + 1, !.failures = @ + 1]
<1>1. e.total + 1 \in Nat /\ e.failed + 1 \in Nat /\ e.failures + 1 \in Nat
  BY DEF Entry
<1>2. f \in Entry
  BY <1>1, Zenon DEF Entry
<1>3. [e EXCEPT !.failures = 0] \in Entry
  BY DEF Entry
<1>4. [f EXCEPT !.state = "open", !.opened = t] \in Entry
  <2> HIDE DEF f
  <2> QED BY <1>2 DEF Entry, BreakerState
<1> QED BY <1>2, <1>3, <1>4 DEF RecordClosed

\* ... and when it is half-open ...
LEMMA RecordHalfOpenType ==
  ASSUME NEW e \in Entry, NEW ok \in BOOLEAN, NEW t \in Nat
  PROVE  RecordHalfOpen(e, ok, t) \in Entry
<1>1. [e EXCEPT !.state = "open", !.opened = t] \in Entry
  BY DEF Entry, BreakerState
<1>2. [e EXCEPT !.successes = @ + 1] \in Entry
  BY DEF Entry
<1>3. [e EXCEPT !.state = "closed", !.failures = 0, !.successes = 0,
                !.total = 0, !.failed = 0] \in Entry
  BY DEF Entry, BreakerState
<1> QED BY <1>1, <1>2, <1>3 DEF RecordHalfOpen

\* ... hence in every state.
LEMMA AfterRecordType ==
  ASSUME NEW e \in Entry, NEW ok \in BOOLEAN, NEW t \in Nat
  PROVE  AfterRecord(e, ok, t) \in Entry
<1> DEFINE seen == [e EXCEPT !.lastSeen = t, !.probe = FALSE]
<1>1. seen \in Entry /\ e.state \in BreakerState
  BY DEF Entry
<1>2. RecordClosed(seen, ok, t) \in Entry /\ RecordHalfOpen(seen, ok, t) \in Entry
  BY <1>1, RecordClosedType, RecordHalfOpenType
<1> QED BY <1>1, <1>2 DEF AfterRecord, BreakerState

\* release() leaves an entry.
LEMMA AfterReleaseType ==
  ASSUME NEW e \in Entry
  PROVE  AfterRelease(e) \in Entry
BY DEF AfterRelease, Entry

(***************************************************************************)
(* What holds of every entry, whatever is made of it in which order.       *)
(***************************************************************************)
\* What the invariants of Breaker say of one entry.
EntryOK(e) ==
  /\ e.state \in {"absent", "closed"} => e.failures < FailureThreshold /\ ~RateTrips(e)
  /\ e.probe => e.state = "half_open"
  /\ e.state = "half_open" => e.successes < SuccessThreshold

\* A fresh entry satisfies it.
LEMMA NewEntryOK ==
  ASSUME NEW t \in Nat
  PROVE  EntryOK(NewEntry(t)) /\ EntryOK(NoEntry)
BY BreakerAssumption DEF EntryOK, NewEntry, NoEntry, RateTrips

\* allow() keeps it.
LEMMA AfterAllowOK ==
  ASSUME NEW e \in Entry, EntryOK(e), NEW t \in Nat
  PROVE  EntryOK(AfterAllow(e, t))
<1>1. CASE e.state = "absent"
  BY <1>1, NewEntryOK DEF AfterAllow, GrantsProbe
<1>2. CASE e.state # "absent" /\ GrantsProbe(e, t)
  <2>1. AfterAllow(e, t) = [e EXCEPT !.lastSeen = t, !.state = "half_open", !.probe = TRUE,
                                     !.successes = IF e.state = "open" THEN 0 ELSE @]
    BY <1>2 DEF AfterAllow, Entry
  <2>2. e.successes \in Nat /\ (e.state = "half_open" => e.successes < SuccessThreshold)
    BY DEF Entry, EntryOK
  <2>3. e.state \in {"open", "half_open"}
    BY <1>2 DEF GrantsProbe
  <2> QED BY <2>1, <2>2, <2>3, BreakerAssumption DEF EntryOK, Entry
<1>3. CASE e.state # "absent" /\ ~GrantsProbe(e, t)
  BY <1>3 DEF AfterAllow, EntryOK, RateTrips, Entry
<1> QED BY <1>1, <1>2, <1>3

\* record() keeps it: in the closed state because it opens the breaker as
\* soon as a threshold is met, in the half-open one because it closes it.
LEMMA AfterRecordOK ==
  ASSUME NEW e \in Entry, EntryOK(e), NEW ok \in BOOLEAN, NEW t \in Nat
  PROVE  EntryOK(AfterRecord(e, ok, t))
<1> DEFINE seen == [e EXCEPT !.lastSeen = t, !.probe = FALSE]
           f == [seen EXCEPT !.total = @ + 1, !.failed = @ + 1, !.failures = @ + 1]
<1>1. seen \in Entry /\ EntryOK(seen) /\ ~seen.probe /\ seen.state = e.state
  BY DEF Entry, EntryOK, RateTrips
<1>2. CASE e.state = "absent"
  BY <1>2 DEF AfterRecord
<1>3. CASE e.state = "open"
  BY <1>1, <1>3 DEF AfterRecord
<1>4. CASE e.state = "closed"
  <2>1. AfterRecord(e, ok, t) = RecordClosed(seen, ok, t)
    BY <1>4 DEF AfterRecord
  <2> HIDE DEF seen
  <2>2. CASE ok
    <3>1. RecordClosed(seen, ok, t) = [seen EXCEPT !.failures = 0]
      BY <2>2 DEF RecordClosed
    <3> QED BY <1>1, <1>4, <2>1, <3>1, BreakerAssumption DEF EntryOK, RateTrips, Entry
  <2>3. CASE ~ok /\ Trips(f)
    <3>1. RecordClosed(seen, ok, t) = [f EXCEPT !.state = "open", !.opened = t]
      BY <2>3 DEF RecordClosed
    <3>2. [f EXCEPT !.state = "open", !.opened = t].state = "open"
          /\ ~[f EXCEPT !.state = "open", !.opened = t].probe
      BY <1>1 DEF Entry
    <3> QED BY <2>1, <3>1, <3>2 DEF EntryOK
  <2>4. CASE ~ok /\ ~Trips(f)
    <3>1. RecordClosed(seen, ok, t) = f
      BY <2>4 DEF RecordClosed
    <3>2. f.state = "closed" /\ ~f.probe
      BY <1>1, <1>4 DEF Entry
    <3>3. f.failures \in Nat
      BY <1>1 DEF Entry
    <3> HIDE DEF f
    <3> QED BY <2>1, <2>4, <3>1, <3>2, <3>3, BreakerAssumption DEF EntryOK, Trips
  <2> QED BY <2>2, <2>3, <2>4
<1>5. CASE e.state = "half_open"
  <2>1. AfterRecord(e, ok, t) = RecordHalfOpen(seen, ok, t)
    BY <1>5 DEF AfterRecord
  <2> HIDE DEF seen
  <2> DEFINE r == RecordHalfOpen(seen, ok, t)
  <2>2. CASE ~ok
    <3>1. r.state = "open" /\ ~r.probe
      BY <1>1, <2>2 DEF RecordHalfOpen, Entry
    <3> QED BY <2>1, <3>1 DEF EntryOK
  <2>3. CASE ok /\ seen.successes + 1 < SuccessThreshold
    <3>1. r.state = "half_open" /\ r.successes = seen.successes + 1
      BY <1>1, <1>5, <2>3 DEF RecordHalfOpen, Entry
    <3> QED BY <2>1, <2>3, <3>1 DEF EntryOK
  <2>4. CASE ok /\ ~(seen.successes + 1 < SuccessThreshold)
    <3>1. /\ r.state = "closed" /\ ~r.probe
          /\ r.failures = 0 /\ r.total = 0
      BY <1>1, <2>4 DEF RecordHalfOpen, Entry
    <3> QED BY <2>1, <3>1, BreakerAssumption DEF EntryOK, RateTrips
  <2> QED BY <2>2, <2>3, <2>4
<1> QED BY <1>2, <1>3, <1>4, <1>5 DEF Entry, BreakerState

\* release() keeps it.
LEMMA AfterReleaseOK ==
  ASSUME NEW e \in Entry, EntryOK(e)
  PROVE  EntryOK(AfterRelease(e))
BY DEF AfterRelease, EntryOK, RateTrips, Entry

\* record() leaves no slot taken, when the entry satisfied the invariant.
LEMMA AfterRecordFreesSlot ==
  ASSUME NEW e \in Entry, EntryOK(e), NEW ok \in BOOLEAN, NEW t \in Nat
  PROVE  ~AfterRecord(e, ok, t).probe
BY DEF AfterRecord, RecordClosed, RecordHalfOpen, EntryOK, Entry, BreakerState


(***************************************************************************)
(* Each operator moves the abstract circuit in one way only.               *)
(***************************************************************************)
\* allow() moves the circuit only when it grants a probe of an open one.
LEMMA AllowMoves ==
  ASSUME NEW e \in Entry, NEW t \in Nat
  PROVE  /\ e.state = "open" /\ Allows(e, t) =>
              CircuitOf(AfterAllow(e, t)) = "half_open" /\ SinceOf(AfterAllow(e, t)) = 0
         /\ ~(e.state = "open" /\ Allows(e, t)) =>
              CircuitOf(AfterAllow(e, t)) = CircuitOf(e) /\ SinceOf(AfterAllow(e, t)) = SinceOf(e)
<1>1. CASE GrantsProbe(e, t)
  <2>1. AfterAllow(e, t) = [e EXCEPT !.lastSeen = t, !.state = "half_open", !.probe = TRUE,
                                     !.successes = IF e.state = "open" THEN 0 ELSE @]
    BY <1>1 DEF AfterAllow, GrantsProbe, Entry
  <2>2. AfterAllow(e, t).state = "half_open"
    BY <2>1 DEF Entry
  <2> QED BY <1>1, <2>2 DEF CircuitOf, SinceOf, GrantsProbe
<1>2. CASE ~GrantsProbe(e, t)
  <2>1. ~(e.state = "open" /\ Allows(e, t))
    BY <1>2 DEF GrantsProbe
  <2>2. CASE e.state = "absent"
    BY <1>2, <2>1, <2>2 DEF AfterAllow, NewEntry, CircuitOf, SinceOf
  <2>3. CASE e.state # "absent"
    BY <1>2, <2>1, <2>3 DEF AfterAllow, CircuitOf, SinceOf, Entry
  <2> QED BY <2>2, <2>3
<1> QED BY <1>1, <1>2

\* record() leaves the circuit alone, opens it now, or closes a half-open one.
LEMMA RecordMoves ==
  ASSUME NEW e \in Entry, NEW ok \in BOOLEAN, NEW t \in Nat
  PROVE  \/ /\ CircuitOf(AfterRecord(e, ok, t)) = CircuitOf(e)
            /\ SinceOf(AfterRecord(e, ok, t)) = SinceOf(e)
         \/ /\ CircuitOf(e) # "open"
            /\ CircuitOf(AfterRecord(e, ok, t)) = "open"
            /\ SinceOf(AfterRecord(e, ok, t)) = t
         \/ /\ CircuitOf(e) = "half_open"
            /\ CircuitOf(AfterRecord(e, ok, t)) = "closed"
            /\ SinceOf(AfterRecord(e, ok, t)) = SinceOf(e)
<1> DEFINE seen == [e EXCEPT !.lastSeen = t, !.probe = FALSE]
           f == [seen EXCEPT !.total = @ + 1, !.failed = @ + 1, !.failures = @ + 1]
<1>1. seen \in Entry /\ seen.state = e.state /\ seen.opened = e.opened
  BY DEF Entry
<1>2. CASE e.state = "absent"
  BY <1>2 DEF AfterRecord
<1>3. CASE e.state = "open"
  BY <1>1, <1>3 DEF AfterRecord, CircuitOf, SinceOf
<1>4. CASE e.state = "closed"
  <2>1. AfterRecord(e, ok, t) = RecordClosed(seen, ok, t)
    BY <1>4 DEF AfterRecord
  <2>2. f.state = "closed"
    BY <1>4 DEF Entry
  <2> HIDE DEF seen
  <2>3. [seen EXCEPT !.failures = 0].state = "closed"
    BY <1>1, <1>4 DEF Entry
  <2>4. /\ [f EXCEPT !.state = "open", !.opened = t].state = "open"
        /\ [f EXCEPT !.state = "open", !.opened = t].opened = t
    BY <1>1 DEF Entry
  <2>5. \/ AfterRecord(e, ok, t) = [seen EXCEPT !.failures = 0]
        \/ AfterRecord(e, ok, t) = [f EXCEPT !.state = "open", !.opened = t]
        \/ AfterRecord(e, ok, t) = f
    BY <2>1 DEF RecordClosed
  <2> HIDE DEF f
  <2> QED BY <1>4, <2>2, <2>3, <2>4, <2>5 DEF CircuitOf, SinceOf
<1>5. CASE e.state = "half_open"
  <2>1. AfterRecord(e, ok, t) = RecordHalfOpen(seen, ok, t)
    BY <1>5 DEF AfterRecord
  <2> HIDE DEF seen
  <2>2. /\ [seen EXCEPT !.state = "open", !.opened = t].state = "open"
        /\ [seen EXCEPT !.state = "open", !.opened = t].opened = t
        /\ [seen EXCEPT !.successes = @ + 1].state = "half_open"
        /\ [seen EXCEPT !.state = "closed", !.failures = 0, !.successes = 0,
                        !.total = 0, !.failed = 0].state = "closed"
    BY <1>1, <1>5 DEF Entry
  <2> QED BY <1>5, <2>1, <2>2 DEF RecordHalfOpen, CircuitOf, SinceOf
<1> QED BY <1>2, <1>3, <1>4, <1>5 DEF Entry, BreakerState
===============================================================================
