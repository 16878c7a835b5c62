---------------------------- MODULE Breaker_proofs ----------------------------
(***************************************************************************)
(* Proofs about Breaker, for every set of keys and attempts and every      *)
(* setting of the thresholds: its types, the safety invariants the runs    *)
(* check, and that it implements CircuitBreaker.                           *)
(***************************************************************************)
EXTENDS Breaker, BreakerEntry_proofs

(***************************************************************************)
(* Type correctness.                                                       *)
(***************************************************************************)
\* Every step of the breakers keeps their types.
LEMMA TypeStep == TypeOK /\ [Next]_vars => TypeOK'
<1> SUFFICES ASSUME TypeOK, [Next]_vars PROVE TypeOK'
  OBVIOUS
<1> USE DEF TypeOK
<1>1. ASSUME NEW a \in Attempt, NEW k \in Key, Admit(a, k) PROVE TypeOK'
  <2>1. AfterAllow(entry[k], now) \in Entry
    BY AfterAllowType
  <2>2. [key |-> k, refused |-> FALSE, probe |-> GrantsProbe(entry[k], now)] \in InFlight
    BY DEF InFlight, GrantsProbe
  <2> QED BY <1>1, <2>1, <2>2 DEF Admit
<1>2. ASSUME NEW k \in Key, Refuse(k) PROVE TypeOK'
  BY <1>2, AfterAllowType DEF Refuse
<1>3. Idle \in InFlight
  BY DEF Idle, InFlight
<1>4. ASSUME NEW a \in Attempt, NEW ok \in BOOLEAN, Record(a, ok) PROVE TypeOK'
  <2>1. attempt[a].key \in Key
    BY <1>4 DEF Record, InFlight
  <2>2. AfterRecord(entry[attempt[a].key], ok, now) \in Entry
    BY <2>1, AfterRecordType
  <2> QED BY <1>3, <1>4, <2>1, <2>2 DEF Record
<1>5. ASSUME NEW a \in Attempt, Release(a) PROVE TypeOK'
  <2>1. attempt[a].key \in Key
    BY <1>5 DEF Release, InFlight
  <2> QED BY <1>3, <1>5, <2>1, AfterReleaseType DEF Release
<1>6. ASSUME NEW a \in Attempt, EndUnrecorded(a) PROVE TypeOK'
  <2>1. attempt[a].key \in Key /\ attempt[a].probe \in BOOLEAN
    BY <1>6 DEF EndUnrecorded, InFlight
  <2>2. entry[attempt[a].key].probe \in BOOLEAN
    BY <2>1 DEF Entry
  <2> QED BY <1>3, <1>6, <2>1, <2>2 DEF EndUnrecorded
<1>7. ASSUME NEW c, NEW m, Reset(c, m) PROVE TypeOK'
  BY <1>7, NewEntryType DEF Reset
<1>8. ASSUME Prune PROVE TypeOK'
  BY <1>8, NewEntryType DEF Prune
<1>9. ASSUME Tick PROVE TypeOK'
  BY <1>9 DEF Tick
<1>10. ASSUME UNCHANGED vars PROVE TypeOK'
  BY <1>10 DEF vars
<1>11. ASSUME NEW a \in Attempt, AnsweredWithError(a) PROVE TypeOK'
  <2>1. [attempt[a] EXCEPT !.refused = TRUE] \in InFlight
    BY DEF InFlight
  <2> QED BY <1>11, <2>1 DEF AnsweredWithError
<1> QED
  BY <1>1, <1>2, <1>4, <1>5, <1>6, <1>7, <1>8, <1>9, <1>10, <1>11 DEF Next, End

\* The clock, the map of breakers and the attempts keep their types.
THEOREM TypeCorrect == Spec => []TypeOK
<1>1. Init => TypeOK
  BY NewEntryType DEF Init, TypeOK, Idle, InFlight
<1> QED BY <1>1, TypeStep, PTL DEF Spec

(***************************************************************************)
(* Safety.  The inductive invariant is a property of each entry by itself, *)
(* plus the holder of a taken slot.                                        *)
(***************************************************************************)
\* The inductive invariant: SlotOnlyInHalfOpen is what makes HeldSlotHasHolder
\* inductive, since a result that finds no entry then leaves no slot behind.
IInv ==
  /\ TypeOK
  /\ \A k \in Key : EntryOK(entry[k])
  /\ HeldSlotHasHolder

\* Every entry keeps its invariant through every step.
LEMMA EntryStep ==
  ASSUME IInv, [Next]_vars
  PROVE  \A k \in Key : EntryOK(entry'[k])
<1> USE DEF IInv, TypeOK
<1>1. ASSUME NEW a \in Attempt, NEW k \in Key, Admit(a, k)
      PROVE  \A j \in Key : EntryOK(entry'[j])
  BY <1>1, AfterAllowOK DEF Admit
<1>2. ASSUME NEW k \in Key, Refuse(k) PROVE \A j \in Key : EntryOK(entry'[j])
  BY <1>2, AfterAllowOK DEF Refuse
<1>3. ASSUME NEW a \in Attempt, NEW ok \in BOOLEAN, Record(a, ok)
      PROVE  \A j \in Key : EntryOK(entry'[j])
  BY <1>3, AfterRecordOK DEF Record, InFlight
<1>4. ASSUME NEW a \in Attempt, Release(a) PROVE \A j \in Key : EntryOK(entry'[j])
  BY <1>4, AfterReleaseOK DEF Release, InFlight
<1>5. ASSUME NEW a \in Attempt, EndUnrecorded(a) PROVE \A j \in Key : EntryOK(entry'[j])
  BY <1>5 DEF EndUnrecorded
<1>6. ASSUME NEW c, NEW m, Reset(c, m) PROVE \A j \in Key : EntryOK(entry'[j])
  BY <1>6, NewEntryOK DEF Reset
<1>7. ASSUME Prune PROVE \A j \in Key : EntryOK(entry'[j])
  BY <1>7, NewEntryOK DEF Prune
<1>8. ASSUME Tick PROVE \A j \in Key : EntryOK(entry'[j])
  BY <1>8 DEF Tick
<1>9. ASSUME UNCHANGED vars PROVE \A j \in Key : EntryOK(entry'[j])
  BY <1>9 DEF vars
<1>10. ASSUME NEW a \in Attempt, AnsweredWithError(a)
       PROVE  \A j \in Key : EntryOK(entry'[j])
  BY <1>10 DEF AnsweredWithError
<1> QED BY <1>1, <1>2, <1>3, <1>4, <1>5, <1>6, <1>7, <1>8, <1>9, <1>10 DEF Next, End

\* A taken slot keeps its holder, or is known to have leaked.
LEMMA HolderStep ==
  ASSUME IInv, [Next]_vars
  PROVE  HeldSlotHasHolder'
<1> USE DEF IInv, TypeOK
<1> DEFINE Holder(k) == \E a \in Attempt : attempt[a].key = k /\ attempt[a].probe
<1> SUFFICES ASSUME NEW j \in Key, entry'[j].probe
             PROVE  leaked'[j] \/ Holder(j)'
  BY DEF HeldSlotHasHolder
<1>0. entry[j].probe => leaked[j] \/ Holder(j)
  BY DEF HeldSlotHasHolder
<1>1. ASSUME NEW a \in Attempt, NEW k \in Key, Admit(a, k)
      PROVE  leaked'[j] \/ Holder(j)'
  <2>1. CASE j = k /\ GrantsProbe(entry[k], now)
    <3>1. attempt'[a] = [key |-> j, refused |-> FALSE, probe |-> TRUE]
      BY <1>1, <2>1 DEF Admit
    <3> QED BY <3>1
  <2>2. CASE ~(j = k /\ GrantsProbe(entry[k], now))
    <3>1. entry[j].probe
      <4>1. CASE j # k
        BY <1>1, <4>1 DEF Admit
      <4>2. CASE j = k
        <5>1. entry'[j] = AfterAllow(entry[j], now)
          BY <1>1, <4>2 DEF Admit
        <5>2. ~GrantsProbe(entry[j], now)
          BY <2>2, <4>2
        <5> QED BY <5>1, <5>2 DEF AfterAllow, NewEntry, Entry
      <4> QED BY <4>1, <4>2
    <3>2. \A b \in Attempt : attempt[b].probe => attempt'[b] = attempt[b]
      BY <1>1 DEF Admit, Idle
    <3> QED BY <1>0, <1>1, <3>1, <3>2 DEF Admit
  <2> QED BY <2>1, <2>2
<1>2. ASSUME NEW k \in Key, Refuse(k) PROVE leaked'[j] \/ Holder(j)'
  <2>1. entry[j].probe
    BY <1>2 DEF Refuse, AfterAllow, GrantsProbe, NewEntry, Entry
  <2> QED BY <1>0, <1>2, <2>1 DEF Refuse
<1>3. ASSUME NEW a \in Attempt, NEW k \in Key, attempt[a].key = k,
             attempt' = [attempt EXCEPT ![a] = Idle],
             j # k => entry'[j] = entry[j] /\ leaked'[j] = leaked[j],
             j = k => ~entry'[j].probe
      PROVE  leaked'[j] \/ Holder(j)'
  <2>1. j # k /\ entry[j].probe
    BY <1>3
  <2>2. CASE leaked[j]
    BY <1>3, <2>1, <2>2
  <2>3. CASE ~leaked[j]
    <3>1. PICK b \in Attempt : attempt[b].key = j /\ attempt[b].probe
      BY <1>0, <2>1, <2>3
    <3>2. attempt'[b] = attempt[b]
      BY <1>3, <2>1, <3>1
    <3> QED BY <3>1, <3>2
  <2> QED BY <2>2, <2>3
<1>4. ASSUME NEW a \in Attempt, NEW ok \in BOOLEAN, Record(a, ok)
      PROVE  leaked'[j] \/ Holder(j)'
  <2>1. attempt[a].key \in Key
    BY <1>4 DEF Record, InFlight
  <2>2. j = attempt[a].key => ~entry'[j].probe
    BY <1>4, <2>1, AfterRecordFreesSlot DEF Record
  <2> QED BY <1>3, <1>4, <2>1, <2>2 DEF Record
<1>5. ASSUME NEW a \in Attempt, Release(a) PROVE leaked'[j] \/ Holder(j)'
  <2>1. attempt[a].key \in Key
    BY <1>5 DEF Release, InFlight
  <2>2. j = attempt[a].key => ~entry'[j].probe
    BY <1>5, <2>1 DEF Release, AfterRelease, Entry
  <2> QED BY <1>3, <1>5, <2>1, <2>2 DEF Release
<1>6. ASSUME NEW a \in Attempt, EndUnrecorded(a) PROVE leaked'[j] \/ Holder(j)'
  <2>1. entry[j].probe
    BY <1>6 DEF EndUnrecorded
  <2>2. CASE leaked[j]
    BY <1>6, <2>2 DEF EndUnrecorded
  <2>3. CASE ~leaked[j]
    <3>1. PICK b \in Attempt : attempt[b].key = j /\ attempt[b].probe
      BY <1>0, <2>1, <2>3
    <3>2. CASE a = b
      BY <1>6, <2>1, <3>1, <3>2 DEF EndUnrecorded
    <3>3. CASE a # b
      <4>1. attempt'[b] = attempt[b]
        BY <1>6, <3>3 DEF EndUnrecorded
      <4> QED BY <3>1, <4>1
    <3> QED BY <3>2, <3>3
  <2> QED BY <2>2, <2>3
<1>7. ASSUME NEW c, NEW m, Reset(c, m) PROVE leaked'[j] \/ Holder(j)'
  <2>1. entry[j].probe /\ (leaked[j] => leaked'[j])
    BY <1>7 DEF Reset, NoEntry, NewEntry
  <2> QED BY <1>0, <1>7, <2>1 DEF Reset
<1>8. ASSUME Prune PROVE leaked'[j] \/ Holder(j)'
  <2>1. entry[j].probe
    BY <1>8 DEF Prune, NoEntry, NewEntry
  <2> QED BY <1>0, <1>8, <2>1 DEF Prune
<1>9. ASSUME Tick PROVE leaked'[j] \/ Holder(j)'
  BY <1>0, <1>9 DEF Tick
<1>10. ASSUME UNCHANGED vars PROVE leaked'[j] \/ Holder(j)'
  BY <1>0, <1>10 DEF vars
<1>11. ASSUME NEW a \in Attempt, AnsweredWithError(a) PROVE leaked'[j] \/ Holder(j)'
  <2>1. entry[j].probe /\ leaked'[j] = leaked[j]
    BY <1>11 DEF AnsweredWithError
  <2>2. \A b \in Attempt : /\ attempt'[b].key = attempt[b].key
                           /\ attempt'[b].probe = attempt[b].probe
    BY <1>11 DEF AnsweredWithError, InFlight
  <2> QED BY <1>0, <2>1, <2>2
<1> QED
  BY <1>1, <1>2, <1>4, <1>5, <1>6, <1>7, <1>8, <1>9, <1>10, <1>11 DEF Next, End

\* The invariant holds in every state of every behaviour.
THEOREM Safety == Spec => []IInv
<1>1. Init => IInv
  <2> SUFFICES ASSUME Init PROVE IInv
    OBVIOUS
  <2>1. TypeOK
    BY NewEntryType DEF Init, TypeOK, Idle, InFlight
  <2>2. \A k \in Key : EntryOK(entry[k])
    BY NewEntryOK DEF Init
  <2>3. HeldSlotHasHolder
    BY DEF Init, HeldSlotHasHolder, NoEntry, NewEntry
  <2> QED BY <2>1, <2>2, <2>3 DEF IInv
<1>2. IInv /\ [Next]_vars => IInv'
  <2> SUFFICES ASSUME IInv, [Next]_vars PROVE IInv'
    OBVIOUS
  <2>1. TypeOK'
    BY TypeStep DEF IInv
  <2> QED BY <2>1, EntryStep, HolderStep DEF IInv
<1> QED BY <1>1, <1>2, PTL DEF Spec

\* No closed breaker is at or above a threshold.
THEOREM ClosedIsBelowThresholds == Spec => []ClosedBelowThresholds
<1>1. IInv => ClosedBelowThresholds
  BY DEF IInv, EntryOK, ClosedBelowThresholds
<1> QED BY <1>1, Safety, PTL

\* A taken probe slot means half-open.
THEOREM SlotIsHalfOpen == Spec => []SlotOnlyInHalfOpen
<1>1. IInv => SlotOnlyInHalfOpen
  BY DEF IInv, EntryOK, SlotOnlyInHalfOpen
<1> QED BY <1>1, Safety, PTL

\* A half-open breaker is still short of the successes that close it.
THEOREM HalfOpenIsBelowSuccesses == Spec => []HalfOpenBelowSuccesses
<1>1. IInv => HalfOpenBelowSuccesses
  BY DEF IInv, EntryOK, HalfOpenBelowSuccesses
<1> QED BY <1>1, Safety, PTL

\* A taken slot has a holder in flight, unless an attempt that reports nothing
\* to the breaker left with it.
THEOREM SlotHasHolder == Spec => []HeldSlotHasHolder
<1>1. IInv => HeldSlotHasHolder
  BY DEF IInv
<1> QED BY <1>1, Safety, PTL

\* Whatever the planner sorted by, the loop's allow() agrees with it as long
\* as the entry and the instant are the same.
THEOREM PlannerIsRight == Spec => []PlannerAgrees
<1>1. TypeOK => PlannerAgrees
  <2> SUFFICES ASSUME TypeOK, NEW k \in Key
               PROVE  IsAvailable(entry[k], now) <=> Allows(entry[k], now)
    BY DEF PlannerAgrees
  <2>1. entry[k] \in Entry
    BY DEF TypeOK
  <2>2. entry[k].state \in {"absent", "closed", "open", "half_open"}
    BY <2>1 DEF Entry, BreakerState
  <2>3. CASE entry[k].state \in {"absent", "closed"}
    BY <2>3 DEF IsAvailable, Allows
  <2>4. CASE entry[k].state = "open"
    BY <2>4 DEF IsAvailable, Allows
  <2>5. CASE entry[k].state = "half_open"
    BY <2>5 DEF IsAvailable, Allows
  <2> QED BY <2>2, <2>3, <2>4, <2>5
<1> QED BY <1>1, TypeCorrect, PTL

\* No history of results, recoveries and resets leaves an inconsistent entry behind.
THEOREM AlwaysConsistent == Spec => []BreakersAreConsistent
<1>1. /\ ClosedBelowThresholds /\ SlotOnlyInHalfOpen
      /\ HalfOpenBelowSuccesses /\ PlannerAgrees
      => BreakersAreConsistent
  BY DEF BreakersAreConsistent
<1> QED
  BY <1>1, ClosedIsBelowThresholds, SlotIsHalfOpen, HalfOpenIsBelowSuccesses,
     PlannerIsRight, PTL

(***************************************************************************)
(* Refinement: one abstract step per concrete action, as the operators of  *)
(* BreakerEntry move the circuit.                                          *)
(***************************************************************************)
\* An open breaker leaves that state by its cool-down or by a reset only.
THEOREM OpenLasts == Spec => OpenUntilExpired
<1> DEFINE Leaves(k) == entry[k].state = "open" /\ entry'[k].state # "open"
           Legal(k) == \/ entry'[k] = NoEntry
                       \/ entry'[k].state = "half_open" /\ Expired(entry[k], now)
<1>1. ASSUME TypeOK, [Next]_vars, NEW j \in Key, Leaves(j) PROVE Legal(j)
  <2> USE DEF TypeOK
  <2>0. entry[j] \in Entry /\ now \in Nat
    BY <1>1
  <2>1. ASSUME NEW a \in Attempt, NEW k \in Key, Admit(a, k) PROVE Legal(j)
    <3>1. j = k
      BY <1>1, <2>1 DEF Admit
    <3>2. Allows(entry[j], now)
      BY <2>1, <3>1 DEF Admit
    <3>3. CircuitOf(AfterAllow(entry[j], now)) = "half_open"
      BY <1>1, <2>0, <3>2, AllowMoves
    <3>5. entry'[k] = AfterAllow(entry[k], now)
      BY <1>1, <2>1 DEF Admit
    <3>4. entry'[j].state = "half_open"
      BY <3>1, <3>3, <3>5 DEF CircuitOf
    <3> QED BY <1>1, <3>2, <3>4 DEF Allows
  <2>2. ASSUME NEW k \in Key, Refuse(k) PROVE FALSE
    <3>1. j = k /\ ~Allows(entry[j], now) /\ entry'[j] = AfterAllow(entry[j], now)
      BY <1>1, <2>2 DEF Refuse
    <3>2. CircuitOf(AfterAllow(entry[j], now)) = CircuitOf(entry[j])
      BY <2>0, <3>1, AllowMoves
    <3> QED BY <1>1, <3>1, <3>2 DEF CircuitOf
  <2>3. ASSUME NEW a \in Attempt, NEW ok \in BOOLEAN, Record(a, ok) PROVE FALSE
    <3>1. j = attempt[a].key /\ entry'[j] = AfterRecord(entry[j], ok, now)
      BY <1>1, <2>3 DEF Record, InFlight
    <3> QED BY <1>1, <3>1 DEF AfterRecord, Entry
  <2>4. ASSUME NEW a \in Attempt, Release(a) PROVE FALSE
    <3>1. j = attempt[a].key /\ entry'[j] = AfterRelease(entry[j])
      BY <1>1, <2>4 DEF Release, InFlight
    <3> QED BY <1>1, <3>1 DEF AfterRelease, Entry
  <2>5. ASSUME NEW a \in Attempt, EndUnrecorded(a) PROVE FALSE
    BY <1>1, <2>5 DEF EndUnrecorded
  <2>6. ASSUME NEW c, NEW m, Reset(c, m) PROVE Legal(j)
    BY <1>1, <2>6 DEF Reset
  <2>7. ASSUME Prune PROVE FALSE
    BY <1>1, <2>7 DEF Prune
  <2>8. ASSUME Tick PROVE FALSE
    BY <1>1, <2>8 DEF Tick
  <2>9. ASSUME UNCHANGED vars PROVE FALSE
    BY <1>1, <2>9 DEF vars
  <2>10. ASSUME NEW a \in Attempt, AnsweredWithError(a) PROVE FALSE
    BY <1>1, <2>10 DEF AnsweredWithError
  <2> QED
    BY <1>1, <2>1, <2>2, <2>3, <2>4, <2>5, <2>6, <2>7, <2>8, <2>9, <2>10 DEF Next, End
<1>2. TypeOK /\ [Next]_vars =>
        [\A k \in Key : entry[k].state = "open" /\ entry'[k].state # "open" =>
           \/ entry'[k] = NoEntry
           \/ entry'[k].state = "half_open" /\ Expired(entry[k], now)]_vars
  BY <1>1
<1> QED BY <1>2, TypeCorrect, PTL DEF Spec, OpenUntilExpired

\* Every step of the breakers is a step of the abstract circuits, or none.
LEMMA CircuitStep ==
  ASSUME TypeOK, [Next]_vars
  PROVE  [Circuit!Next]_Circuit!vars
<1> USE DEF TypeOK
<1> DEFINE cc == [k \in Key |-> CircuitOf(entry[k])]
           cs == [k \in Key |-> SinceOf(entry[k])]
           sv == [a \in Attempt |-> attempt[a].key]
<1>1. ASSUME UNCHANGED now, cc' = cc, cs' = cs, sv' = sv
      PROVE  UNCHANGED Circuit!vars
  BY <1>1 DEF Circuit!vars
<1>2. ASSUME NEW a \in Attempt, NEW k \in Key, Admit(a, k) PROVE Circuit!Next
  <2>0. attempt[a].key = NoKey /\ UNCHANGED now
    BY <1>2 DEF Admit, Idle
  <2>9. \A b \in Attempt : attempt'[b].key = IF b = a THEN k ELSE attempt[b].key
    BY <1>2 DEF Admit
  <2>1. sv[a] = NoKey /\ sv' = [sv EXCEPT ![a] = k]
    BY <2>0, <2>9
  <2>2. entry' = [entry EXCEPT ![k] = AfterAllow(entry[k], now)] /\ Allows(entry[k], now)
    BY <1>2 DEF Admit
  <2>3. CASE entry[k].state = "open"
    <3>1. /\ CircuitOf(AfterAllow(entry[k], now)) = "half_open"
          /\ SinceOf(AfterAllow(entry[k], now)) = 0
      BY <2>2, <2>3, AllowMoves
    <3>2. cc' = [cc EXCEPT ![k] = "half_open"] /\ cs' = [cs EXCEPT ![k] = 0]
      BY <2>2, <3>1
    <3>3. cc[k] = "open" /\ now - cs[k] >= OpenFor
      BY <2>2, <2>3 DEF CircuitOf, SinceOf, Allows, Expired
    <3>4. Circuit!BeginProbe(a, k)
      BY <2>0, <2>1, <3>2, <3>3 DEF Circuit!BeginProbe
    <3> QED BY <3>4 DEF Circuit!Next
  <2>4. CASE entry[k].state # "open"
    <3>1. /\ CircuitOf(AfterAllow(entry[k], now)) = CircuitOf(entry[k])
          /\ SinceOf(AfterAllow(entry[k], now)) = SinceOf(entry[k])
      BY <2>4, AllowMoves
    <3>2. cc' = cc /\ cs' = cs
      BY <2>2, <3>1
    <3>3. cc[k] # "open"
      BY <2>4 DEF CircuitOf
    <3>4. Circuit!Begin(a, k)
      BY <2>0, <2>1, <3>2, <3>3 DEF Circuit!Begin
    <3> QED BY <3>4 DEF Circuit!Next
  <2> QED BY <2>3, <2>4
<1>3. ASSUME NEW k \in Key, Refuse(k) PROVE UNCHANGED Circuit!vars
  <2>1. entry' = [entry EXCEPT ![k] = AfterAllow(entry[k], now)] /\ ~Allows(entry[k], now)
    BY <1>3 DEF Refuse
  <2>2. /\ CircuitOf(AfterAllow(entry[k], now)) = CircuitOf(entry[k])
        /\ SinceOf(AfterAllow(entry[k], now)) = SinceOf(entry[k])
    BY <2>1, AllowMoves
  <2>3. cc' = cc /\ cs' = cs
    BY <2>1, <2>2
  <2>4. UNCHANGED now /\ sv' = sv
    BY <1>3 DEF Refuse
  <2> QED BY <1>1, <2>3, <2>4
<1>4. ASSUME NEW a \in Attempt, attempt[a].key # NoKey,
             attempt' = [attempt EXCEPT ![a] = Idle]
      PROVE  attempt[a].key \in Key /\ sv[a] = attempt[a].key /\ sv' = [sv EXCEPT ![a] = NoKey]
  BY <1>4 DEF InFlight, Idle
<1>5. ASSUME NEW a \in Attempt, NEW ok \in BOOLEAN, Record(a, ok) PROVE Circuit!Next
  <2> DEFINE k == attempt[a].key
             r == AfterRecord(entry[k], ok, now)
  <2>1. k \in Key /\ sv[a] = k /\ sv' = [sv EXCEPT ![a] = NoKey]
    BY <1>4, <1>5 DEF Record
  <2>2. k # NoKey /\ UNCHANGED now /\ entry' = [entry EXCEPT ![k] = r]
    BY <1>5 DEF Record
  <2>3. cc' = [cc EXCEPT ![k] = CircuitOf(r)] /\ cs' = [cs EXCEPT ![k] = SinceOf(r)]
    <3> HIDE DEF k, r
    <3> QED BY <2>1, <2>2
  <2>4. cc[k] = CircuitOf(entry[k]) /\ cs[k] = SinceOf(entry[k])
    BY <2>1
  <2>5. CASE CircuitOf(r) = cc[k] /\ SinceOf(r) = cs[k]
    <3>1. cc' = cc /\ cs' = cs
      BY <2>3, <2>5
    <3>2. Circuit!Finish(a)
      BY <2>1, <2>2, <3>1 DEF Circuit!Finish
    <3> QED BY <3>2 DEF Circuit!Next
  <2>6. CASE cc[k] # "open" /\ CircuitOf(r) = "open" /\ SinceOf(r) = now
    <3>1. Circuit!Trip(a)
      BY <2>1, <2>2, <2>3, <2>6 DEF Circuit!Trip
    <3> QED BY <3>1 DEF Circuit!Next
  <2>7. CASE cc[k] = "half_open" /\ CircuitOf(r) = "closed" /\ SinceOf(r) = cs[k]
    <3>1. cs' = cs
      BY <2>3, <2>7
    <3>2. Circuit!Recover(a)
      BY <2>1, <2>2, <2>3, <2>7, <3>1 DEF Circuit!Recover
    <3> QED BY <3>2 DEF Circuit!Next
  <2> QED BY <2>1, <2>4, <2>5, <2>6, <2>7, RecordMoves
<1>6. ASSUME NEW a \in Attempt, Release(a) PROVE Circuit!Next
  <2>1. attempt[a].key \in Key /\ sv[a] = attempt[a].key /\ sv' = [sv EXCEPT ![a] = NoKey]
    BY <1>4, <1>6 DEF Release
  <2>2. /\ CircuitOf(AfterRelease(entry[attempt[a].key])) = CircuitOf(entry[attempt[a].key])
        /\ SinceOf(AfterRelease(entry[attempt[a].key])) = SinceOf(entry[attempt[a].key])
    BY <2>1 DEF AfterRelease, CircuitOf, SinceOf, Entry
  <2>3. cc' = cc /\ cs' = cs
    BY <1>6, <2>1, <2>2 DEF Release
  <2>4. Circuit!Finish(a)
    BY <1>6, <2>1, <2>3 DEF Release, Circuit!Finish
  <2> QED BY <2>4 DEF Circuit!Next
<1>7. ASSUME NEW a \in Attempt, EndUnrecorded(a) PROVE Circuit!Next
  <2>1. attempt[a].key \in Key /\ sv[a] = attempt[a].key /\ sv' = [sv EXCEPT ![a] = NoKey]
    BY <1>4, <1>7 DEF EndUnrecorded
  <2>2. cc' = cc /\ cs' = cs
    BY <1>7 DEF EndUnrecorded
  <2>3. Circuit!Finish(a)
    BY <1>7, <2>1, <2>2 DEF EndUnrecorded, Circuit!Finish
  <2> QED BY <2>3 DEF Circuit!Next
<1>8. ASSUME NEW c, NEW m, Reset(c, m) PROVE Circuit!Next
  <2> DEFINE hit == {k \in Key : c \in {k[1], Every} /\ m \in {k[2], Every}}
  <2>1. entry' = [k \in Key |-> IF k \in hit THEN NoEntry ELSE entry[k]]
    BY <1>8 DEF Reset
  <2>2. CircuitOf(NoEntry) = "closed" /\ SinceOf(NoEntry) = 0
    BY DEF CircuitOf, SinceOf, NoEntry, NewEntry
  <2>3. hit \in SUBSET Key
    OBVIOUS
  <2> HIDE DEF hit
  <2>4. cc' = [k \in Key |-> IF k \in hit THEN "closed" ELSE cc[k]]
    BY <2>1, <2>2
  <2>5. cs' = [k \in Key |-> IF k \in hit THEN 0 ELSE cs[k]]
    BY <2>1, <2>2
  <2>6. UNCHANGED now /\ sv' = sv
    BY <1>8 DEF Reset
  <2>7. Circuit!Reset(hit)
    BY <2>4, <2>5, <2>6 DEF Circuit!Reset
  <2> QED BY <2>3, <2>7 DEF Circuit!Next
<1>9. ASSUME Prune PROVE UNCHANGED Circuit!vars
  <2>1. \A k \in Key : /\ CircuitOf(entry'[k]) = CircuitOf(entry[k])
                      /\ SinceOf(entry'[k]) = SinceOf(entry[k])
    BY <1>9 DEF Prune, CircuitOf, SinceOf, NoEntry, NewEntry
  <2>2. cc' = cc /\ cs' = cs
    BY <2>1
  <2>3. UNCHANGED now /\ sv' = sv
    BY <1>9 DEF Prune
  <2> QED BY <1>1, <2>2, <2>3
<1>10. ASSUME Tick PROVE Circuit!Next
  <2>1. now' = now + 1 /\ cc' = cc /\ cs' = cs /\ sv' = sv
    BY <1>10 DEF Tick
  <2>2. Circuit!Tick
    BY <2>1 DEF Circuit!Tick
  <2> QED BY <2>2 DEF Circuit!Next
<1>11. ASSUME UNCHANGED vars PROVE UNCHANGED Circuit!vars
  <2>1. UNCHANGED now /\ cc' = cc /\ cs' = cs /\ sv' = sv
    BY <1>11 DEF vars
  <2> QED BY <1>1, <2>1
<1>12. ASSUME NEW a \in Attempt, AnsweredWithError(a) PROVE UNCHANGED Circuit!vars
  <2>1. UNCHANGED now /\ cc' = cc /\ cs' = cs
    BY <1>12 DEF AnsweredWithError
  <2>2. \A b \in Attempt : attempt'[b].key = attempt[b].key
    BY <1>12 DEF AnsweredWithError, InFlight
  <2>3. sv' = sv
    BY <2>2
  <2> QED BY <1>1, <2>1, <2>3
<1> QED
  BY <1>2, <1>3, <1>5, <1>6, <1>7, <1>8, <1>9, <1>10, <1>11, <1>12 DEF Next, End

\* The breakers of the gateway implement the abstract circuit breaker.
THEOREM Implements == Spec => ImplementsCircuit
<1>1. Init => Circuit!Init
  <2> SUFFICES ASSUME Init PROVE Circuit!Init
    OBVIOUS
  <2>1. CircuitOf(NoEntry) = "closed" /\ SinceOf(NoEntry) = 0
    BY DEF CircuitOf, SinceOf, NoEntry, NewEntry
  <2> QED BY <2>1 DEF Init, Idle, Circuit!Init
<1>2. TypeOK /\ [Next]_vars => [Circuit!Next]_Circuit!vars
  BY CircuitStep
<1> QED BY <1>1, <1>2, TypeCorrect, PTL DEF Spec, ImplementsCircuit, Circuit!Spec
===============================================================================
