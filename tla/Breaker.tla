-------------------------------- MODULE Breaker --------------------------------
(***************************************************************************)
(* The circuit breakers (channel x model) of health/breaker.rs, driven by  *)
(* concurrent attempts the way forward::run drives them: allow() before    *)
(* the attempt, then, once the upstream has answered, record() or          *)
(* release() or nothing at all, depending on the kind of answer.           *)
(*                                                                         *)
(* allow, record, release, reset and prune each run under the mutex of the *)
(* map, so each is one action.  Between allow() and the result lies the    *)
(* await of try_once: other attempts, resets and the clock interleave.     *)
(***************************************************************************)
EXTENDS BreakerEntry

CONSTANTS
  Channel, Model,  \* the breakers are indexed by Channel \X Model
  Every,           \* "no restriction", in the filter of a reset
  Attempt,         \* slots for the attempts in flight at one time
  NoKey,           \* an idle slot's key
  IdleFor,         \* prune(idle_ms), in ticks
  MaxNow           \* bound on the clock

Key == Channel \X Model

ASSUME KeyAssumption == NoKey \notin Key /\ Every \notin Channel \cup Model
ASSUME ClockAssumption == IdleFor \in Nat /\ MaxNow \in Nat

VARIABLES
  now,      \* the wall clock
  entry,    \* Breakers::map
  attempt,  \* the attempts between allow() and their result; refused: the
            \* upstream has answered with an error status and its body is
            \* being read; probe is a history field: this attempt was
            \* granted a half-open probe
  leaked    \* history: the slot was left taken by an attempt that is over

vars == <<now, entry, attempt, leaked>>

InFlight == [key: Key \cup {NoKey}, probe: BOOLEAN, refused: BOOLEAN]
Idle == [key |-> NoKey, probe |-> FALSE, refused |-> FALSE]

TypeOK ==
  /\ now \in Nat
  /\ entry \in [Key -> Entry]
  /\ attempt \in [Attempt -> InFlight]
  /\ leaked \in [Key -> BOOLEAN]

Init ==
  /\ now = 0
  /\ entry = [k \in Key |-> NoEntry]
  /\ attempt = [a \in Attempt |-> Idle]
  /\ leaked = [k \in Key |-> FALSE]

-------------------------------------------------------------------------------
\* allow() lets the candidate through: the attempt goes to the upstream.
Admit(a, k) ==
  /\ attempt[a] = Idle
  /\ Allows(entry[k], now)
  /\ entry' = [entry EXCEPT ![k] = AfterAllow(@, now)]
  /\ attempt' = [attempt EXCEPT ![a] = [key |-> k, refused |-> FALSE,
                                        probe |-> GrantsProbe(entry[k], now)]]
  /\ UNCHANGED <<now, leaked>>

\* allow() turns it away: forward::run goes on to its next candidate.
Refuse(k) ==
  /\ ~Allows(entry[k], now)
  /\ entry' = [entry EXCEPT ![k] = AfterAllow(@, now)]
  /\ UNCHANGED <<now, attempt, leaked>>

\* The headers tell an error status: try_once goes on to error_body(), whose
\* read of the body has no timeout of its own.
AnsweredWithError(a) ==
  /\ attempt[a].key # NoKey
  /\ ~attempt[a].refused
  /\ attempt' = [attempt EXCEPT ![a].refused = TRUE]
  /\ UNCHANGED <<now, entry, leaked>>

\* Done or Committed (ok), Empty or Retryable (not ok): record().  What came
\* with an error status is never a success.
Record(a, ok) ==
  LET k == attempt[a].key IN
  /\ k # NoKey
  /\ ok => ~attempt[a].refused
  /\ entry' = [entry EXCEPT ![k] = AfterRecord(@, ok, now)]
  /\ attempt' = [attempt EXCEPT ![a] = Idle]
  /\ leaked' = [leaked EXCEPT ![k] = FALSE]
  /\ UNCHANGED now

\* Fatal: release().
Release(a) ==
  LET k == attempt[a].key IN
  /\ k # NoKey
  /\ entry' = [entry EXCEPT ![k] = AfterRelease(@)]
  /\ attempt' = [attempt EXCEPT ![a] = Idle]
  /\ leaked' = [leaked EXCEPT ![k] = FALSE]
  /\ UNCHANGED now

\* CoolKey, DisableKey, Rectifiable or TooLong, and a client that goes away,
\* which drops the future in the middle of try_once: the breaker is not told.
EndUnrecorded(a) ==
  LET k == attempt[a].key IN
  /\ k # NoKey
  /\ attempt' = [attempt EXCEPT ![a] = Idle]
  /\ leaked' = [leaked EXCEPT ![k] = @ \/ (attempt[a].probe /\ entry[k].probe)]
  /\ UNCHANGED <<now, entry>>

\* The administrator's reset, by channel and/or model.
Reset(c, m) ==
  LET hit == {k \in Key : c \in {k[1], Every} /\ m \in {k[2], Every}} IN
  /\ entry' = [k \in Key |-> IF k \in hit THEN NoEntry ELSE entry[k]]
  /\ leaked' = [k \in Key |-> k \notin hit /\ leaked[k]]
  /\ UNCHANGED <<now, attempt>>

\* The hourly maintenance forgets the closed entries nobody used lately.
Prune ==
  /\ entry' = [k \in Key |->
                 IF entry[k].state = "closed" /\ now - entry[k].lastSeen >= IdleFor
                 THEN NoEntry ELSE entry[k]]
  /\ UNCHANGED <<now, attempt, leaked>>

Tick ==
  /\ now < MaxNow
  /\ now' = now + 1
  /\ UNCHANGED <<entry, attempt, leaked>>

\* An attempt comes to its end.
End(a) == (\E ok \in BOOLEAN : Record(a, ok)) \/ Release(a) \/ EndUnrecorded(a)

Next ==
  \/ \E a \in Attempt, k \in Key : Admit(a, k)
  \/ \E k \in Key : Refuse(k)
  \/ \E a \in Attempt : AnsweredWithError(a)
  \/ \E a \in Attempt : End(a)
  \/ \E c \in Channel \cup {Every}, m \in Model \cup {Every} : Reset(c, m)
  \/ Prune
  \/ Tick

Spec == Init /\ [][Next]_vars

\* send(), the read of a good answer's body and each wait for a chunk carry a
\* timeout: an attempt that is not refused ends, or its error status comes.
\* The body of an error has none (upstream/mod.rs:214), so a refused attempt
\* may stay where it is.  No fairness is asked of it, of requests, of the
\* administrator or of the clock.
Timed(a) == ~attempt[a].refused /\ (End(a) \/ AnsweredWithError(a))

FairSpec == Spec /\ \A a \in Attempt : WF_vars(Timed(a))

-------------------------------------------------------------------------------
\* A breaker in rotation is below both of its thresholds: no sequence of
\* late results, resets and recoveries leaves one closed that ought to be open.
ClosedBelowThresholds ==
  \A k \in Key : entry[k].state \in {"absent", "closed"} =>
    /\ entry[k].failures < FailureThreshold
    /\ ~RateTrips(entry[k])

\* The probe slot is only ever taken in the half-open state: once the breaker
\* has closed, reopened or been reset, no stale flag can refuse a later probe.
SlotOnlyInHalfOpen ==
  \A k \in Key : entry[k].probe => entry[k].state = "half_open"

\* A half-open breaker has not yet seen the successes that close it.
HalfOpenBelowSuccesses ==
  \A k \in Key : entry[k].state = "half_open" => entry[k].successes < SuccessThreshold

\* A taken slot belongs to an attempt still in flight, unless an attempt
\* that told the breaker nothing ended with it: that is the only leak.
HeldSlotHasHolder ==
  \A k \in Key : entry[k].probe =>
    leaked[k] \/ \E a \in Attempt : attempt[a].key = k /\ attempt[a].probe

\* The planner and the loop agree: is_available() predicts, for a given entry
\* and instant, what allow() will answer, though each computes it its own way.
PlannerAgrees ==
  \A k \in Key : IsAvailable(entry[k], now) <=> Allows(entry[k], now)

\* No order of late results, recoveries and resets leaves an entry behind that
\* breaker.rs could not have meant: each part is about one way for a counter, or
\* the flag of the slot, to outlive what it was counted for.
BreakersAreConsistent ==
  /\ ClosedBelowThresholds
  /\ SlotOnlyInHalfOpen
  /\ HalfOpenBelowSuccesses
  /\ PlannerAgrees

\* A breaker leaves the open state by its cool-down or by a reset only: no
\* late success of an attempt admitted earlier closes it.
OpenUntilExpired ==
  [][\A k \in Key : entry[k].state = "open" /\ entry'[k].state # "open" =>
        \/ entry'[k] = NoEntry
        \/ entry'[k].state = "half_open" /\ Expired(entry[k], now)]_vars

\* The one thing that can hold a slot for ever: its probe waits for the rest
\* of an error's body, which no timeout ends.
StandsAtErrorBody(k) ==
  \E a \in Attempt : attempt[a].key = k /\ attempt[a].probe /\ attempt[a].refused

\* A slot that has not leaked is given back (breaker.rs: release(), record()):
\* it stays taken for good only under a probe that stands at an error's body
\* for good.
SlotIsGivenBack ==
  \A k \in Key :
    <>[](entry[k].probe /\ ~leaked[k]) => <>[]StandsAtErrorBody(k)

\* The map of breakers implements an abstract circuit breaker per key.
Circuit == INSTANCE CircuitBreaker WITH
  circuit <- [k \in Key |-> CircuitOf(entry[k])],
  since   <- [k \in Key |-> SinceOf(entry[k])],
  serving <- [a \in Attempt |-> attempt[a].key]

\* breaker.rs implements the abstract circuit breaker: no attempt starts on an
\* open one early, and only its own attempts or a reset move it.
ImplementsCircuit == Circuit!Spec

\* What the comments of breaker.rs promise, and the code does not keep.
\*
\* breaker.rs:13 and :206: the slot is returned on the paths without a result,
\* so that it never stays taken with no probe in flight.
NoOrphanedProbe ==
  \A k \in Key : entry[k].probe =>
    \E a \in Attempt : attempt[a].key = k /\ attempt[a].probe

\* breaker.rs:8 and :67: in the half-open state, one probe at a time.
AtMostOneProbe ==
  \A k \in Key : entry[k].state = "half_open" =>
    \A a, b \in Attempt :
      (attempt[a].probe /\ attempt[b].probe /\ attempt[a].key = k /\ attempt[b].key = k)
        => a = b
===============================================================================
