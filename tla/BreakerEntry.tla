----------------------------- MODULE BreakerEntry -----------------------------
(***************************************************************************)
(* One entry of the circuit-breaker map of health/breaker.rs, and what     *)
(* allow(), record() and release() make of it.  Pure operators on the      *)
(* entry record: Breaker composes them with attempts running concurrently, *)
(* Forward with the candidate loop.                                        *)
(*                                                                         *)
(* Instants and durations are abstract ticks.  The wall clock is assumed   *)
(* not to run backwards.  An operator whose name has an underscore is a    *)
(* plausible bug in the one that follows it: the model checker must notice *)
(* when it takes its place.                                                *)
(***************************************************************************)
EXTENDS Integers

CONSTANTS
  FailureThreshold,  \* BreakerSettings::failure_threshold
  SuccessThreshold,  \* BreakerSettings::success_threshold
  OpenFor,           \* BreakerSettings::open_secs, in ticks
  ErrorRatePct,      \* BreakerSettings::error_rate_threshold, in percent
  MinRequests        \* BreakerSettings::min_requests; 0 disables the rate

ASSUME BreakerAssumption ==
  /\ FailureThreshold \in Nat \ {0}
  /\ SuccessThreshold \in Nat \ {0}
  /\ OpenFor \in Nat
  /\ ErrorRatePct \in 0..100
  /\ MinRequests \in Nat

\* "absent" stands for a key the map does not hold.
BreakerState == {"absent", "closed", "open", "half_open"}

Entry == [state: BreakerState, opened: Nat, failures: Nat, successes: Nat,
          total: Nat, failed: Nat, probe: BOOLEAN, lastSeen: Nat]

NewEntry(t) ==
  [state |-> "closed", opened |-> 0, failures |-> 0, successes |-> 0,
   total |-> 0, failed |-> 0, probe |-> FALSE, lastSeen |-> t]

NoEntry == [NewEntry(0) EXCEPT !.state = "absent"]

Expired_Early(e, t) == t - e.opened + 1 >= OpenFor
Expired(e, t) == t - e.opened >= OpenFor

\* What allow() answers at instant t.
Allows(e, t) ==
  \/ e.state \in {"absent", "closed"}
  \/ e.state = "open" /\ Expired(e, t)
  \/ e.state = "half_open" /\ ~e.probe

\* Whether that answer hands out the probe slot of a half-open breaker.
GrantsProbe(e, t) == e.state \in {"open", "half_open"} /\ Allows(e, t)

\* What allow() leaves behind, whatever it answers.
AfterAllow(e, t) ==
  LET seen == IF e.state = "absent" THEN NewEntry(t)
                                    ELSE [e EXCEPT !.lastSeen = t]
  IN  IF GrantsProbe(e, t)
      THEN [seen EXCEPT !.state = "half_open", !.probe = TRUE,
                        !.successes = IF e.state = "open" THEN 0 ELSE @]
      ELSE seen

IsAvailable_IgnoresProbe(e, t) == e.state = "open" => Expired(e, t)
\* The read-only answer the planner uses to sort its candidates.
IsAvailable(e, t) ==
  CASE e.state \in {"absent", "closed"} -> TRUE
    [] e.state = "open"                 -> Expired(e, t)
    [] e.state = "half_open"            -> ~e.probe

\* The error-rate condition: failed / total >= error_rate_threshold.
RateTrips(e) ==
  MinRequests > 0 /\ e.total >= MinRequests /\ e.failed * 100 >= ErrorRatePct * e.total

Trips(e) == e.failures >= FailureThreshold \/ RateTrips(e)

RecordClosed_Backdated(e, ok, t) ==
  LET f == [e EXCEPT !.total = @ + 1, !.failed = @ + 1, !.failures = @ + 1]
  IN  IF ok THEN [e EXCEPT !.failures = 0]
      ELSE IF Trips(f) THEN [f EXCEPT !.state = "open", !.opened = t - OpenFor] ELSE f
RecordClosed(e, ok, t) ==
  LET f == [e EXCEPT !.total = @ + 1, !.failed = @ + 1, !.failures = @ + 1]
  IN  IF ok THEN [e EXCEPT !.failures = 0]
      ELSE IF Trips(f) THEN [f EXCEPT !.state = "open", !.opened = t] ELSE f

RecordHalfOpen_KeepsCounts(e, ok, t) ==
  IF ~ok THEN [e EXCEPT !.state = "open", !.opened = t]
  ELSE IF e.successes + 1 < SuccessThreshold THEN [e EXCEPT !.successes = @ + 1]
  ELSE [e EXCEPT !.state = "closed"]

RecordHalfOpen_OneMore(e, ok, t) ==
  IF ~ok THEN [e EXCEPT !.state = "open", !.opened = t]
  ELSE IF e.successes < SuccessThreshold THEN [e EXCEPT !.successes = @ + 1]
  ELSE NewEntry(t)

RecordHalfOpen(e, ok, t) ==
  IF ~ok THEN [e EXCEPT !.state = "open", !.opened = t]
  ELSE IF e.successes + 1 < SuccessThreshold THEN [e EXCEPT !.successes = @ + 1]
  ELSE [e EXCEPT !.state = "closed", !.failures = 0, !.successes = 0,
                 !.total = 0, !.failed = 0]

AfterRecord_KeepsSlot(e, ok, t) ==
  LET seen == [e EXCEPT !.lastSeen = t]
  IN  CASE e.state = "absent"    -> e
        [] e.state = "closed"    -> RecordClosed(seen, ok, t)
        [] e.state = "half_open" -> RecordHalfOpen(seen, ok, t)
        [] e.state = "open"      -> seen

AfterRecord_CountsLateResults(e, ok, t) ==
  LET seen == [e EXCEPT !.lastSeen = t, !.probe = FALSE]
  IN  CASE e.state = "absent"             -> e
        [] e.state = "closed"             -> RecordClosed(seen, ok, t)
        [] e.state \in {"half_open", "open"} -> RecordHalfOpen(seen, ok, t)

\* record(): the result of an attempt, whichever state the entry is in by then.
AfterRecord(e, ok, t) ==
  LET seen == [e EXCEPT !.lastSeen = t, !.probe = FALSE]
  IN  CASE e.state = "absent"    -> e
        [] e.state = "closed"    -> RecordClosed(seen, ok, t)
        [] e.state = "half_open" -> RecordHalfOpen(seen, ok, t)
        [] e.state = "open"      -> seen

AfterRelease_KeepsSlot(e) == e

\* release(): the attempt had no result.
AfterRelease(e) == [e EXCEPT !.probe = FALSE]

\* What CircuitBreaker knows of an entry: one the map does not hold is closed.
CircuitOf(e) == IF e.state = "absent" THEN "closed" ELSE e.state
SinceOf(e) == IF e.state = "open" THEN e.opened ELSE 0
===============================================================================
