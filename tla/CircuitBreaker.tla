----------------------------- MODULE CircuitBreaker -----------------------------
(***************************************************************************)
(* What a circuit breaker promises the gateway, without counters or slots: *)
(* no attempt starts on an open circuit before it has been open for        *)
(* OpenFor; an open circuit closes only through the half-open state or by  *)
(* a reset; and only the end of an attempt on that very circuit trips it,  *)
(* reopens it or brings it back.                                           *)
(***************************************************************************)
EXTENDS Integers

CONSTANTS Key, Attempt, NoKey, OpenFor

VARIABLES
  now,
  circuit,  \* [Key -> {"closed", "open", "half_open"}]
  since,    \* when an open circuit opened; 0 for the others
  serving   \* the circuit each attempt in flight uses, or NoKey

vars == <<now, circuit, since, serving>>

Init ==
  /\ now = 0
  /\ circuit = [k \in Key |-> "closed"]
  /\ since = [k \in Key |-> 0]
  /\ serving = [a \in Attempt |-> NoKey]

Begin(a, k) ==
  /\ serving[a] = NoKey
  /\ circuit[k] # "open"
  /\ serving' = [serving EXCEPT ![a] = k]
  /\ UNCHANGED <<now, circuit, since>>

BeginProbe(a, k) ==
  /\ serving[a] = NoKey
  /\ circuit[k] = "open" /\ now - since[k] >= OpenFor
  /\ serving' = [serving EXCEPT ![a] = k]
  /\ circuit' = [circuit EXCEPT ![k] = "half_open"]
  /\ since' = [since EXCEPT ![k] = 0]
  /\ UNCHANGED now

\* An attempt ends and its result leaves the circuit as it is.
Finish(a) ==
  /\ serving[a] # NoKey
  /\ serving' = [serving EXCEPT ![a] = NoKey]
  /\ UNCHANGED <<now, circuit, since>>

\* Its failure opens the circuit, from closed or from half-open.
Trip(a) ==
  LET k == serving[a] IN
  /\ k # NoKey
  /\ circuit[k] # "open"
  /\ serving' = [serving EXCEPT ![a] = NoKey]
  /\ circuit' = [circuit EXCEPT ![k] = "open"]
  /\ since' = [since EXCEPT ![k] = now]
  /\ UNCHANGED now

\* Its success closes a half-open circuit.
Recover(a) ==
  LET k == serving[a] IN
  /\ k # NoKey
  /\ circuit[k] = "half_open"
  /\ serving' = [serving EXCEPT ![a] = NoKey]
  /\ circuit' = [circuit EXCEPT ![k] = "closed"]
  /\ UNCHANGED <<now, since>>

Reset(ks) ==
  /\ circuit' = [k \in Key |-> IF k \in ks THEN "closed" ELSE circuit[k]]
  /\ since' = [k \in Key |-> IF k \in ks THEN 0 ELSE since[k]]
  /\ UNCHANGED <<now, serving>>

Tick ==
  /\ now' = now + 1
  /\ UNCHANGED <<circuit, since, serving>>

Next ==
  \/ \E a \in Attempt, k \in Key : Begin(a, k) \/ BeginProbe(a, k)
  \/ \E a \in Attempt : Finish(a) \/ Trip(a) \/ Recover(a)
  \/ \E ks \in SUBSET Key : Reset(ks)
  \/ Tick

Spec == Init /\ [][Next]_vars
===============================================================================
