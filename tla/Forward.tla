-------------------------------- MODULE Forward --------------------------------
(***************************************************************************)
(* forward::run(): the loop over the planned candidates of a request, as   *)
(* run by concurrent requests over the shared circuit breakers, cooldowns  *)
(* and sticky sessions; and what surrounds it in api/messages.rs: the gate *)
(* on requests in flight and the row of request_logs.                      *)
(*                                                                         *)
(* The guards of the loop and the handling of a result run without an      *)
(* await, so each is one step; the upstream call and a rectification are   *)
(* awaited, and other requests, the clock and the client's departure       *)
(* interleave there.  Breakers are those of BreakerEntry.                  *)
(***************************************************************************)
EXTENDS BreakerEntry, Sequences, FiniteSets

CONSTANTS
  Request, Session,
  Candidate,         \* entry x key, as the planner expands them
  Breaker, Pair,     \* channel x model, upstream key x model
  BreakerOf, PairOf, \* those of a candidate
  Plans,             \* the orders in which the planner may put candidates, each once
  None,              \* no candidate, no session, no answer
  MaxInflight,       \* Config::max_inflight
  MaxAttempts,       \* Settings::max_attempts
  MaxFixes,          \* rectifications the upstream's errors allow, per candidate
  Budget,            \* Settings::precommit_budget_ms, in ticks
  CoolFor,           \* the duration of a cooldown, in ticks
  MaxNow             \* bound on the clock

ASSUME ForwardAssumption ==
  /\ BreakerOf \in [Candidate -> Breaker] /\ PairOf \in [Candidate -> Pair]
  /\ IsFiniteSet(Candidate) /\ Plans \subseteq Seq(Candidate)
  /\ \A plan \in Plans : \A i, j \in DOMAIN plan : plan[i] = plan[j] => i = j
  /\ None \notin Candidate \cup Session \cup Breaker \cup {"content", "empty", "error"}
  /\ MaxInflight \in Nat /\ MaxAttempts \in Nat /\ MaxFixes \in Nat
  /\ Budget \in Nat /\ CoolFor \in Nat /\ MaxNow \in Nat

VARIABLES
  now,
  entry,   \* Breakers::map
  until,   \* Cooldowns::map
  sticky,  \* Sessions::map: the candidate a session is bound to
  req      \* the requests: see Req

vars == <<now, entry, until, sticky, req>>

\* at: where the request is.  try_once is "waiting" for a status; after a 2xx it
\* is "reading", and the pipeline of a streaming attempt exists; after another
\* status it is "refused": the error's body is read, and the request rectified.
\* "streaming" is after the handler has returned.  fallback is the
\* candidate whose empty message is kept.  rows counts the rows of request_logs
\* written under the request's id; gone and answer are history.
Req == [at: {"idle", "loop", "waiting", "reading", "refused", "streaming", "done"},
        session: Session \cup {None}, streamed: BOOLEAN, plan: Seq(Candidate),
        attempts: Nat, fixes: Nat, fallback: Candidate \cup {None},
        start: Nat, rows: Nat, gone: BOOLEAN,
        answer: {None, "content", "empty", "error"}]

NoReq == [at |-> "idle", session |-> None, streamed |-> FALSE, plan |-> <<>>,
          attempts |-> 0, fixes |-> 0, fallback |-> None, start |-> 0,
          rows |-> 0, gone |-> FALSE, answer |-> None]

\* Types; and an attempt uses up its candidate, however often it is rectified.
TypeOK ==
  /\ now \in Nat
  /\ entry \in [Breaker -> Entry]
  /\ until \in [Pair -> Nat]
  /\ sticky \in [Session -> Candidate \cup {None}]
  /\ req \in [Request -> Req]
  /\ \A r \in Request : /\ req[r].attempts <= MaxAttempts
                        /\ req[r].attempts + Len(req[r].plan) <= Cardinality(Candidate) + 1

Init ==
  /\ now = 0
  /\ entry = [b \in Breaker |-> NoEntry]
  /\ until = [p \in Pair |-> 0]
  /\ sticky = [s \in Session |-> None]
  /\ req = [r \in Request |-> NoReq]

Trying(r) == req[r].at \in {"waiting", "reading", "refused"}

\* The requests that hold a permit of the gate: it is the handler's.
Permits == {r \in Request : req[r].at = "loop" \/ Trying(r)}
Current(r) == Head(req[r].plan)
Circuit(r) == BreakerOf[Current(r)]

-------------------------------------------------------------------------------
\* messages(): the handler takes a permit and plans the request.
Arrive(r, s, streamed, plan) ==
  /\ req[r].at = "idle"
  /\ Cardinality(Permits) < MaxInflight
  /\ req' = [req EXCEPT ![r] = [NoReq EXCEPT !.at = "loop", !.session = s, !.start = now,
                                             !.streamed = streamed, !.plan = plan]]
  /\ UNCHANGED <<now, entry, until, sticky>>

\* The head of the loop: what keeps the next candidate from being tried.
Exhausted(r) == req[r].plan = <<>> \/ req[r].attempts >= MaxAttempts
OverBudget(r) == now - req[r].start > Budget

\* No candidate is left: the last empty message, or else the last error, which
\* the handler logs.  Which error the client is told is left out.
Conclude(r) ==
  /\ req[r].at = "loop" /\ (Exhausted(r) \/ OverBudget(r))
  /\ req' = [req EXCEPT ![r] =
       IF req[r].fallback # None
       THEN [req[r] EXCEPT !.at = "done", !.answer = "empty"]
       ELSE [req[r] EXCEPT !.at = "done", !.answer = "error", !.rows = @ + 1]]
  /\ UNCHANGED <<now, entry, until, sticky>>

InLoop(r) == req[r].at = "loop" /\ ~Exhausted(r) /\ ~OverBudget(r)
Cooling(r) == until[PairOf[Current(r)]] > now

SkipCooling_Waits(r) == InLoop(r) /\ Cooling(r) /\ UNCHANGED vars

\* The candidate is passed over: its key is cooling for the model...
SkipCooling(r) ==
  /\ InLoop(r) /\ Cooling(r)
  /\ req' = [req EXCEPT ![r].plan = Tail(@)]
  /\ UNCHANGED <<now, entry, until, sticky>>

\* ... or allow() refuses it.
SkipRefused(r) ==
  /\ InLoop(r) /\ ~Cooling(r) /\ ~Allows(entry[Circuit(r)], now)
  /\ entry' = [entry EXCEPT ![Circuit(r)] = AfterAllow(@, now)]
  /\ req' = [req EXCEPT ![r].plan = Tail(@)]
  /\ UNCHANGED <<now, until, sticky>>

Begin_Unheeded(r) ==
  /\ InLoop(r) /\ ~Cooling(r)
  /\ entry' = [entry EXCEPT ![Circuit(r)] = AfterAllow(@, now)]
  /\ req' = [req EXCEPT ![r] = [req[r] EXCEPT !.at = "waiting", !.attempts = @ + 1]]
  /\ UNCHANGED <<now, until, sticky>>
Begin(r) ==
  /\ InLoop(r) /\ ~Cooling(r) /\ Allows(entry[Circuit(r)], now)
  /\ entry' = [entry EXCEPT ![Circuit(r)] = AfterAllow(@, now)]
  /\ req' = [req EXCEPT ![r] = [req[r] EXCEPT !.at = "waiting", !.attempts = @ + 1]]
  /\ UNCHANGED <<now, until, sticky>>

-------------------------------------------------------------------------------
\* The upstream answers with a status: what follows is read.
Status(r, at) ==
  /\ req[r].at = "waiting"
  /\ req' = [req EXCEPT ![r].at = at]
  /\ UNCHANGED <<now, entry, until, sticky>>
Accepted(r) == Status(r, "reading")
Refused(r) == Status(r, "refused")

Told(r, ok) == entry' = [entry EXCEPT ![Circuit(r)] = AfterRecord(@, ok, now)]

\* Done or Committed: a success, and the session is bound to the candidate.  A
\* stream's row is left to its pipeline.
Content(r) ==
  /\ req[r].at = "reading"
  /\ Told(r, TRUE)
  /\ sticky' = [s \in Session |-> IF s = req[r].session THEN Current(r) ELSE sticky[s]]
  /\ req' = [req EXCEPT ![r] =
       IF req[r].streamed THEN [req[r] EXCEPT !.at = "streaming", !.answer = "content"]
                          ELSE [req[r] EXCEPT !.at = "done", !.answer = "content", !.rows = @ + 1]]
  /\ UNCHANGED <<now, until>>

Another_Again(r, rows) ==
  [req[r] EXCEPT !.at = "loop", !.fixes = 0, !.rows = @ + rows]
\* On to the next candidate, with so many more rows in the log.
Another(r, rows) ==
  [req[r] EXCEPT !.at = "loop", !.plan = Tail(@), !.fixes = 0, !.rows = @ + rows]

Empty_Delivered(r, replay) ==
  /\ req[r].at = "reading" /\ req[r].streamed
  /\ Told(r, FALSE)
  /\ req' = [req EXCEPT ![r] =
       IF replay THEN [req[r] EXCEPT !.at = "done", !.answer = "empty", !.rows = @ + 1]
                 ELSE Another(r, 1)]
  /\ UNCHANGED <<now, until, sticky>>

\* Empty: a stream with no content; what it held may be replayed.
Empty(r, replay) ==
  /\ req[r].at = "reading" /\ req[r].streamed
  /\ Told(r, FALSE)
  /\ req' = [req EXCEPT ![r] = [Another(r, 1) EXCEPT
       !.fallback = IF replay THEN Current(r) ELSE req[r].fallback]]
  /\ UNCHANGED <<now, until, sticky>>

\* The pipeline of a streaming attempt writes its row when it is dropped.
Dropped_Always(r) == IF req[r].at \in {"reading", "streaming"} THEN 1 ELSE 0
Dropped(r) == IF req[r].at \in {"reading", "streaming"} /\ req[r].streamed THEN 1 ELSE 0

\* Retryable: no connection, a timeout, a 5xx, or a body that breaks off.
Broken(r) ==
  /\ Trying(r)
  /\ Told(r, FALSE)
  /\ req' = [req EXCEPT ![r] = Another(r, Dropped(r))]
  /\ UNCHANGED <<now, until, sticky>>

\* CoolKey: 429, 402 or a 403 of the model only.
Limited(r) ==
  /\ req[r].at = "refused"
  /\ until' = [until EXCEPT ![PairOf[Current(r)]] = now + CoolFor]
  /\ req' = [req EXCEPT ![r] = Another(r, 0)]
  /\ UNCHANGED <<now, entry, sticky>>

\* DisableKey, and Rectifiable or TooLong: the breaker is not told.  What
\* becomes of the key is Snapshot's concern.
Declined(r) ==
  /\ req[r].at = "refused"
  /\ req' = [req EXCEPT ![r] = Another(r, 0)]
  /\ UNCHANGED <<now, entry, until, sticky>>

\* Rectifiable, and the rectifier has a step left: the same candidate again,
\* without asking its cooldown or its breaker, and without counting an attempt.
Rectified(r) ==
  /\ req[r].at = "refused" /\ req[r].fixes < MaxFixes
  /\ req' = [req EXCEPT ![r] = [req[r] EXCEPT !.at = "waiting", !.fixes = @ + 1]]
  /\ UNCHANGED <<now, entry, until, sticky>>

\* Fatal: any other 4xx ends the request, as does one that cannot be built.
Fatal(r) ==
  /\ req[r].at \in {"waiting", "refused"}
  /\ entry' = [entry EXCEPT ![Circuit(r)] = AfterRelease(@)]
  /\ req' = [req EXCEPT ![r] = [req[r] EXCEPT !.at = "done", !.answer = "error", !.rows = @ + 1]]
  /\ UNCHANGED <<now, until, sticky>>

-------------------------------------------------------------------------------
\* The stream runs to its end, or to an error, or idles out.
StreamEnds(r) ==
  /\ req[r].at = "streaming"
  /\ req' = [req EXCEPT ![r] = [req[r] EXCEPT !.at = "done", !.rows = @ + 1]]
  /\ UNCHANGED <<now, entry, until, sticky>>

\* The client goes away: the handler, or the stream, is dropped where it is.
Depart(r) ==
  /\ Trying(r) \/ req[r].at = "streaming"
  /\ req' = [req EXCEPT ![r] = [req[r] EXCEPT !.at = "done", !.gone = TRUE,
                                         !.rows = @ + Dropped(r)]]
  /\ UNCHANGED <<now, entry, until, sticky>>

\* The slot is free for another request.
Leave(r) ==
  /\ req[r].at = "done"
  /\ req' = [req EXCEPT ![r] = NoReq]
  /\ UNCHANGED <<now, entry, until, sticky>>

\* What a map holds; to reset anything else changes nothing.
Held(map, nothing) == {x \in DOMAIN map : map[x] # nothing}

\* reset_health: the administrator resets the breakers, and perhaps clears the
\* cooldowns, that match a filter.
Reset(bs, ps) ==
  /\ entry' = [b \in Breaker |-> IF b \in bs THEN NoEntry ELSE entry[b]]
  /\ until' = [p \in Pair |-> IF p \in ps THEN 0 ELSE until[p]]
  /\ UNCHANGED <<now, sticky, req>>

Tick ==
  /\ now < MaxNow
  /\ now' = now + 1
  /\ UNCHANGED <<entry, until, sticky, req>>

\* The ends of a candidate's turn.
Turn(r) ==
  \/ Content(r) \/ Broken(r) \/ Limited(r) \/ Declined(r) \/ Fatal(r)
  \/ \E replay \in BOOLEAN : Empty(r, replay)

Loop(r) == Conclude(r) \/ SkipCooling(r) \/ SkipRefused(r) \/ Begin(r)

Next ==
  \/ \E r \in Request :
       \/ \E s \in Session \cup {None}, streamed \in BOOLEAN, plan \in Plans :
            Arrive(r, s, streamed, plan)
       \/ Loop(r) \/ Accepted(r) \/ Refused(r) \/ Turn(r) \/ Rectified(r)
       \/ StreamEnds(r) \/ Depart(r) \/ Leave(r)
  \/ \E bs \in SUBSET Held(entry, NoEntry), ps \in SUBSET Held(until, 0) : Reset(bs, ps)
  \/ Tick

Spec == Init /\ [][Next]_vars

\* The runtime runs the loop; a timeout ends the wait for a status, and the
\* reading of what follows a 2xx.  Nothing ends the reading of an error's body,
\* and nothing is asked of clients, streams, the administrator or the clock.
FairSpec == Spec /\ \A r \in Request :
  /\ WF_vars(Loop(r))
  /\ WF_vars(req[r].at = "waiting" /\ (Accepted(r) \/ Refused(r) \/ Turn(r)))
  /\ WF_vars(req[r].at = "reading" /\ Turn(r))

-------------------------------------------------------------------------------
\* README.md:145, the part that holds: an answered request leaves a row in
\* request_logs; without streaming, exactly one, however many candidates failed.
AnsweredIsLogged ==
  \A r \in Request : (req[r].at = "done" /\ ~req[r].gone) =>
    /\ req[r].rows >= 1
    /\ ~req[r].streamed => req[r].rows = 1

\* The empty message is the last resort, of a request that asked for a stream
\* and got no content from any candidate it tried.
EmptyIsLastResort ==
  \A r \in Request : req[r].answer = "empty" =>
    /\ req[r].streamed /\ req[r].rows >= 1
    /\ req[r].plan = <<>> \/ req[r].attempts = MaxAttempts \/ OverBudget(r)

\* However its attempts end, a request that is answered has its row, and an empty
\* answer is what is left when nothing else is.
RequestsAreConcluded == TypeOK /\ AnsweredIsLogged /\ EmptyIsLastResort

\* The loop uses the breakers as Breaker does: no attempt of any candidate
\* starts on an open circuit early, and only attempts and resets move one.
Breakers == INSTANCE CircuitBreaker WITH
  Key     <- Breaker,
  Attempt <- Request,
  NoKey   <- None,
  circuit <- [b \in Breaker |-> CircuitOf(entry[b])],
  since   <- [b \in Breaker |-> SinceOf(entry[b])],
  serving <- [r \in Request |-> IF Trying(r) THEN Circuit(r) ELSE None]

ImplementsCircuit == Breakers!Spec

\* A request leaves its loop, answered or abandoned by its client, unless an
\* error's body never ends: there is no other place where it can hang.
AnsweredOrRefused ==
  \A r \in Request : (r \in Permits) ~> (r \notin Permits \/ req[r].at = "refused")

\* What the documents promise, and the code does not keep.
\*
\* README.md:145: one row of request_logs per request.
OneRowPerRequest == \A r \in Request : req[r].rows <= 1

\* messages.rs:46: each request in flight takes memory, they may not be let in
\* without bound: a gate of max_inflight.
InflightIsBounded ==
  Cardinality({r \in Request : req[r].at \notin {"idle", "done"}}) <= MaxInflight

\* settings.rs:128: an attempt that waits too long has failed, and the request
\* goes on to another candidate: it is answered in the end.
EveryRequestIsAnswered ==
  \A r \in Request : (r \in Permits) ~> (r \notin Permits)

\* settings.rs:132: the total budget, from the start to the commit.
CommitsWithinBudget ==
  [][\A r \in Request : (req[r].at # "streaming" /\ req'[r].at = "streaming") =>
        now - req[r].start <= Budget]_vars
===============================================================================
