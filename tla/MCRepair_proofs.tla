---------------------------- MODULE MCRepair_proofs ----------------------------
(***************************************************************************)
(* Proofs about the repairs that are built in, for every max_tokens and    *)
(* budget of a client and every limit of an upstream: the thinking that    *)
(* the gateway asks for is what the upstream can grant, no entry is        *)
(* disabled too early, and no repair stands in another's way.              *)
(***************************************************************************)
EXTENDS MCRepair, BreakerEntry_proofs, FunctionTheorems, FiniteSetTheorems, TLAPS

(***************************************************************************)
(* The inductive invariant.                                                *)
(***************************************************************************)
\* A request in its loop still has the attempts of its plan before it; one that
\* tries a candidate counts it already.
PlanFits(q) ==
  /\ q.attempts <= MaxAttempts
  /\ q.attempts + Len(q.plan) <= Cardinality(Candidate) + 1
  /\ q.at = "loop" => q.attempts + Len(q.plan) <= Cardinality(Candidate)
  /\ q.at \in {"waiting", "reading", "refused"} => q.plan # <<>>

\* Until it is answered, a request that asked for no stream has no row; and an
\* empty message is kept of a stream only, which left its row.
RowsFit(q) ==
  /\ ~q.streamed /\ q.at \in {"loop", "waiting", "reading", "refused"} => q.rows = 0
  /\ q.at = "streaming" => q.streamed
  /\ q.fallback # None => q.streamed /\ q.rows >= 1
  /\ q.at = "done" /\ ~q.gone => q.rows >= 1 /\ (~q.streamed => q.rows = 1)
  /\ q.at \in {"loop", "waiting", "reading", "refused"} => q.answer = None

\* The empty answer is the end of a request, which has no candidate left.
EmptyFits(q, t) ==
  q.answer = "empty" =>
    /\ q.at = "done" /\ q.streamed /\ q.rows >= 1
    /\ q.plan = <<>> \/ q.attempts = MaxAttempts \/ t - q.start > Budget

Fits(q, t) == PlanFits(q) /\ RowsFit(q) /\ EmptyFits(q, t)

IInv ==
  /\ now \in Nat
  /\ entry \in [Breaker -> Entry]
  /\ until \in [Pair -> Nat]
  /\ sticky \in [Session -> Candidate \cup {None}]
  /\ req \in [Request -> Req]
  /\ \A r \in Request : Fits(req[r], now)

\* The invariant says what the run checks.
LEMMA InvariantIsEnough == IInv => RequestsAreConcluded
<1> SUFFICES ASSUME IInv PROVE RequestsAreConcluded
  OBVIOUS
<1>1. TypeOK
  BY DEF IInv, TypeOK, Fits, PlanFits
<1>2. AnsweredIsLogged
  BY DEF IInv, Fits, RowsFit, AnsweredIsLogged
<1>3. EmptyIsLastResort
  BY DEF IInv, Fits, EmptyFits, EmptyIsLastResort, OverBudget
<1> QED BY <1>1, <1>2, <1>3 DEF RequestsAreConcluded

(***************************************************************************)
(* Plans and what is left of them.                                         *)
(***************************************************************************)
\* A plan lists no candidate twice, so that it is no longer than there are candidates.
LEMMA PlansAreShort ==
  ASSUME NEW plan \in Plans
  PROVE  plan \in Seq(Candidate) /\ Len(plan) \in Nat /\ Len(plan) <= Cardinality(Candidate)
<1>1. plan \in Seq(Candidate) /\ Len(plan) \in Nat /\ DOMAIN plan = 1..Len(plan)
  BY ForwardAssumption
<1>2. plan \in Injection(1..Len(plan), Candidate)
  BY <1>1, ForwardAssumption, Fun_IsInj
<1>3. Cardinality(1..Len(plan)) = Len(plan)
  BY <1>1, FS_Interval
<1>4. Cardinality(1..Len(plan)) <= Cardinality(Candidate)
  BY <1>2, FS_Injection, ForwardAssumption
<1> QED BY <1>1, <1>3, <1>4

\* There are so many candidates.
LEMMA CandidatesAreCounted == Cardinality(Candidate) \in Nat
BY ForwardAssumption, FS_CardinalityType

\* The candidate a request is at, and those after it.
LEMMA PlanParts ==
  ASSUME NEW plan \in Seq(Candidate), plan # <<>>
  PROVE  /\ Head(plan) \in Candidate /\ Tail(plan) \in Seq(Candidate)
         /\ Len(plan) \in Nat /\ Len(Tail(plan)) = Len(plan) - 1
OBVIOUS

\* The breaker that a request which tries a candidate is at.
LEMMA CircuitIsABreaker ==
  ASSUME IInv, NEW r \in Request, req[r].plan # <<>>
  PROVE  /\ Current(r) \in Candidate /\ Circuit(r) \in Breaker /\ Circuit(r) # None
         /\ entry[Circuit(r)] \in Entry
<1>1. req[r].plan \in Seq(Candidate)
  BY DEF IInv, Req
<1>2. Current(r) \in Candidate
  BY <1>1, PlanParts DEF Current
<1> QED BY <1>2, ForwardAssumption DEF IInv, Circuit

\* What is due of a step that moves one request: that its new record fits.
LEMMA OneRequestMoves ==
  ASSUME IInv, NEW r \in Request, NEW q \in Req, Fits(q, now),
         req' = [req EXCEPT ![r] = q], now' = now,
         entry' \in [Breaker -> Entry], until' \in [Pair -> Nat],
         sticky' \in [Session -> Candidate \cup {None}]
  PROVE  IInv'
<1>1. \A s \in Request : req'[s] = IF s = r THEN q ELSE req[s]
  BY DEF IInv
<1>2. \A s \in Request : Fits(req'[s], now')
  BY <1>1 DEF IInv
<1>3. req' \in [Request -> Req]
  BY DEF IInv
<1> QED BY <1>2, <1>3 DEF IInv

(***************************************************************************)
(* What the loop makes of a request.                                       *)
(***************************************************************************)
\* A request that passes its candidate over in the loop still fits.
LEMMA SkipFits ==
  ASSUME NEW q \in Req, NEW t \in Nat, Fits(q, t), q.at = "loop", q.plan # <<>>
  PROVE  [q EXCEPT !.plan = Tail(@)] \in Req /\ Fits([q EXCEPT !.plan = Tail(@)], t)
<1> DEFINE n == [q EXCEPT !.plan = Tail(@)]
<1>1. /\ q.plan \in Seq(Candidate) /\ Tail(q.plan) \in Seq(Candidate)
      /\ Len(Tail(q.plan)) = Len(q.plan) - 1 /\ Len(q.plan) \in Nat
  BY PlanParts DEF Req
<1>2. n \in Req
  BY <1>1 DEF Req
<1>3. /\ n.plan = Tail(q.plan) /\ n.at = "loop" /\ n.attempts = q.attempts
      /\ n.rows = q.rows /\ n.streamed = q.streamed /\ n.fallback = q.fallback
      /\ n.answer = q.answer /\ n.start = q.start /\ n.gone = q.gone
  BY DEF Req
<1>4. q.attempts \in Nat
  BY DEF Req
<1> HIDE DEF n
<1>5. PlanFits(n)
  BY <1>1, <1>3, <1>4, CandidatesAreCounted DEF Fits, PlanFits
<1>6. RowsFit(n) /\ EmptyFits(n, t)
  BY <1>3, ForwardAssumption DEF Fits, RowsFit, EmptyFits
<1> QED BY <1>2, <1>5, <1>6 DEF n, Fits

\* So does one that goes on to its next candidate, with a row more if that was a stream.
LEMMA AnotherFits ==
  ASSUME IInv, NEW r \in Request, Trying(r),
         NEW rows \in Nat, rows = 0 \/ req[r].streamed
  PROVE  Another(r, rows) \in Req /\ Fits(Another(r, rows), now)
<1> DEFINE q == req[r]
           n == Another(r, rows)
<1>1. q \in Req /\ Fits(q, now) /\ now \in Nat
  BY DEF IInv
<1>2. q.plan # <<>>
  BY <1>1 DEF Fits, PlanFits, Trying
<1>3. /\ q.plan \in Seq(Candidate) /\ Tail(q.plan) \in Seq(Candidate)
      /\ Len(Tail(q.plan)) = Len(q.plan) - 1 /\ Len(q.plan) \in Nat
  BY <1>1, <1>2, PlanParts DEF Req
<1>4. q.attempts \in Nat /\ q.rows \in Nat /\ q.rows + rows \in Nat
  BY <1>1 DEF Req
<1>5. n \in Req
  BY <1>1, <1>3, <1>4 DEF Req, Another
<1>6. /\ n.plan = Tail(q.plan) /\ n.at = "loop" /\ n.attempts = q.attempts
      /\ n.rows = q.rows + rows /\ n.streamed = q.streamed /\ n.fallback = q.fallback
      /\ n.answer = q.answer /\ n.start = q.start /\ n.gone = q.gone
  BY <1>1 DEF Req, Another
<1> HIDE DEF n
<1>7. PlanFits(n)
  BY <1>1, <1>3, <1>4, <1>6, CandidatesAreCounted DEF Fits, PlanFits
<1>8. RowsFit(n)
  BY <1>1, <1>4, <1>6 DEF Fits, RowsFit, Trying
<1>9. EmptyFits(n, now)
  BY <1>1, <1>6, ForwardAssumption DEF Fits, RowsFit, EmptyFits, Trying
<1> QED BY <1>5, <1>7, <1>8, <1>9 DEF n, Fits

(***************************************************************************)
(* Every step keeps the invariant.                                         *)
(***************************************************************************)
\* The handler takes a request, which fits if its plan is as short as plans are.
LEMMA ArriveStep ==
  ASSUME IInv, NEW r \in Request, NEW s \in Session \cup {None}, NEW streamed \in BOOLEAN,
         NEW plan \in Plans, Arrive(r, s, streamed, plan)
  PROVE  IInv'
<1> DEFINE q == [NoReq EXCEPT !.at = "loop", !.session = s, !.start = now,
                              !.streamed = streamed, !.plan = plan]
<1>1. /\ plan \in Seq(Candidate) /\ Len(plan) \in Nat /\ Len(plan) <= Cardinality(Candidate)
      /\ now \in Nat
  BY PlansAreShort DEF IInv
<1>2. q \in Req
  BY <1>1 DEF NoReq, Req
<1>3. PlanFits(q)
  BY <1>1, CandidatesAreCounted, ForwardAssumption DEF NoReq, PlanFits
<1>4. RowsFit(q) /\ EmptyFits(q, now)
  BY ForwardAssumption DEF NoReq, RowsFit, EmptyFits
<1> HIDE DEF q
<1>5. Fits(q, now)
  BY <1>3, <1>4 DEF Fits
<1> QED BY <1>2, <1>5, OneRequestMoves DEF Arrive, q, IInv

\* The steps of the loop before an attempt.
LEMMA LoopStep ==
  ASSUME IInv, NEW r \in Request, Loop(r)
  PROVE  IInv'
<1> DEFINE q == req[r]
<1>1. q \in Req /\ Fits(q, now) /\ now \in Nat
  BY DEF IInv
<1>2. /\ q.attempts \in Nat /\ q.rows \in Nat /\ q.plan \in Seq(Candidate) /\ q.start \in Nat
      /\ q.attempts + 1 \in Nat /\ q.rows + 1 \in Nat
  BY <1>1 DEF Req
<1>3. CASE Conclude(r)
  <2>1. q.at = "loop" /\ (q.plan = <<>> \/ q.attempts = MaxAttempts \/ now - q.start > Budget)
    BY <1>1, <1>2, <1>3, ForwardAssumption
    DEF Conclude, Exhausted, OverBudget, Fits, PlanFits
  <2>2. CASE q.fallback # None
    <3> DEFINE n == [q EXCEPT !.at = "done", !.answer = "empty"]
    <3>1. n \in Req
      BY <1>1 DEF Req
    <3>2. /\ n.at = "done" /\ n.answer = "empty" /\ n.plan = q.plan /\ n.start = q.start
          /\ n.attempts = q.attempts /\ n.rows = q.rows /\ n.streamed = q.streamed
          /\ n.fallback = q.fallback /\ n.gone = q.gone
      BY <1>1 DEF Req
    <3> HIDE DEF n
    <3>3. Fits(n, now)
      BY <1>1, <2>1, <2>2, <3>2 DEF Fits, PlanFits, RowsFit, EmptyFits
    <3>4. req' = [req EXCEPT ![r] = n]
      BY <1>3, <2>2 DEF Conclude, n
    <3> QED BY <1>3, <3>1, <3>3, <3>4, OneRequestMoves DEF Conclude, IInv
  <2>3. CASE q.fallback = None
    <3> DEFINE n == [q EXCEPT !.at = "done", !.answer = "error", !.rows = @ + 1]
    <3>1. n \in Req
      BY <1>1, <1>2 DEF Req
    <3>2. /\ n.at = "done" /\ n.answer = "error" /\ n.plan = q.plan /\ n.start = q.start
          /\ n.attempts = q.attempts /\ n.rows = q.rows + 1 /\ n.streamed = q.streamed
          /\ n.fallback = q.fallback /\ n.gone = q.gone
      BY <1>1 DEF Req
    <3> HIDE DEF n
    <3>3. Fits(n, now)
      BY <1>1, <1>2, <2>1, <2>3, <3>2 DEF Fits, PlanFits, RowsFit, EmptyFits
    <3>4. req' = [req EXCEPT ![r] = n]
      BY <1>3, <2>3 DEF Conclude, n
    <3> QED BY <1>3, <3>1, <3>3, <3>4, OneRequestMoves DEF Conclude, IInv
  <2> QED BY <2>2, <2>3
<1>4. ASSUME InLoop(r)
      PROVE  q.at = "loop" /\ q.plan # <<>> /\ q.attempts < MaxAttempts
             /\ Circuit(r) \in Breaker /\ entry[Circuit(r)] \in Entry
  BY <1>2, <1>4, CircuitIsABreaker, ForwardAssumption DEF InLoop, Exhausted
<1>5. CASE SkipCooling(r)
  <2>1. InLoop(r) /\ req' = [req EXCEPT ![r] = [q EXCEPT !.plan = Tail(@)]]
    BY <1>5 DEF SkipCooling, IInv
  <2> QED BY <1>1, <1>4, <1>5, <2>1, SkipFits, OneRequestMoves DEF SkipCooling, IInv
<1>6. ASSUME InLoop(r), entry' = [entry EXCEPT ![Circuit(r)] = AfterAllow(@, now)]
      PROVE  entry' \in [Breaker -> Entry]
  BY <1>1, <1>4, <1>6, AfterAllowType DEF IInv
<1>7. CASE SkipRefused(r)
  <2>1. InLoop(r) /\ req' = [req EXCEPT ![r] = [q EXCEPT !.plan = Tail(@)]]
    BY <1>7 DEF SkipRefused, IInv
  <2> QED BY <1>1, <1>4, <1>6, <1>7, <2>1, SkipFits, OneRequestMoves DEF SkipRefused, IInv
<1>8. CASE Begin(r)
  <2> DEFINE n == [q EXCEPT !.at = "waiting", !.attempts = @ + 1]
  <2>1. InLoop(r) /\ req' = [req EXCEPT ![r] = n]
    BY <1>8 DEF Begin
  <2>2. n \in Req
    BY <1>1, <1>2 DEF Req
  <2>3. /\ n.at = "waiting" /\ n.answer = q.answer /\ n.plan = q.plan /\ n.start = q.start
        /\ n.attempts = q.attempts + 1 /\ n.rows = q.rows /\ n.streamed = q.streamed
        /\ n.fallback = q.fallback /\ n.gone = q.gone
    BY <1>1 DEF Req
  <2> HIDE DEF n
  <2>4. PlanFits(n)
    <3>1. q.at = "loop" /\ q.plan # <<>> /\ q.attempts < MaxAttempts
      BY <1>4, <2>1
    <3>2. Len(q.plan) \in Nat /\ q.attempts + Len(q.plan) <= Cardinality(Candidate)
      BY <1>1, <1>2, <3>1 DEF Fits, PlanFits
    <3> QED BY <1>2, <2>3, <3>1, <3>2, CandidatesAreCounted, ForwardAssumption DEF PlanFits
  <2>5. RowsFit(n) /\ EmptyFits(n, now)
    BY <1>1, <1>4, <2>1, <2>3, ForwardAssumption DEF Fits, RowsFit, EmptyFits
  <2>6. Fits(n, now)
    BY <2>4, <2>5 DEF Fits
  <2> QED BY <1>6, <1>8, <2>1, <2>2, <2>6, OneRequestMoves DEF Begin, IInv
<1> QED BY <1>3, <1>5, <1>7, <1>8 DEF Loop

\* The ends of a candidate's turn.
LEMMA TurnStep ==
  ASSUME IInv, NEW r \in Request, Turn(r)
  PROVE  IInv'
<1> DEFINE q == req[r]
<1>1. q \in Req /\ Fits(q, now) /\ now \in Nat
  BY DEF IInv
<1>2. /\ q.rows \in Nat /\ q.rows + 1 \in Nat /\ q.plan \in Seq(Candidate)
      /\ q.streamed \in BOOLEAN
  BY <1>1 DEF Req
<1>3. Trying(r)
  BY DEF Turn, Content, Broken, Limited, Declined, Fatal, Empty, Trying
<1>4. q.plan # <<>> /\ q.answer = None /\ q.at # "loop" /\ (~q.streamed => q.rows = 0)
  BY <1>1, <1>2, <1>3 DEF Trying, Fits, PlanFits, RowsFit
<1>5. Current(r) \in Candidate /\ Circuit(r) \in Breaker /\ entry[Circuit(r)] \in Entry
  BY <1>4, CircuitIsABreaker
<1>6. ASSUME NEW ok \in BOOLEAN, Told(r, ok) PROVE entry' \in [Breaker -> Entry]
  BY <1>1, <1>5, <1>6, AfterRecordType DEF Told, IInv
<1>7. CASE Content(r)
  <2>1. sticky' \in [Session -> Candidate \cup {None}]
    BY <1>5, <1>7 DEF Content, IInv
  <2>2. entry' \in [Breaker -> Entry]
    BY <1>6, <1>7 DEF Content
  <2>3. CASE q.streamed
    <3> DEFINE n == [q EXCEPT !.at = "streaming", !.answer = "content"]
    <3>1. n \in Req
      BY <1>1 DEF Req
    <3>2. /\ n.at = "streaming" /\ n.answer = "content" /\ n.plan = q.plan /\ n.start = q.start
          /\ n.attempts = q.attempts /\ n.rows = q.rows /\ n.streamed = q.streamed
          /\ n.fallback = q.fallback /\ n.gone = q.gone
      BY <1>1 DEF Req
    <3>3. req' = [req EXCEPT ![r] = n]
      BY <1>7, <2>3 DEF Content
    <3> HIDE DEF n
    <3>4. Fits(n, now)
      BY <1>1, <2>3, <3>2 DEF Fits, PlanFits, RowsFit, EmptyFits
    <3> QED BY <1>7, <2>1, <2>2, <3>1, <3>3, <3>4, OneRequestMoves DEF Content, IInv
  <2>4. CASE ~q.streamed
    <3> DEFINE n == [q EXCEPT !.at = "done", !.answer = "content", !.rows = @ + 1]
    <3>1. n \in Req
      BY <1>1, <1>2 DEF Req
    <3>2. /\ n.at = "done" /\ n.answer = "content" /\ n.plan = q.plan /\ n.start = q.start
          /\ n.attempts = q.attempts /\ n.rows = q.rows + 1 /\ n.streamed = q.streamed
          /\ n.fallback = q.fallback /\ n.gone = q.gone
      BY <1>1 DEF Req
    <3>3. req' = [req EXCEPT ![r] = n]
      BY <1>7, <2>4 DEF Content
    <3> HIDE DEF n
    <3>4. Fits(n, now)
      BY <1>1, <1>2, <1>4, <2>4, <3>2 DEF Fits, PlanFits, RowsFit, EmptyFits
    <3> QED BY <1>7, <2>1, <2>2, <3>1, <3>3, <3>4, OneRequestMoves DEF Content, IInv
  <2> QED BY <2>3, <2>4
<1>8. CASE Broken(r)
  <2>1. Dropped(r) \in Nat /\ (Dropped(r) = 0 \/ q.streamed)
    BY DEF Dropped
  <2>2. entry' \in [Breaker -> Entry]
    BY <1>6, <1>8 DEF Broken
  <2> QED BY <1>3, <1>8, <2>1, <2>2, AnotherFits, OneRequestMoves DEF Broken, IInv
<1>9. CASE Limited(r)
  <2>1. until' \in [Pair -> Nat]
    BY <1>1, <1>5, <1>9, ForwardAssumption DEF Limited, IInv
  <2> QED BY <1>3, <1>9, <2>1, AnotherFits, OneRequestMoves DEF Limited, IInv
<1>10. CASE Declined(r)
  BY <1>3, <1>10, AnotherFits, OneRequestMoves DEF Declined, IInv
<1>11. CASE Fatal(r)
  <2> DEFINE n == [q EXCEPT !.at = "done", !.answer = "error", !.rows = @ + 1]
  <2>1. n \in Req
    BY <1>1, <1>2 DEF Req
  <2>2. /\ n.at = "done" /\ n.answer = "error" /\ n.plan = q.plan /\ n.start = q.start
        /\ n.attempts = q.attempts /\ n.rows = q.rows + 1 /\ n.streamed = q.streamed
        /\ n.fallback = q.fallback /\ n.gone = q.gone
    BY <1>1 DEF Req
  <2>3. req' = [req EXCEPT ![r] = n]
    BY <1>11 DEF Fatal
  <2> HIDE DEF n
  <2>4. Fits(n, now)
    BY <1>1, <1>2, <1>4, <2>2 DEF Fits, PlanFits, RowsFit, EmptyFits
  <2>5. entry' \in [Breaker -> Entry]
    BY <1>5, <1>11, AfterReleaseType DEF Fatal, IInv
  <2> QED BY <1>11, <2>1, <2>3, <2>4, <2>5, OneRequestMoves DEF Fatal, IInv
<1>12. ASSUME NEW replay \in BOOLEAN, Empty(r, replay) PROVE IInv'
  <2> DEFINE m == Another(r, 1)
             n == [m EXCEPT !.fallback = IF replay THEN Current(r) ELSE q.fallback]
  <2>1. q.streamed
    BY <1>12 DEF Empty
  <2>2. m \in Req /\ Fits(m, now)
    BY <1>3, <2>1, AnotherFits
  <2>3. /\ m.rows = q.rows + 1 /\ m.streamed = q.streamed /\ m.fallback = q.fallback
        /\ m.answer = q.answer /\ m.at = "loop"
    BY <1>1 DEF Another, Req
  <2> HIDE DEF m
  <2>4. n \in Req
    BY <1>1, <1>5, <2>2 DEF Req
  <2>5. /\ n.at = "loop" /\ n.answer = None /\ n.plan = m.plan /\ n.start = m.start
        /\ n.attempts = m.attempts /\ n.rows = q.rows + 1 /\ n.streamed /\ n.gone = m.gone
    BY <1>4, <2>1, <2>2, <2>3 DEF Req
  <2>6. req' = [req EXCEPT ![r] = n]
    BY <1>12 DEF Empty, m
  <2> HIDE DEF n
  <2>7. PlanFits(n)
    BY <2>2, <2>3, <2>5 DEF Fits, PlanFits
  <2>8. RowsFit(n) /\ EmptyFits(n, now)
    BY <1>2, <2>5, ForwardAssumption DEF RowsFit, EmptyFits
  <2>9. entry' \in [Breaker -> Entry] /\ Fits(n, now)
    BY <1>6, <1>12, <2>7, <2>8 DEF Empty, Fits
  <2> QED BY <1>12, <2>4, <2>6, <2>9, OneRequestMoves DEF Empty, IInv
<1> QED BY <1>7, <1>8, <1>9, <1>10, <1>11, <1>12 DEF Turn

\* What goes on around the turns: statuses, rectifications, streams and clients.
LEMMA OtherStep ==
  ASSUME IInv, NEW r \in Request,
         Accepted(r) \/ Refused(r) \/ Rectified(r) \/ StreamEnds(r) \/ Depart(r) \/ Leave(r)
  PROVE  IInv'
<1> DEFINE q == req[r]
<1>1. q \in Req /\ Fits(q, now) /\ now \in Nat
  BY DEF IInv
<1>2. /\ q.rows \in Nat /\ q.rows + 1 \in Nat /\ q.fixes + 1 \in Nat
      /\ q.streamed \in BOOLEAN
  BY <1>1 DEF Req
<1>3. ASSUME NEW step \in {"reading", "refused"}, Status(r, step) PROVE IInv'
  <2> DEFINE n == [q EXCEPT !.at = step]
  <2>1. n \in Req
    BY <1>1 DEF Req
  <2>2. /\ n.at = step /\ n.answer = q.answer /\ n.plan = q.plan /\ n.start = q.start
        /\ n.attempts = q.attempts /\ n.rows = q.rows /\ n.streamed = q.streamed
        /\ n.fallback = q.fallback /\ n.gone = q.gone /\ q.at = "waiting"
    BY <1>1, <1>3 DEF Req, Status
  <2>3. req' = [req EXCEPT ![r] = n]
    BY <1>3 DEF Status, IInv
  <2> HIDE DEF n
  <2>4. Fits(n, now)
    BY <1>1, <2>2 DEF Fits, PlanFits, RowsFit, EmptyFits
  <2> QED BY <1>3, <2>1, <2>3, <2>4, OneRequestMoves DEF Status, IInv
<1>4. CASE Rectified(r)
  <2> DEFINE n == [q EXCEPT !.at = "waiting", !.fixes = @ + 1]
  <2>1. n \in Req
    BY <1>1, <1>2 DEF Req
  <2>2. /\ n.at = "waiting" /\ n.answer = q.answer /\ n.plan = q.plan /\ n.start = q.start
        /\ n.attempts = q.attempts /\ n.rows = q.rows /\ n.streamed = q.streamed
        /\ n.fallback = q.fallback /\ n.gone = q.gone /\ q.at = "refused"
    BY <1>1, <1>4 DEF Req, Rectified
  <2>3. req' = [req EXCEPT ![r] = n]
    BY <1>4 DEF Rectified
  <2> HIDE DEF n
  <2>4. Fits(n, now)
    BY <1>1, <2>2 DEF Fits, PlanFits, RowsFit, EmptyFits
  <2> QED BY <1>4, <2>1, <2>3, <2>4, OneRequestMoves DEF Rectified, IInv
<1>5. CASE StreamEnds(r)
  <2> DEFINE n == [q EXCEPT !.at = "done", !.rows = @ + 1]
  <2>1. n \in Req
    BY <1>1, <1>2 DEF Req
  <2>2. /\ n.at = "done" /\ n.answer = q.answer /\ n.plan = q.plan /\ n.start = q.start
        /\ n.attempts = q.attempts /\ n.rows = q.rows + 1 /\ n.streamed = q.streamed
        /\ n.fallback = q.fallback /\ n.gone = q.gone /\ q.at = "streaming"
    BY <1>1, <1>5 DEF Req, StreamEnds
  <2>3. req' = [req EXCEPT ![r] = n]
    BY <1>5 DEF StreamEnds
  <2> HIDE DEF n
  <2>4. Fits(n, now)
    BY <1>1, <1>2, <2>2 DEF Fits, PlanFits, RowsFit, EmptyFits
  <2> QED BY <1>5, <2>1, <2>3, <2>4, OneRequestMoves DEF StreamEnds, IInv
<1>6. CASE Depart(r)
  <2> DEFINE n == [q EXCEPT !.at = "done", !.gone = TRUE, !.rows = @ + Dropped(r)]
  <2>1. Dropped(r) \in Nat /\ q.rows + Dropped(r) \in Nat
    BY <1>2 DEF Dropped
  <2>2. n \in Req
    BY <1>1, <2>1 DEF Req
  <2>3. /\ n.at = "done" /\ n.answer = q.answer /\ n.plan = q.plan /\ n.start = q.start
        /\ n.attempts = q.attempts /\ n.rows = q.rows + Dropped(r) /\ n.streamed = q.streamed
        /\ n.fallback = q.fallback /\ n.gone /\ q.at # "loop" /\ q.at # "done"
    BY <1>1, <1>6 DEF Req, Depart, Trying
  <2>4. req' = [req EXCEPT ![r] = n]
    BY <1>6 DEF Depart
  <2> HIDE DEF n
  <2>5. Fits(n, now)
    BY <1>1, <1>2, <2>1, <2>3 DEF Fits, PlanFits, RowsFit, EmptyFits
  <2> QED BY <1>6, <2>2, <2>4, <2>5, OneRequestMoves DEF Depart, IInv
<1>7. CASE Leave(r)
  <2>1. NoReq \in Req
    BY DEF NoReq, Req
  <2>2. Fits(NoReq, now)
    BY CandidatesAreCounted, ForwardAssumption
    DEF NoReq, Fits, PlanFits, RowsFit, EmptyFits
  <2> QED BY <1>7, <2>1, <2>2, OneRequestMoves DEF Leave, IInv
<1> QED BY <1>3, <1>4, <1>5, <1>6, <1>7 DEF Accepted, Refused

\* Every step of the loop and of what surrounds it keeps the invariant.
LEMMA InvariantStep == IInv /\ [Next]_vars => IInv'
<1> SUFFICES ASSUME IInv, [Next]_vars PROVE IInv'
  OBVIOUS
<1>1. ASSUME NEW bs, NEW ps, Reset(bs, ps) PROVE IInv'
  <2>1. entry' \in [Breaker -> Entry]
    BY <1>1, NewEntryType DEF Reset, IInv
  <2> QED BY <1>1, <2>1 DEF Reset, IInv
<1>2. CASE Tick
  <2>1. now' \in Nat /\ now' = now + 1 /\ UNCHANGED <<entry, until, sticky, req>>
    BY <1>2 DEF Tick, IInv
  <2>2. ASSUME NEW r \in Request PROVE Fits(req'[r], now')
    <3>1. Fits(req[r], now) /\ req[r] \in Req /\ now \in Nat
      BY DEF IInv
    <3>2. req[r].start \in Nat
      BY <3>1 DEF Req
    <3>3. EmptyFits(req[r], now')
      BY <2>1, <3>1, <3>2, ForwardAssumption DEF Fits, EmptyFits
    <3> QED BY <2>1, <3>1, <3>3 DEF Fits
  <2> QED BY <2>1, <2>2 DEF IInv
<1>3. CASE UNCHANGED vars
  BY <1>3 DEF vars, IInv
<1>4. ASSUME NEW r \in Request, Loop(r) PROVE IInv'
  BY <1>4, LoopStep
<1>5. ASSUME NEW r \in Request, Turn(r) PROVE IInv'
  BY <1>5, TurnStep
<1> QED BY <1>1, <1>2, <1>3, <1>4, <1>5, ArriveStep, OtherStep DEF Next

\* The invariant holds of every state.
THEOREM Safety == Spec => []IInv
<1>1. Init => IInv
  <2> SUFFICES ASSUME Init PROVE IInv
    OBVIOUS
  <2>1. NoReq \in Req
    BY DEF NoReq, Req
  <2>2. Fits(NoReq, now)
    BY CandidatesAreCounted, ForwardAssumption
    DEF NoReq, Fits, PlanFits, RowsFit, EmptyFits
  <2> QED BY <2>1, <2>2, NewEntryType DEF Init, IInv
<1> QED BY <1>1, InvariantStep, PTL DEF Spec

\* forward.rs: whatever the candidates do, and whenever the client goes, an answered
\* request has its row of the log, one only if it asked for no stream; and only a
\* stream that exhausted its candidates is answered with an empty message.
THEOREM Concluded == Spec => []RequestsAreConcluded
BY InvariantIsEnough, Safety, PTL

(***************************************************************************)
(* Refinement.  An attempt of CircuitBreaker is a request that tries a     *)
(* candidate, a rectification included: it is admitted once.               *)
(***************************************************************************)
\* The abstract state.
circuits == [k \in Breaker |-> CircuitOf(entry[k])]
sinces == [k \in Breaker |-> SinceOf(entry[k])]
servings == [r \in Request |-> IF Trying(r) THEN Circuit(r) ELSE None]

\* What does not move them is a stutter.
LEMMA CircuitsStutter ==
  ASSUME UNCHANGED <<now, circuits, sinces, servings>>
  PROVE  UNCHANGED Breakers!vars
BY DEF Breakers!vars, circuits, sinces, servings

\* A step of one request leaves the circuits that the others use alone.
LEMMA OthersServe ==
  ASSUME IInv, NEW r \in Request, NEW q, req' = [req EXCEPT ![r] = q]
  PROVE  servings' = [servings EXCEPT ![r] = IF q.at \in {"waiting", "reading", "refused"}
                                             THEN BreakerOf[Head(q.plan)] ELSE None]
BY DEF IInv, servings, Trying, Circuit, Current

\* An attempt that ends without a word to the breaker, or with the slot given back.
LEMMA FinishStep ==
  ASSUME IInv, NEW r \in Request, Trying(r), NEW q, req' = [req EXCEPT ![r] = q],
         q.at \notin {"waiting", "reading", "refused"},
         UNCHANGED <<now, circuits, sinces>>
  PROVE  Breakers!Next
<1>1. servings[r] = Circuit(r) /\ servings[r] # None
  BY CircuitIsABreaker DEF servings, IInv, Fits, PlanFits, Trying
<1>2. servings' = [servings EXCEPT ![r] = None]
  BY OthersServe
<1>3. Breakers!Finish(r)
  BY <1>1, <1>2 DEF Breakers!Finish, circuits, sinces, servings
<1> QED BY <1>3 DEF Breakers!Next

\* An attempt whose result is recorded trips its circuit, brings it back, or neither.
LEMMA ToldStep ==
  ASSUME IInv, NEW r \in Request, Trying(r), NEW q, req' = [req EXCEPT ![r] = q],
         q.at \notin {"waiting", "reading", "refused"},
         NEW ok \in BOOLEAN, Told(r, ok), now' = now
  PROVE  Breakers!Next
<1> DEFINE k == Circuit(r)
           e == AfterRecord(entry[k], ok, now)
<1>1. k \in Breaker /\ k # None /\ entry[k] \in Entry /\ now \in Nat
  BY CircuitIsABreaker DEF IInv, Fits, PlanFits, Trying
<1>2. servings[r] = k /\ servings' = [servings EXCEPT ![r] = None]
  BY OthersServe DEF servings
<1>3. /\ circuits' = [circuits EXCEPT ![k] = CircuitOf(e)]
      /\ sinces' = [sinces EXCEPT ![k] = SinceOf(e)]
  <2>1. entry' = [entry EXCEPT ![k] = e] /\ entry \in [Breaker -> Entry]
    BY DEF Told, IInv
  <2> HIDE DEF k, e
  <2> QED BY <1>1, <2>1 DEF circuits, sinces
<1>4. circuits[k] = CircuitOf(entry[k]) /\ sinces[k] = SinceOf(entry[k])
  BY <1>1 DEF circuits, sinces
<1>5. CASE CircuitOf(e) = circuits[k] /\ SinceOf(e) = sinces[k]
  <2>1. circuits' = circuits /\ sinces' = sinces
    BY <1>1, <1>3, <1>5 DEF circuits, sinces
  <2> QED BY <2>1, FinishStep
<1>6. CASE circuits[k] # "open" /\ CircuitOf(e) = "open" /\ SinceOf(e) = now
  <2>1. Breakers!Trip(r)
    BY <1>1, <1>2, <1>3, <1>6 DEF Breakers!Trip, circuits, sinces, servings
  <2> QED BY <2>1 DEF Breakers!Next
<1>7. CASE circuits[k] = "half_open" /\ CircuitOf(e) = "closed" /\ SinceOf(e) = sinces[k]
  <2>1. sinces' = sinces
    BY <1>1, <1>3, <1>7 DEF sinces
  <2>2. Breakers!Recover(r)
    BY <1>1, <1>2, <1>3, <1>7, <2>1 DEF Breakers!Recover, circuits, sinces, servings
  <2> QED BY <2>2 DEF Breakers!Next
<1> QED BY <1>1, <1>4, <1>5, <1>6, <1>7, RecordMoves

\* An attempt begins where the circuit is not open, or as the probe of one that was
\* open for long enough.
LEMMA BeginStep ==
  ASSUME IInv, NEW r \in Request, Begin(r)
  PROVE  Breakers!Next
<1> DEFINE k == Circuit(r)
           e == AfterAllow(entry[k], now)
           q == [req[r] EXCEPT !.at = "waiting", !.attempts = @ + 1]
<1>1. req[r] \in Req /\ req[r].plan # <<>> /\ req[r].at = "loop" /\ now \in Nat
  BY DEF Begin, InLoop, Exhausted, IInv
<1>2. k \in Breaker /\ k # None /\ entry[k] \in Entry
  BY <1>1, CircuitIsABreaker
<1>3. Allows(entry[k], now) /\ entry' = [entry EXCEPT ![k] = e] /\ UNCHANGED now
  BY DEF Begin
<1>4. q.at = "waiting" /\ q.plan = req[r].plan /\ req' = [req EXCEPT ![r] = q]
  BY <1>1 DEF Begin, Req
<1>5. servings[r] = None /\ servings' = [servings EXCEPT ![r] = k]
  <2> HIDE DEF q
  <2> QED BY <1>1, <1>4, OthersServe DEF servings, Trying, Circuit, Current
<1>6. entry \in [Breaker -> Entry]
  BY DEF IInv
<1> HIDE DEF k, e
<1>7. /\ circuits' = [circuits EXCEPT ![k] = CircuitOf(e)]
      /\ sinces' = [sinces EXCEPT ![k] = SinceOf(e)]
  BY <1>2, <1>3, <1>6 DEF circuits, sinces
<1>8. CASE entry[k].state = "open"
  <2>1. CircuitOf(e) = "half_open" /\ SinceOf(e) = 0
    BY <1>1, <1>2, <1>3, <1>8, AllowMoves DEF e
  <2>2. circuits[k] = "open" /\ now - sinces[k] >= OpenFor
    BY <1>2, <1>3, <1>8 DEF circuits, sinces, CircuitOf, SinceOf, Allows, Expired
  <2>3. Breakers!BeginProbe(r, k)
    BY <1>3, <1>5, <1>7, <2>1, <2>2 DEF Breakers!BeginProbe, circuits, sinces, servings
  <2> QED BY <1>2, <2>3 DEF Breakers!Next
<1>9. CASE entry[k].state # "open"
  <2>1. CircuitOf(e) = CircuitOf(entry[k]) /\ SinceOf(e) = SinceOf(entry[k])
    BY <1>1, <1>2, <1>9, AllowMoves DEF e
  <2>2. circuits' = circuits /\ sinces' = sinces /\ circuits[k] # "open"
    BY <1>2, <1>7, <1>9, <2>1 DEF circuits, sinces, CircuitOf
  <2>3. Breakers!Begin(r, k)
    BY <1>3, <1>5, <2>2 DEF Breakers!Begin, circuits, sinces, servings
  <2> QED BY <1>2, <2>3 DEF Breakers!Next
<1> QED BY <1>8, <1>9

\* A step of a request that tries no candidate, before and after, moves nothing.
LEMMA QuietStep ==
  ASSUME IInv, NEW r \in Request, NEW q, req' = [req EXCEPT ![r] = q],
         IF Trying(r) THEN q.at \in {"waiting", "reading", "refused"} /\ q.plan = req[r].plan
                      ELSE q.at \notin {"waiting", "reading", "refused"},
         UNCHANGED <<now, circuits, sinces>>
  PROVE  UNCHANGED Breakers!vars
<1>1. servings' = [servings EXCEPT ![r] = IF q.at \in {"waiting", "reading", "refused"}
                                          THEN BreakerOf[Head(q.plan)] ELSE None]
  BY OthersServe
<1>2. servings[r] = IF q.at \in {"waiting", "reading", "refused"}
                    THEN BreakerOf[Head(q.plan)] ELSE None
  BY DEF servings, Circuit, Current
<1>3. servings' = servings
  BY <1>1, <1>2 DEF servings
<1> QED BY <1>3, CircuitsStutter

\* Every step of the gateway's loop is a step of the abstract circuits, or none.
LEMMA CircuitStep ==
  ASSUME IInv, [Next]_vars
  PROVE  [Breakers!Next]_Breakers!vars
<1>0. req \in [Request -> Req] /\ now \in Nat /\ entry \in [Breaker -> Entry]
  BY DEF IInv
<1>1. ASSUME UNCHANGED <<now, entry>> PROVE UNCHANGED <<now, circuits, sinces>>
  BY <1>1 DEF circuits, sinces
<1>2. ASSUME NEW r \in Request, NEW s, NEW streamed, NEW plan, Arrive(r, s, streamed, plan)
      PROVE  UNCHANGED Breakers!vars
  BY <1>0, <1>1, <1>2, QuietStep DEF Arrive, NoReq, Trying
<1>3. ASSUME NEW r \in Request, Loop(r) PROVE [Breakers!Next]_Breakers!vars
  <2>1. req[r].at = "loop" /\ ~Trying(r)
    BY <1>3 DEF Loop, Conclude, SkipCooling, SkipRefused, Begin, InLoop, Trying
  <2>2. CASE Conclude(r)
    <3>1. req' = [req EXCEPT ![r] = req'[r]] /\ req'[r].at = "done"
      BY <1>0, <2>2 DEF Conclude, Req
    <3> QED BY <1>1, <2>1, <2>2, <3>1, QuietStep DEF Conclude
  <2>3. CASE SkipCooling(r) \/ SkipRefused(r)
    <3>1. req' = [req EXCEPT ![r] = req'[r]] /\ req'[r].at = "loop"
      BY <1>0, <2>1, <2>3 DEF SkipCooling, SkipRefused, Req
    <3>2. UNCHANGED <<now, circuits, sinces>>
      <4>1. CASE SkipCooling(r)
        BY <1>1, <4>1 DEF SkipCooling
      <4>2. CASE SkipRefused(r)
        <5>1. /\ entry' = [entry EXCEPT ![Circuit(r)] = AfterAllow(@, now)]
              /\ ~Allows(entry[Circuit(r)], now) /\ UNCHANGED now /\ req[r].plan # <<>>
          BY <4>2 DEF SkipRefused, InLoop, Exhausted
        <5>2. Circuit(r) \in Breaker /\ entry[Circuit(r)] \in Entry
          BY <5>1, CircuitIsABreaker
        <5>3. /\ CircuitOf(AfterAllow(entry[Circuit(r)], now)) = CircuitOf(entry[Circuit(r)])
              /\ SinceOf(AfterAllow(entry[Circuit(r)], now)) = SinceOf(entry[Circuit(r)])
          BY <1>0, <5>1, <5>2, AllowMoves
        <5> QED BY <1>0, <5>1, <5>3 DEF circuits, sinces
      <4> QED BY <2>3, <4>1, <4>2
    <3> QED BY <2>1, <3>1, <3>2, QuietStep
  <2>4. CASE Begin(r)
    BY <2>4, BeginStep
  <2> QED BY <1>3, <2>2, <2>3, <2>4 DEF Loop
<1>4. ASSUME NEW r \in Request, Turn(r) PROVE Breakers!Next
  <2>1. Trying(r) /\ req[r] \in Req
    BY <1>0, <1>4 DEF Turn, Content, Broken, Limited, Declined, Fatal, Empty, Trying
  <2> DEFINE Moved == /\ req' = [req EXCEPT ![r] = req'[r]]
                      /\ req'[r].at \in {"loop", "streaming", "done"}
  <2>2. Moved
    <3>1. CASE Content(r)
      BY <1>0, <2>1, <3>1 DEF Content, Req
    <3>2. ASSUME NEW rows, req' = [req EXCEPT ![r] = Another(r, rows)] PROVE Moved
      <4>1. Another(r, rows).at = "loop"
        BY <2>1 DEF Another, Req
      <4> QED BY <1>0, <3>2, <4>1
    <3>3. CASE Broken(r) \/ Limited(r) \/ Declined(r)
      BY <3>2, <3>3 DEF Broken, Limited, Declined
    <3>4. CASE Fatal(r)
      BY <1>0, <2>1, <3>4 DEF Fatal, Req
    <3>5. ASSUME NEW replay, Empty(r, replay) PROVE Moved
      <4>1. [Another(r, 1) EXCEPT
              !.fallback = IF replay THEN Current(r) ELSE req[r].fallback].at = "loop"
        BY <2>1 DEF Another, Req
      <4> QED BY <1>0, <3>5, <4>1 DEF Empty
    <3> QED BY <1>4, <3>1, <3>3, <3>4, <3>5 DEF Turn
  <2>3. CASE \E ok \in BOOLEAN : Told(r, ok) /\ now' = now
    BY <2>1, <2>2, <2>3, ToldStep
  <2>4. CASE Limited(r) \/ Declined(r)
    BY <1>1, <2>1, <2>2, <2>4, FinishStep DEF Limited, Declined
  <2>5. CASE Fatal(r)
    <3>1. Circuit(r) \in Breaker /\ entry[Circuit(r)] \in Entry
      BY <2>1, CircuitIsABreaker DEF IInv, Fits, PlanFits, Trying
    <3>2. /\ CircuitOf(AfterRelease(entry[Circuit(r)])) = CircuitOf(entry[Circuit(r)])
          /\ SinceOf(AfterRelease(entry[Circuit(r)])) = SinceOf(entry[Circuit(r)])
      BY <3>1 DEF AfterRelease, CircuitOf, SinceOf, Entry
    <3>3. UNCHANGED <<now, circuits, sinces>>
      BY <1>0, <2>5, <3>2 DEF Fatal, circuits, sinces
    <3> QED BY <2>1, <2>2, <3>3, FinishStep
  <2> QED BY <1>4, <2>3, <2>4, <2>5 DEF Turn, Content, Broken, Empty
<1>5. ASSUME NEW r \in Request, Accepted(r) \/ Refused(r) \/ Rectified(r)
      PROVE  UNCHANGED Breakers!vars
  <2>1. Trying(r) /\ req[r] \in Req /\ UNCHANGED <<now, entry>>
    BY <1>0, <1>5 DEF Accepted, Refused, Status, Rectified, Trying
  <2>2. /\ req' = [req EXCEPT ![r] = req'[r]]
        /\ req'[r].at \in {"waiting", "reading", "refused"} /\ req'[r].plan = req[r].plan
    <3>1. CASE Accepted(r) \/ Refused(r)
      BY <1>0, <2>1, <3>1 DEF Accepted, Refused, Status, Req
    <3>2. CASE Rectified(r)
      BY <1>0, <2>1, <3>2 DEF Rectified, Req
    <3> QED BY <1>5, <3>1, <3>2
  <2> QED BY <1>1, <2>1, <2>2, QuietStep
<1>6. ASSUME NEW r \in Request, StreamEnds(r) \/ Depart(r) \/ Leave(r)
      PROVE  [Breakers!Next]_Breakers!vars
  <2>1. req[r] \in Req /\ UNCHANGED <<now, entry>>
    BY <1>0, <1>6 DEF StreamEnds, Depart, Leave
  <2>2. req' = [req EXCEPT ![r] = req'[r]] /\ req'[r].at \in {"idle", "done"}
    <3>1. CASE StreamEnds(r)
      BY <1>0, <2>1, <3>1 DEF StreamEnds, Req
    <3>2. CASE Depart(r)
      BY <1>0, <2>1, <3>2 DEF Depart, Req
    <3>3. CASE Leave(r)
      BY <1>0, <3>3 DEF Leave, NoReq
    <3> QED BY <1>6, <3>1, <3>2, <3>3
  <2>3. CASE Trying(r)
    BY <1>1, <2>1, <2>2, <2>3, FinishStep
  <2>4. CASE ~Trying(r)
    BY <1>1, <2>1, <2>2, <2>4, QuietStep
  <2> QED BY <2>3, <2>4
<1>7. ASSUME NEW bs \in SUBSET Held(entry, NoEntry), NEW ps, Reset(bs, ps)
      PROVE  Breakers!Next
  <2>1. CircuitOf(NoEntry) = "closed" /\ SinceOf(NoEntry) = 0
    BY DEF CircuitOf, SinceOf, NoEntry, NewEntry
  <2>2. bs \in SUBSET Breaker
    BY <1>0 DEF Held
  <2>3. /\ circuits' = [k \in Breaker |-> IF k \in bs THEN "closed" ELSE circuits[k]]
        /\ sinces' = [k \in Breaker |-> IF k \in bs THEN 0 ELSE sinces[k]]
    BY <1>7, <2>1 DEF Reset, circuits, sinces
  <2>4. UNCHANGED now /\ servings' = servings
    BY <1>7 DEF Reset, servings, Trying, Circuit, Current
  <2>5. Breakers!Reset(bs)
    BY <2>3, <2>4 DEF Breakers!Reset, circuits, sinces, servings
  <2> QED BY <2>2, <2>5 DEF Breakers!Next
<1>8. CASE Tick
  <2>1. now' = now + 1 /\ UNCHANGED <<circuits, sinces, servings>>
    BY <1>8 DEF Tick, circuits, sinces, servings, Trying, Circuit, Current
  <2>2. Breakers!Tick
    BY <2>1 DEF Breakers!Tick, circuits, sinces, servings
  <2> QED BY <2>2 DEF Breakers!Next
<1>9. CASE UNCHANGED vars
  <2>1. UNCHANGED <<now, circuits, sinces, servings>>
    BY <1>9 DEF vars, circuits, sinces, servings, Trying, Circuit, Current
  <2> QED BY <2>1, CircuitsStutter
<1> QED BY <1>2, <1>3, <1>4, <1>5, <1>6, <1>7, <1>8, <1>9 DEF Next

\* However requests, rectifications, resets and clients interleave, the loop uses its
\* breakers as CircuitBreaker promises: no candidate is tried on an open circuit
\* early, and only the end of an attempt, or a reset, moves one.
THEOREM Implements == Spec => ImplementsCircuit
<1>1. Init => Breakers!Init
  <2> SUFFICES ASSUME Init PROVE Breakers!Init
    OBVIOUS
  <2>1. CircuitOf(NoEntry) = "closed" /\ SinceOf(NoEntry) = 0
    BY DEF CircuitOf, SinceOf, NoEntry, NewEntry
  <2>2. \A r \in Request : ~Trying(r)
    BY DEF Init, NoReq, Trying
  <2> QED BY <2>1, <2>2 DEF Init, Breakers!Init
<1>2. IInv /\ [Next]_vars => [Breakers!Next]_Breakers!vars
  BY CircuitStep
<1> QED BY <1>1, <1>2, Safety, PTL DEF Spec, ImplementsCircuit, Breakers!Spec

LEMMA RepairConstants ==
  /\ MaxTokensOf \subseteq Nat \ {0} /\ Limits \subseteq Nat \ {0}
  /\ BudgetsOf \subseteq Nat \ {0} /\ None \notin Nat
BY RepairAssumption DEF B!RepairsAssumption

(***************************************************************************)
(* Numbers.                                                                *)
(***************************************************************************)
LEMMA MinMax ==
  ASSUME NEW m \in Int, NEW n \in Int
  PROVE  /\ B!Min({m, n}) = IF m <= n THEN m ELSE n
         /\ B!Max({m, n}) = IF m <= n THEN n ELSE m
BY DEF B!Min, B!Max

\* The budget of a forced thinking.
Granted(max, cap) == B!Clamped(max - 1, 1024, cap)

LEMMA GrantedFits ==
  ASSUME NEW max \in Nat \ {0}, NEW cap \in {1024, 24576, 32000}
  PROVE  /\ Granted(max, cap) \in Nat /\ Granted(max, cap) >= 1024
         /\ max > 1024 => Granted(max, cap) < max
         /\ max <= 1024 => Granted(max, cap) = 1024
<1>1. PICK x : x = B!Min({max - 1, cap})
  OBVIOUS
<1>2. x \in Int /\ x <= cap /\ x <= max - 1 /\ (x = max - 1 \/ x = cap)
  BY <1>1, MinMax
<1>3. B!Max({1024, x}) = IF 1024 <= x THEN x ELSE 1024
  BY <1>2, MinMax
<1>4. Granted(max, cap) = IF 1024 <= x THEN x ELSE 1024
  BY <1>1, <1>3 DEF Granted, B!Clamped
<1> QED BY <1>2, <1>4

(***************************************************************************)
(* The inductive invariant, of a model m with the demands d, the config c, *)
(* the body x and the repairs that this candidate has seen.                *)
(***************************************************************************)
BodyType ==
  [max: Nat \ {0}, thinking: {"none", "disabled", "adaptive", "enabled"}, budget: Nat,
   effort: {None, "low", "max"}, blocks: BOOLEAN, first: BOOLEAN, tool: BOOLEAN,
   media: BOOLEAN, form: B!Ladder \cup {"", "unsupported"}]

\* What an upstream knows of the thinking in a form of the ladder, whatever the body.
FormShape(m, f) ==
  CASE m.protocol = "anthropic" ->
         IF B!SupportsAdaptive(m.name) THEN <<"adaptive", IF f = "alt" THEN "high" ELSE "max">>
         ELSE <<"enabled">>
    [] m.protocol = "gemini"    ->
         IF B!Series(m.name) = "legacy" THEN <<>>
         ELSE IF f = "max" /\ B!UsesLevel(B!Series(m.name)) THEN <<"thinkingLevel", "high">>
         ELSE <<"thinkingBudget">>
    [] m.protocol = "chat"      -> B!Shape(B!ChatForced(m, f))
    [] m.protocol = "responses" -> B!Shape(B!ResponsesForced(m, f))

\* A form is left because the upstream does not take it.
FormsRefused(m, d, c, x) ==
  ~(d.foreign /\ ~c.signature) =>
    /\ x.form \in {"legacy", "unsupported"} => FormShape(m, "alt") \notin d.takes
    /\ x.form = "unsupported" => FormShape(m, "legacy") \notin d.takes

\* What a repair is for does not come back after it, but for the budget that is raised over
\* a low limit.
Mended(d, x, seen) ==
  /\ "ThinkingForm" \notin seen
  /\ "ThinkingSignature" \in seen => ~x.blocks /\ ~B!Starts(x)
  /\ "ThinkingBudget" \in seen =>
       /\ x.thinking = "enabled" => x.budget = B!MaxThinkingBudget
       /\ x.max > B!MaxThinkingBudget \/ d.limit <= B!MaxThinkingBudget
  /\ "MaxTokensClamp" \in seen =>
       x.max = d.limit \/ ("ThinkingBudget" \in seen /\ d.limit <= B!MaxThinkingBudget)
  /\ "MediaFallback" \in seen => ~x.media

(***************************************************************************)
(* What is sent.                                                           *)
(***************************************************************************)
LEMMA ModelParts ==
  ASSUME NEW m \in B!Models
  PROVE  /\ m.protocol \in {"anthropic", "chat", "responses", "gemini"}
         /\ m.native \in BOOLEAN
<1> DEFINE C == {<<4, 5, 20250929>>, <<4, 20250514>>, <<4, 6>>, <<4, 7>>, <<>>}
           G == {<<1, 5>>, <<2, 5>>, <<3>>, <<>>}
<1>1. B!Models = {B!Model("anthropic", n, FALSE, FALSE) : n \in C}
                 \cup {B!Model("gemini", n, FALSE, FALSE) : n \in G}
                 \cup {B!Model("chat", <<>>, native, FALSE) : native \in BOOLEAN}
                 \cup {B!Model("chat", <<>>, TRUE, TRUE), B!Model("responses", <<>>, TRUE, TRUE),
                       B!Model("responses", <<>>, FALSE, FALSE)}
  BY SMT DEF B!Models
<1> HIDE DEF C, G
<1>2. ASSUME NEW protocol \in {"anthropic", "chat", "responses", "gemini"}, NEW n,
             NEW native \in BOOLEAN, NEW tops, m = B!Model(protocol, n, native, tops)
      PROVE  m.protocol \in {"anthropic", "chat", "responses", "gemini"} /\ m.native \in BOOLEAN
  BY SMT, <1>2 DEF B!Model
<1>3. CASE m \in {B!Model("anthropic", n, FALSE, FALSE) : n \in C}
  BY <1>2, <1>3
<1>4. CASE m \in {B!Model("gemini", n, FALSE, FALSE) : n \in G}
  BY <1>2, <1>4
<1>5. CASE m \in {B!Model("chat", <<>>, native, FALSE) : native \in BOOLEAN}
  BY <1>2, <1>5
<1>6. CASE m \in {B!Model("chat", <<>>, TRUE, TRUE), B!Model("responses", <<>>, TRUE, TRUE),
                  B!Model("responses", <<>>, FALSE, FALSE)}
  BY <1>2, <1>6
<1> QED BY <1>1, <1>3, <1>4, <1>5, <1>6

LEMMA SentBy ==
  ASSUME NEW m \in B!Models, NEW x
  PROVE  /\ m.protocol = "anthropic" => B!Sent(m, x) = B!Claude(m, x)
         /\ m.protocol = "gemini" => B!Sent(m, x) = B!Gemini(m, x)
         /\ m.protocol = "chat" =>
              B!Sent(m, x) = B!OpenAI(m, x, "reasoning_effort", B!ChatForced(m, x.form))
         /\ m.protocol = "responses" =>
              B!Sent(m, x) = B!OpenAI(m, x, "reasoning.effort", B!ResponsesForced(m, x.form))
<1>1. ASSUME m.protocol = "anthropic" PROVE B!Sent(m, x) = B!Claude(m, x)
  BY SMT, <1>1 DEF B!Sent
<1>2. ASSUME m.protocol = "gemini" PROVE B!Sent(m, x) = B!Gemini(m, x)
  BY SMT, <1>2 DEF B!Sent
<1>3. ASSUME m.protocol = "chat"
      PROVE  B!Sent(m, x) = B!OpenAI(m, x, "reasoning_effort", B!ChatForced(m, x.form))
  BY SMT, <1>3 DEF B!Sent
<1>4. ASSUME m.protocol = "responses"
      PROVE  B!Sent(m, x) = B!OpenAI(m, x, "reasoning.effort", B!ResponsesForced(m, x.form))
  BY SMT, <1>4 DEF B!Sent
<1> QED BY <1>1, <1>2, <1>3, <1>4

\* Claude is sent the budget that the client asks for, or one between 1024 and its max_tokens.
LEMMA ClaudeSends ==
  ASSUME NEW m, NEW x \in BodyType, NEW s, s = B!Claude(m, x)
  PROVE  /\ x.form \notin B!Ladder =>
              /\ s.max = x.max
              /\ s.thinking.kind = x.thinking
              /\ x.thinking = "enabled" => s.thinking.value = x.budget
         /\ x.form \in B!Ladder =>
              \/ s.max = x.max /\ s.thinking.kind = "adaptive"
              \/ /\ s.max = x.max \/ (s.max = 1025 /\ x.max <= 1024)
                 /\ s.thinking.value \in Nat /\ s.thinking.value >= 1024
                 /\ s.thinking.value < s.max
<1>1. x.max \in Nat \ {0} /\ x.form \in B!Ladder \cup {"", "unsupported"}
      /\ x.thinking \in {"none", "disabled", "adaptive", "enabled"}
  BY Zenon DEF BodyType
<1>2. CASE x.form \notin B!Ladder
  <2>1. x.form \in {"", "unsupported"}
    BY <1>1, <1>2, Zenon
  <2>2. s = [thinking |-> IF x.thinking = "none" THEN B!NoThinking
                          ELSE B!Sends(x.thinking, x.budget),
             max |-> x.max]
    BY <2>1, Zenon DEF B!Claude
  <2>3. s.max = x.max /\ s.thinking.kind = x.thinking
    <3>1. CASE x.thinking = "none"
      BY <2>2, <3>1 DEF B!NoThinking
    <3>2. CASE x.thinking # "none"
      BY <2>2, <3>2 DEF B!Sends
    <3> QED BY <3>1, <3>2
  <2>4. x.thinking = "enabled" => s.thinking.value = x.budget
    BY <2>2 DEF B!Sends
  <2> QED BY <1>2, <2>3, <2>4
<1>3. CASE x.form \in B!Ladder
  <2>1. s = B!ClaudeForced(m, x)
    BY <1>3, Zenon DEF B!Claude, B!Ladder
  <2>2. CASE B!SupportsAdaptive(m.name)
    BY <1>3, <2>1, <2>2 DEF B!ClaudeForced
  <2>3. CASE ~B!SupportsAdaptive(m.name)
    <3> PICK max \in Nat \ {0} : max = x.max
      BY <1>1, Zenon
    <3>1. PICK v, cap : v = Granted(max, cap) /\ cap = 32000
      OBVIOUS
    <3>2. /\ v \in Nat /\ v >= 1024
          /\ max > 1024 => v < max
          /\ max <= 1024 => v = 1024
      <4>1. cap \in {1024, 24576, 32000}
        BY <3>1
      <4>2. /\ Granted(max, cap) \in Nat /\ Granted(max, cap) >= 1024
            /\ max > 1024 => Granted(max, cap) < max
            /\ max <= 1024 => Granted(max, cap) = 1024
        BY <4>1, GrantedFits
      <4> QED BY <3>1, <4>2
    <3>3. s = [thinking |-> [kind |-> "enabled", value |-> v],
               max |-> IF x.max <= 1024 THEN 1025 ELSE x.max]
      BY <2>1, <2>3, <3>1 DEF B!ClaudeForced, B!ClaudeBudget, Granted
    <3>4. s.thinking.value = v /\ s.max = IF x.max <= 1024 THEN 1025 ELSE x.max
      BY <3>3
    <3>5. s.max = x.max \/ (s.max = 1025 /\ x.max <= 1024)
      BY <3>4
    <3>6. s.thinking.value \in Nat /\ s.thinking.value >= 1024 /\ s.thinking.value < s.max
      <4>1. s.max = IF max <= 1024 THEN 1025 ELSE max
        BY <3>4
      <4>2. v < s.max
        BY <3>2, <4>1
      <4> QED BY <3>2, <3>4, <4>2
    <3> QED BY <1>3, <3>5, <3>6
  <2> QED BY <2>2, <2>3
<1> QED BY <1>2, <1>3

\* The others are sent the max_tokens of the client; Gemini a budget below it.
LEMMA GeminiSends ==
  ASSUME NEW m, NEW x \in BodyType, NEW s, s = B!Gemini(m, x)
  PROVE  /\ s.max = x.max
         /\ x.form \in B!Ladder /\ s.thinking.kind \in {"enabled", "thinkingBudget"} =>
              /\ s.thinking.value \in Nat /\ s.thinking.value >= 1024
              /\ s.max > 1024 => s.thinking.value < s.max
<1>1. x.max \in Nat \ {0}
  BY Zenon DEF BodyType
<1>2. s.max = x.max
  BY Zenon DEF B!Gemini
<1>3. ASSUME x.form \in B!Ladder
      PROVE  s.thinking = B!GeminiForced(B!Series(m.name), x)
  BY <1>3, Zenon DEF B!Gemini, B!Ladder
<1>4. ASSUME NEW cap \in {1024, 24576}
      PROVE  /\ B!GeminiBudget(x, cap) \in Nat /\ B!GeminiBudget(x, cap) >= 1024
             /\ x.max > 1024 => B!GeminiBudget(x, cap) < x.max
  <2>1. B!GeminiBudget(x, cap) = Granted(x.max, cap)
    BY DEF B!GeminiBudget, Granted
  <2> QED BY <1>1, <2>1, GrantedFits
<1>5. ASSUME NEW series, NEW t, t = B!GeminiForced(series, x),
             t.kind \in {"enabled", "thinkingBudget"}
      PROVE  t.value = B!GeminiBudget(x, 24576) \/ t.value = B!GeminiBudget(x, 1024)
  BY <1>5 DEF B!GeminiForced, B!Sends, B!NoThinking
<1> QED BY <1>2, <1>3, <1>4, <1>5

LEMMA OpenAISends ==
  ASSUME NEW m, NEW x, NEW kind \in {"reasoning_effort", "reasoning.effort"}, NEW forced,
         forced.kind \notin {"enabled", "thinkingBudget"}, NEW s, s = B!OpenAI(m, x, kind, forced)
  PROVE  s.max = x.max /\ s.thinking.kind \notin {"enabled", "thinkingBudget"}
BY Zenon DEF B!OpenAI, B!Sends, B!NoThinking

LEMMA OpenAIForms ==
  ASSUME NEW m, NEW form
  PROVE  /\ B!ChatForced(m, form).kind \notin {"enabled", "thinkingBudget"}
         /\ B!ResponsesForced(m, form).kind \notin {"enabled", "thinkingBudget"}
BY DEF B!ChatForced, B!ResponsesForced, B!Sends, B!NoThinking

\* What the properties need of all protocols.
LEMMA AllSend ==
  ASSUME NEW m \in B!Models, NEW x \in BodyType, NEW s, s = B!Sent(m, x)
  PROVE  /\ \/ s.max = x.max
            \/ s.max = 1025 /\ x.max <= 1024 /\ x.form \in B!Ladder
         /\ x.form \notin B!Ladder /\ m.protocol = "anthropic" =>
              /\ s.thinking.kind = x.thinking
              /\ x.thinking = "enabled" => s.thinking.value = x.budget
         /\ x.form \in B!Ladder /\ s.thinking.kind \in {"enabled", "thinkingBudget"} =>
              /\ s.thinking.value \in Nat /\ s.thinking.value >= 1024
              /\ s.max > 1024 => s.thinking.value < s.max
              /\ m.protocol = "anthropic" => s.thinking.value < s.max
<1>1. CASE m.protocol = "anthropic"
  <2>1. s = B!Claude(m, x)
    BY <1>1, SentBy
  <2>2. x.max \in Nat
    BY Zenon DEF BodyType
  <2>3. /\ s.max = x.max \/ (s.max = 1025 /\ x.max <= 1024 /\ x.form \in B!Ladder)
        /\ x.form \notin B!Ladder =>
             s.thinking.kind = x.thinking /\ (x.thinking = "enabled" => s.thinking.value = x.budget)
        /\ x.form \in B!Ladder /\ s.thinking.kind \in {"enabled", "thinkingBudget"} =>
             /\ s.thinking.value \in Nat /\ s.thinking.value >= 1024
             /\ s.thinking.value < s.max
    BY <2>1, ClaudeSends
  <2> QED BY <1>1, <2>3
<1>2. CASE m.protocol = "gemini"
  <2>1. s = B!Gemini(m, x)
    BY <1>2, SentBy
  <2>2. /\ s.max = x.max
        /\ x.form \in B!Ladder /\ s.thinking.kind \in {"enabled", "thinkingBudget"} =>
             /\ s.thinking.value \in Nat /\ s.thinking.value >= 1024
             /\ s.max > 1024 => s.thinking.value < s.max
    BY <2>1, GeminiSends
  <2> QED BY <1>2, <2>2
<1>3. CASE m.protocol \in {"chat", "responses"}
  <2>1. \/ s = B!OpenAI(m, x, "reasoning_effort", B!ChatForced(m, x.form))
        \/ s = B!OpenAI(m, x, "reasoning.effort", B!ResponsesForced(m, x.form))
    BY <1>3, SentBy
  <2>2. s.max = x.max /\ s.thinking.kind \notin {"enabled", "thinkingBudget"}
    <3>1. PICK f : f = B!ChatForced(m, x.form)
      OBVIOUS
    <3>2. PICK g : g = B!ResponsesForced(m, x.form)
      OBVIOUS
    <3>3. ASSUME s = B!OpenAI(m, x, "reasoning_effort", f)
          PROVE  s.max = x.max /\ s.thinking.kind \notin {"enabled", "thinkingBudget"}
      <4>1. f.kind \notin {"enabled", "thinkingBudget"}
        BY <3>1, OpenAIForms
      <4> QED BY <3>3, <4>1, OpenAISends
    <3>4. ASSUME s = B!OpenAI(m, x, "reasoning.effort", g)
          PROVE  s.max = x.max /\ s.thinking.kind \notin {"enabled", "thinkingBudget"}
      <4>1. g.kind \notin {"enabled", "thinkingBudget"}
        BY <3>2, OpenAIForms
      <4> QED BY <3>4, <4>1, OpenAISends
    <3> QED BY <2>1, <3>1, <3>2, <3>3, <3>4
  <2> QED BY <1>3, <2>2
<1> QED BY <1>1, <1>2, <1>3, ModelParts

(***************************************************************************)
(* What of the thinking does not depend on the body.                       *)
(***************************************************************************)
LEMMA OpenAIForced ==
  ASSUME NEW m, NEW x, NEW kind, NEW forced, x.form \in B!Ladder,
         NEW s, s = B!OpenAI(m, x, kind, forced)
  PROVE  s.thinking = forced
<1>1. x.form # ""
  BY Zenon DEF B!Ladder
<1> QED BY <1>1, Zenon DEF B!OpenAI

LEMMA GeminiForces ==
  ASSUME NEW m, NEW x, x.form # ""
  PROVE  B!Gemini(m, x).thinking = B!GeminiForced(B!Series(m.name), x)
BY Zenon DEF B!Gemini

LEMMA ShapeByForm ==
  ASSUME NEW m \in B!Models, NEW x, x.form \in B!Ladder
  PROVE  B!Shape(B!Sent(m, x).thinking) = FormShape(m, x.form)
<1>1. x.form \in {"max", "alt", "legacy"}
  BY DEF B!Ladder
<1>2. CASE m.protocol = "anthropic"
  <2>1. B!Sent(m, x) = B!ClaudeForced(m, x)
    BY <1>1, <1>2, SentBy, Zenon DEF B!Claude
  <2>2. CASE B!SupportsAdaptive(m.name)
    <3>1. FormShape(m, x.form) = <<"adaptive", IF x.form = "alt" THEN "high" ELSE "max">>
      BY SMT, <1>2, <2>2 DEF FormShape
    <3>2. PICK t : /\ t = B!Sent(m, x).thinking /\ t.kind = "adaptive"
                   /\ t.value = IF x.form = "alt" THEN "high" ELSE "max"
      BY SMT, <2>1, <2>2 DEF B!ClaudeForced
    <3> QED BY <3>1, <3>2 DEF B!Shape
  <2>3. CASE ~B!SupportsAdaptive(m.name)
    <3>1. FormShape(m, x.form) = <<"enabled">>
      BY SMT, <1>2, <2>3 DEF FormShape
    <3>2. PICK t : t = B!Sent(m, x).thinking /\ t.kind = "enabled"
      BY SMT, <2>1, <2>3 DEF B!ClaudeForced, B!ClaudeBudget
    <3> QED BY <3>1, <3>2 DEF B!Shape
  <2> QED BY <2>2, <2>3
<1>3. CASE m.protocol = "gemini"
  <2>1. PICK series : series = B!Series(m.name)
    OBVIOUS
  <2>2. B!Sent(m, x).thinking = B!GeminiForced(series, x)
    <3>1. x.form # ""
      BY <1>1, Zenon
    <3>2. B!Sent(m, x) = B!Gemini(m, x)
      BY <1>3, SentBy
    <3> QED BY <2>1, <3>1, <3>2, GeminiForces, Zenon
  <2>3. CASE series = "legacy"
    <3>1. FormShape(m, x.form) = <<>>
      BY SMT, <1>3, <2>1, <2>3 DEF FormShape
    <3>2. B!GeminiForced(series, x) = B!NoThinking
      BY <2>3 DEF B!GeminiForced
    <3> QED BY <2>2, <3>1, <3>2 DEF B!Shape, B!NoThinking
  <2>4. CASE series # "legacy" /\ x.form = "max" /\ B!UsesLevel(series)
    <3>1. FormShape(m, x.form) = <<"thinkingLevel", "high">>
      BY SMT, <1>3, <2>1, <2>4 DEF FormShape
    <3>2. B!GeminiForced(series, x) = B!Sends("thinkingLevel", "high")
      BY <2>4 DEF B!GeminiForced
    <3> QED BY <2>2, <3>1, <3>2 DEF B!Shape, B!Sends
  <2>5. CASE series # "legacy" /\ ~(x.form = "max" /\ B!UsesLevel(series))
    <3>1. FormShape(m, x.form) = <<"thinkingBudget">>
      BY SMT, <1>3, <2>1, <2>5 DEF FormShape
    <3>2. PICK v : B!Sent(m, x).thinking = B!Sends("thinkingBudget", v)
      BY <1>1, <2>2, <2>5 DEF B!GeminiForced
    <3> QED BY <3>1, <3>2 DEF B!Shape, B!Sends
  <2> QED BY <2>3, <2>4, <2>5
<1>4. CASE m.protocol = "chat"
  <2>1. FormShape(m, x.form) = B!Shape(B!ChatForced(m, x.form))
    BY SMT, <1>4 DEF FormShape
  <2>2. PICK forced : forced = B!ChatForced(m, x.form)
    OBVIOUS
  <2>3. B!Sent(m, x) = B!OpenAI(m, x, "reasoning_effort", forced)
    BY <1>4, <2>2, SentBy
  <2>4. B!Sent(m, x).thinking = forced
    BY <2>3, OpenAIForced
  <2> QED BY <2>1, <2>2, <2>4
<1>5. CASE m.protocol = "responses"
  <2>1. FormShape(m, x.form) = B!Shape(B!ResponsesForced(m, x.form))
    BY SMT, <1>5 DEF FormShape
  <2>2. PICK forced : forced = B!ResponsesForced(m, x.form)
    OBVIOUS
  <2>3. B!Sent(m, x) = B!OpenAI(m, x, "reasoning.effort", forced)
    BY <1>5, <2>2, SentBy
  <2>4. B!Sent(m, x).thinking = forced
    BY <2>3, OpenAIForced
  <2> QED BY <2>1, <2>2, <2>4
<1> QED BY <1>2, <1>3, <1>4, <1>5, ModelParts

(***************************************************************************)
(* The texts of the complaints, and which repair each speaks to.           *)
(***************************************************************************)
Texts == {B!Foreign, B!Prefix, B!Small, B!Order, B!Limit, B!Unknown, B!Media}

LEMMA BlocksTexts ==
  ASSUME NEW t \in Texts
  PROVE  B!BlocksAtFault(t) <=> t \in {B!Foreign, B!Prefix}
BY Zenon DEF Texts, B!BlocksAtFault, B!Foreign, B!Prefix, B!Small, B!Order, B!Limit,
   B!Unknown, B!Media

LEMMA BudgetTexts ==
  ASSUME NEW t \in Texts
  PROVE  B!BudgetAtFault(t) <=> t = B!Small
BY Zenon DEF Texts, B!BudgetAtFault, B!Foreign, B!Prefix, B!Small, B!Order, B!Limit,
   B!Unknown, B!Media

LEMMA ThinkingTexts ==
  ASSUME NEW t \in Texts
  PROVE  B!ThinkingRejected(t) <=> t \in {B!Foreign, B!Unknown}
BY Zenon DEF Texts, B!ThinkingRejected, B!Foreign, B!Prefix, B!Small, B!Order, B!Limit,
   B!Unknown, B!Media

LEMMA MediaTexts ==
  ASSUME NEW t \in Texts
  PROVE  B!MediaRejected(t) <=> t = B!Media
BY Zenon DEF Texts, B!MediaRejected, B!Foreign, B!Prefix, B!Small, B!Order, B!Limit,
   B!Unknown, B!Media

LEMMA TextsDiffer ==
  /\ B!Foreign \notin {B!Prefix, B!Small, B!Order, B!Limit, B!Unknown, B!Media}
  /\ B!Prefix \notin {B!Small, B!Order, B!Limit, B!Unknown, B!Media}
  /\ B!Small \notin {B!Order, B!Limit, B!Unknown, B!Media}
  /\ B!Order \notin {B!Limit, B!Unknown, B!Media}
  /\ B!Limit \notin {B!Unknown, B!Media} /\ B!Unknown # B!Media
<1>1. "block" \in B!Foreign /\ "found" \in B!Prefix /\ "input should be" \in B!Small
      /\ "budget_tokens" \in B!Order /\ "output tokens" \in B!Limit /\ "effort" \in B!Unknown
  BY DEF B!Foreign, B!Prefix, B!Small, B!Order, B!Limit, B!Unknown
<1>2. /\ "block" \notin B!Prefix
      /\ "block" \notin B!Small
      /\ "block" \notin B!Order
      /\ "block" \notin B!Limit
      /\ "block" \notin B!Unknown
      /\ "block" \notin B!Media
  BY DEF B!Prefix, B!Small, B!Order, B!Limit,
   B!Unknown, B!Media
<1>3. /\ "found" \notin B!Small
      /\ "found" \notin B!Order
      /\ "found" \notin B!Limit
      /\ "found" \notin B!Unknown
      /\ "found" \notin B!Media
  BY DEF B!Small, B!Order, B!Limit,
   B!Unknown, B!Media
<1>4. /\ "input should be" \notin B!Order
      /\ "input should be" \notin B!Limit
      /\ "input should be" \notin B!Unknown
      /\ "input should be" \notin B!Media
  BY DEF B!Order, B!Limit, B!Unknown, B!Media
<1>5. /\ "budget_tokens" \notin B!Limit
      /\ "budget_tokens" \notin B!Unknown
      /\ "budget_tokens" \notin B!Media
  BY DEF B!Limit, B!Unknown, B!Media
<1>6. /\ "output tokens" \notin B!Unknown
      /\ "output tokens" \notin B!Media
  BY DEF B!Unknown, B!Media
<1>7. "effort" \notin B!Media
  BY DEF B!Media
<1> QED BY <1>1, <1>2, <1>3, <1>4, <1>5, <1>6, <1>7, Zenon

\* When each complaint is due.
LEMMA Offences ==
  ASSUME NEW m, NEW d, NEW x, NEW s, NEW t \in B!Offends(m, d, x, s)
  PROVE  /\ t \in Texts
         /\ t = B!Foreign => d.foreign /\ x.blocks
         /\ t = B!Prefix => m.protocol = "anthropic" /\ s.thinking.kind = "enabled"
                            /\ x.tool /\ ~x.first
         /\ t = B!Small => m.protocol = "anthropic" /\ s.thinking.kind = "enabled"
                           /\ s.thinking.value < 1024
         /\ t = B!Order => m.protocol = "anthropic" /\ s.thinking.kind = "enabled"
                           /\ s.thinking.value >= 1024 /\ s.thinking.value >= s.max
         /\ t = B!Limit => s.max > d.limit
         /\ t = B!Unknown => B!Shape(s.thinking) \notin d.takes
         /\ t = B!Media => x.media
<1>1. \/ t = B!Foreign /\ d.foreign /\ x.blocks
      \/ t = B!Prefix /\ m.protocol = "anthropic" /\ s.thinking.kind = "enabled"
                      /\ x.tool /\ ~x.first
      \/ t = B!Small /\ m.protocol = "anthropic" /\ s.thinking.kind = "enabled"
                     /\ s.thinking.value < 1024
      \/ t = B!Order /\ m.protocol = "anthropic" /\ s.thinking.kind = "enabled"
                     /\ s.thinking.value >= 1024 /\ s.thinking.value >= s.max
      \/ t = B!Limit /\ s.max > d.limit
      \/ t = B!Unknown /\ B!Shape(s.thinking) \notin d.takes
      \/ t = B!Media /\ x.media
  BY DEF B!Offends, B!IsBudget
<1> QED BY <1>1, TextsDiffer DEF Texts

(***************************************************************************)
(* What each repair does.                                                  *)
(***************************************************************************)
LEMMA ConfigFacts ==
  ASSUME NEW c \in B!Configs
  PROVE  /\ c.enabled \in BOOLEAN /\ c.signature \in BOOLEAN
         /\ c.enabled => c.budget /\ c.media
<1>1. \/ c = [enabled |-> TRUE, signature |-> TRUE, budget |-> TRUE, media |-> TRUE]
      \/ c = [enabled |-> TRUE, signature |-> FALSE, budget |-> TRUE, media |-> TRUE]
      \/ c = [enabled |-> FALSE, signature |-> TRUE, budget |-> TRUE, media |-> FALSE]
  BY DEF B!Configs
<1>2. CASE c = [enabled |-> TRUE, signature |-> TRUE, budget |-> TRUE, media |-> TRUE]
  BY <1>2
<1>3. CASE c = [enabled |-> TRUE, signature |-> FALSE, budget |-> TRUE, media |-> TRUE]
  BY <1>3
<1>4. CASE c = [enabled |-> FALSE, signature |-> TRUE, budget |-> TRUE, media |-> FALSE]
  BY <1>4
<1> QED BY <1>1, <1>2, <1>3, <1>4

LEMMA BodyFacts ==
  ASSUME NEW x \in BodyType
  PROVE  /\ x.max \in Nat \ {0} /\ x.budget \in Nat
         /\ x.thinking \in {"none", "disabled", "adaptive", "enabled"}
         /\ x.blocks \in BOOLEAN /\ x.first \in BOOLEAN /\ x.tool \in BOOLEAN
         /\ x.media \in BOOLEAN /\ x.form \in B!Ladder \cup {"", "unsupported"}
BY Zenon DEF BodyType

LEMMA BlocksRemoved ==
  ASSUME NEW x \in BodyType, NEW y, y = B!BlocksRemoved(x)
  PROVE  /\ y \in BodyType
         /\ ~y.blocks /\ ~B!Starts(y)
         /\ y.max = x.max /\ y.form = x.form /\ y.media = x.media /\ y.tool = x.tool
         /\ y.thinking = "enabled" => x.thinking = "enabled" /\ y.budget = x.budget
         /\ ~x.first /\ y = x => ~B!Starts(x)
<1>1. PICK w \in BodyType : w = B!WithoutBlocks(x)
  BY Zenon DEF B!WithoutBlocks, BodyType
<1>2. /\ ~w.blocks /\ ~w.first
      /\ w.max = x.max /\ w.form = x.form /\ w.media = x.media /\ w.tool = x.tool
      /\ w.thinking = x.thinking /\ w.budget = x.budget
  BY <1>1, Zenon DEF B!WithoutBlocks, BodyType
<1>3. CASE B!Starts(w)
  <2>1. y = [w EXCEPT !.thinking = "none", !.budget = 0]
    BY <1>1, <1>3 DEF B!BlocksRemoved
  <2>2. y \in BodyType
    <3>1. PICK none \in Nat : none = 0
      OBVIOUS
    <3>2. y = [w EXCEPT !.thinking = "none", !.budget = none]
      BY <2>1, <3>1
    <3> QED BY <3>2, Zenon DEF BodyType
  <2>3. /\ ~y.blocks /\ y.thinking = "none"
        /\ y.max = x.max /\ y.form = x.form /\ y.media = x.media /\ y.tool = x.tool
    BY <1>2, <2>1, Zenon DEF BodyType
  <2>4. x.thinking = "enabled"
    BY <1>2, <1>3 DEF B!Starts
  <2> QED BY <2>2, <2>3, <2>4 DEF B!Starts
<1>4. CASE ~B!Starts(w)
  <2>1. y = w
    BY <1>1, <1>4 DEF B!BlocksRemoved
  <2> QED BY <1>2, <1>4, <2>1
<1> QED BY <1>3, <1>4

LEMMA BudgetRaised ==
  ASSUME NEW x \in BodyType, x.thinking = "enabled", NEW y, y = B!BudgetRaised(x)
  PROVE  /\ y \in BodyType
         /\ y.thinking = "enabled" /\ y.budget = 32000
         /\ y.max > 32000 /\ (x.max > 32000 => y.max = x.max)
         /\ y.form = x.form /\ y.media = x.media /\ y.tool = x.tool
         /\ y.first = x.first /\ y.blocks = x.blocks
<1>1. y = [x EXCEPT !.thinking = "enabled", !.budget = 32000,
                    !.max = IF @ <= 32000 THEN 64000 ELSE @]
  BY DEF B!BudgetRaised, B!MaxThinkingBudget, B!MaxTokensValue
<1> PICK old \in Nat \ {0} : old = x.max
  BY BodyFacts, Zenon
<1>2. PICK max \in Nat \ {0} : max = IF old <= 32000 THEN 64000 ELSE old
  OBVIOUS
<1>3. PICK budget \in Nat : budget = 32000
  OBVIOUS
<1>4. max > 32000 /\ (old > 32000 => max = old)
  BY <1>2
<1>5. y = [x EXCEPT !.thinking = "enabled", !.budget = budget, !.max = max]
  BY <1>1, <1>2, <1>3
<1>6. y \in BodyType
  BY <1>5, Zenon DEF BodyType
<1>7. /\ y.thinking = "enabled" /\ y.budget = budget /\ y.max = max
      /\ y.form = x.form /\ y.media = x.media /\ y.tool = x.tool
      /\ y.first = x.first /\ y.blocks = x.blocks
  BY <1>5, Zenon DEF BodyType
<1> QED BY <1>3, <1>4, <1>6, <1>7

FormLowered(x) == [x EXCEPT !.form = B!Downgraded(@)]

LEMMA FormIsLowered ==
  ASSUME NEW x \in BodyType, x.form \in B!Ladder, NEW y, y = FormLowered(x)
  PROVE  /\ y \in BodyType /\ y # x
         /\ x.form = "max" => y.form = "alt"
         /\ x.form = "alt" => y.form = "legacy"
         /\ x.form = "legacy" => y.form = "unsupported"
         /\ y.max = x.max /\ y.thinking = x.thinking /\ y.budget = x.budget
         /\ y.blocks = x.blocks /\ y.first = x.first /\ y.tool = x.tool /\ y.media = x.media
<1>1. PICK f : f = B!Downgraded(x.form)
  OBVIOUS
<1>2. /\ x.form = "max" => f = "alt"
      /\ x.form = "alt" => f = "legacy"
      /\ x.form = "legacy" => f = "unsupported"
  BY <1>1 DEF B!Downgraded
<1>3. y = [x EXCEPT !.form = f]
  BY <1>1 DEF FormLowered
<1>4. f \in B!Ladder \cup {"", "unsupported"} /\ f # x.form
  BY <1>2, Zenon DEF B!Ladder
<1>5. y \in BodyType
  BY <1>3, <1>4, Zenon DEF BodyType
<1>6. /\ y.form = f
      /\ y.max = x.max /\ y.thinking = x.thinking /\ y.budget = x.budget
      /\ y.blocks = x.blocks /\ y.first = x.first /\ y.tool = x.tool /\ y.media = x.media
  BY <1>3, Zenon DEF BodyType
<1> QED BY <1>2, <1>4, <1>5, <1>6, Zenon

\* The limit that is read in a complaint about max_tokens, once it has four digits.
LEMMA LimitRead ==
  ASSUME NEW t \in Texts, NEW limit \in Nat, NEW max \in Nat, t = B!Limit => max > limit,
         NEW l, l = B!LimitIn(t, IF t = B!Limit THEN {limit, max} ELSE {})
  PROVE  /\ t # B!Limit => l = None
         /\ t = B!Limit /\ limit >= 1000 => l = limit
         /\ t = B!Limit /\ limit < 1000 => l = None \/ l = max
<1>1. CASE t # B!Limit
  <2>1. l = B!LimitIn(t, {})
    BY <1>1
  <2>2. {n \in {} : n >= 1000} = {}
    OBVIOUS
  <2> QED BY <1>1, <2>1, <2>2 DEF B!LimitIn
<1>2. CASE t = B!Limit
  <2>1. l = B!LimitIn(t, {limit, max})
    BY <1>2
  <2>2. "max_tokens" \in t
    BY <1>2, Zenon DEF B!Limit
  <2> DEFINE large == {n \in {limit, max} : n >= 1000}
  <2>3. t \cap {"max_tokens", "max_completion_tokens", "output tokens", "max_output_tokens"} # {}
    BY <2>2, Zenon
  <2>4. l = IF large = {} THEN None ELSE B!Min(large)
    BY <2>1, <2>3, Zenon DEF B!LimitIn
  <2>5. CASE limit >= 1000
    <3>1. large = {limit, max}
      BY <1>2, <2>5
    <3>2. B!Min({limit, max}) = limit
      BY <1>2, MinMax
    <3>3. large # {}
      BY <3>1
    <3> HIDE DEF large
    <3> QED BY <1>2, <2>4, <2>5, <3>1, <3>2, <3>3
  <2>6. CASE limit < 1000 /\ max >= 1000
    <3>1. large = {max, max}
      BY <2>6
    <3>2. B!Min({max, max}) = max
      BY MinMax
    <3>3. large # {}
      BY <3>1
    <3> HIDE DEF large
    <3> QED BY <1>2, <2>4, <2>6, <3>1, <3>2, <3>3
  <2>7. CASE limit < 1000 /\ max < 1000
    <3>1. large = {}
      BY <2>7
    <3> HIDE DEF large
    <3> QED BY <1>2, <2>4, <2>7, <3>1
  <2> QED BY <2>5, <2>6, <2>7
<1> QED BY <1>1, <1>2

LEMMA MaxClamped ==
  ASSUME NEW x \in BodyType, NEW l \in Nat \ {0}, NEW y, y = B!MaxClamped(x, l)
  PROVE  /\ l < x.max => y \in BodyType /\ y.max = l
         /\ l >= x.max => y = x
         /\ y.form = x.form /\ y.thinking = x.thinking /\ y.budget = x.budget
         /\ y.blocks = x.blocks /\ y.first = x.first /\ y.tool = x.tool /\ y.media = x.media
<1> PICK old \in Nat \ {0} : old = x.max
  BY BodyFacts, Zenon
<1>1. l # None
  BY RepairConstants
<1>2. CASE l < old
  <2>1. y = [x EXCEPT !.max = l]
    BY <1>1, <1>2 DEF B!MaxClamped
  <2>2. y \in BodyType
    BY <2>1, Zenon DEF BodyType
  <2>3. /\ y.max = l /\ y.form = x.form /\ y.thinking = x.thinking /\ y.budget = x.budget
        /\ y.blocks = x.blocks /\ y.first = x.first /\ y.tool = x.tool /\ y.media = x.media
    BY <2>1, Zenon DEF BodyType
  <2> QED BY <1>2, <2>2, <2>3
<1>3. CASE ~(l < old)
  <2>1. y = [x EXCEPT !.max = x.max]
    BY <1>3 DEF B!MaxClamped
  <2>2. y = x
    BY <2>1, Zenon DEF BodyType
  <2> QED BY <1>3, <2>2
<1> QED BY <1>2, <1>3

LEMMA WithoutMedia ==
  ASSUME NEW x \in BodyType, NEW y, y = B!WithoutMedia(x)
  PROVE  /\ y \in BodyType /\ ~y.media
         /\ y.max = x.max /\ y.form = x.form /\ y.thinking = x.thinking /\ y.budget = x.budget
         /\ y.blocks = x.blocks /\ y.first = x.first /\ y.tool = x.tool
<1>1. y = [x EXCEPT !.media = FALSE]
  BY DEF B!WithoutMedia
<1> QED BY <1>1, Zenon DEF BodyType

(***************************************************************************)
(* A complaint t of an upstream with the demands d about the body x, and   *)
(* the limit l that is read in it.                                         *)
(***************************************************************************)
DemandType(d) == d.limit \in Nat \ {0} /\ d.foreign \in BOOLEAN

Complained(m, d, x, t, l) ==
  /\ t \in B!Offends(m, d, x, B!Sent(m, x))
  /\ l = B!LimitIn(t, IF t = B!Limit THEN {d.limit, B!Sent(m, x).max} ELSE {})

LEMMA ComplaintMeans ==
  ASSUME NEW m \in B!Models, NEW d, DemandType(d), NEW x \in BodyType, NEW t, NEW l,
         Complained(m, d, x, t, l), NEW n, n = B!Sent(m, x).max
  PROVE  /\ t \in Texts
         /\ t = B!Foreign => d.foreign /\ x.blocks
         /\ t = B!Prefix => /\ x.tool /\ ~x.first
                            /\ x.form \notin B!Ladder => x.thinking = "enabled"
         /\ t = B!Small => x.form \notin B!Ladder /\ x.thinking = "enabled" /\ x.budget < 1024
         /\ t = B!Order => x.form \notin B!Ladder /\ x.thinking = "enabled" /\ x.budget >= x.max
         /\ t = B!Limit => n > d.limit
         /\ n \in Nat /\ (n = x.max \/ (n = 1025 /\ x.max <= 1024 /\ x.form \in B!Ladder))
         /\ t = B!Unknown => B!Shape(B!Sent(m, x).thinking) \notin d.takes
         /\ t = B!Media => x.media
         /\ t # B!Limit => l = None
         /\ t = B!Limit /\ d.limit >= 1000 => l = d.limit
         /\ t = B!Limit /\ d.limit < 1000 => l = None \/ l = n
<1>1. PICK s : s = B!Sent(m, x)
  OBVIOUS
<1>2. t \in B!Offends(m, d, x, s) /\ n = s.max
      /\ l = B!LimitIn(t, IF t = B!Limit THEN {d.limit, n} ELSE {})
  BY <1>1 DEF Complained
<1> PICK value, kind : value = s.thinking.value /\ kind = s.thinking.kind
  OBVIOUS
<1>3. PICK max \in Nat \ {0}, budget \in Nat : max = x.max /\ budget = x.budget
  BY BodyFacts, Zenon
<1>4. /\ n = max \/ (n = 1025 /\ max <= 1024 /\ x.form \in B!Ladder)
      /\ x.form \notin B!Ladder /\ m.protocol = "anthropic" =>
           kind = x.thinking /\ (x.thinking = "enabled" => value = budget)
      /\ x.form \in B!Ladder /\ kind \in {"enabled", "thinkingBudget"} =>
           /\ value \in Nat /\ value >= 1024
           /\ m.protocol = "anthropic" => value < n
  BY <1>1, <1>2, <1>3, AllSend
<1>5. n \in Nat
  BY <1>4
<1>6. /\ t \in Texts
      /\ t = B!Foreign => d.foreign /\ x.blocks
      /\ t = B!Prefix => m.protocol = "anthropic" /\ kind = "enabled" /\ x.tool /\ ~x.first
      /\ t = B!Small => m.protocol = "anthropic" /\ kind = "enabled" /\ value < 1024
      /\ t = B!Order => m.protocol = "anthropic" /\ kind = "enabled" /\ value >= n
      /\ t = B!Limit => n > d.limit
      /\ t = B!Unknown => B!Shape(s.thinking) \notin d.takes
      /\ t = B!Media => x.media
  BY <1>2, <1>3, Offences
<1>7. t = B!Prefix => (x.form \notin B!Ladder => x.thinking = "enabled")
  BY <1>4, <1>6
<1>8. t = B!Small => x.form \notin B!Ladder /\ x.thinking = "enabled" /\ budget < 1024
  BY <1>4, <1>6
<1>9. t = B!Order => x.form \notin B!Ladder /\ x.thinking = "enabled" /\ budget >= max
  BY <1>4, <1>5, <1>6
<1>10. PICK limit \in Nat : limit = d.limit
  BY DEF DemandType
<1>11. /\ t # B!Limit => l = None
       /\ t = B!Limit /\ limit >= 1000 => l = limit
       /\ t = B!Limit /\ limit < 1000 => l = None \/ l = n
  <2>1. l = B!LimitIn(t, IF t = B!Limit THEN {limit, n} ELSE {}) /\ (t = B!Limit => n > limit)
    BY <1>2, <1>6, <1>10
  <2> QED BY <1>5, <1>6, <2>1, LimitRead
<1> QED BY <1>1, <1>3, <1>4, <1>5, <1>6, <1>7, <1>8, <1>9, <1>10, <1>11

(***************************************************************************)
(* A repair r that recognises the complaint, and changes the body, keeps   *)
(* the invariant.                                                          *)
(***************************************************************************)
Mending(m, d, c, x, seen, t, l, r, y) ==
  /\ m \in B!Models /\ DemandType(d) /\ c \in B!Configs /\ x \in BodyType
  /\ Complained(m, d, x, t, l)
  /\ B!Recognises(c, r, t, l) /\ y = B!Repaired(r, x, l) /\ y # x
  /\ r \notin seen /\ x.form # "unsupported"
  /\ FormsRefused(m, d, c, x) /\ Mended(d, x, seen)
  /\ t = B!Foreign /\ c.signature => r = "ThinkingSignature"

\* What is true of the body y after the repair r.
MendKeeps(m, d, c, seen, r, y) ==
  /\ y \in BodyType /\ FormsRefused(m, d, c, y)
  /\ Mended(d, y, IF r = "ThinkingForm" THEN seen ELSE seen \cup {r})

LEMMA SignatureMends ==
  ASSUME NEW m, NEW d, NEW c, NEW x, NEW seen, NEW t, NEW l, NEW y,
         Mending(m, d, c, x, seen, t, l, "ThinkingSignature", y)
  PROVE  MendKeeps(m, d, c, seen, "ThinkingSignature", y)
<1>1. x \in BodyType /\ FormsRefused(m, d, c, x) /\ Mended(d, x, seen)
  BY DEF Mending
<1>2. y = B!BlocksRemoved(x)
  BY SMT DEF Mending, B!Repaired
<1>3. /\ y \in BodyType
      /\ ~y.blocks /\ ~B!Starts(y)
      /\ y.max = x.max /\ y.form = x.form /\ y.media = x.media
      /\ y.thinking = "enabled" => x.thinking = "enabled" /\ y.budget = x.budget
  BY <1>1, <1>2, BlocksRemoved
<1>4. FormsRefused(m, d, c, y)
  BY <1>1, <1>3 DEF FormsRefused
<1>5. Mended(d, y, seen \cup {"ThinkingSignature"})
  BY <1>1, <1>3 DEF Mended
<1> QED BY <1>3, <1>4, <1>5 DEF MendKeeps

LEMMA BudgetMends ==
  ASSUME NEW m, NEW d, NEW c, NEW x, NEW seen, NEW t, NEW l, NEW y,
         Mending(m, d, c, x, seen, t, l, "ThinkingBudget", y)
  PROVE  MendKeeps(m, d, c, seen, "ThinkingBudget", y)
<1>1. /\ m \in B!Models /\ DemandType(d) /\ x \in BodyType /\ Complained(m, d, x, t, l)
      /\ FormsRefused(m, d, c, x) /\ Mended(d, x, seen)
  BY DEF Mending
<1>2. y = B!BudgetRaised(x) /\ B!BudgetAtFault(t)
  BY SMT DEF Mending, B!Repaired, B!Recognises
<1>3. x.thinking = "enabled"
  BY <1>1, <1>2, ComplaintMeans, BudgetTexts
<1>4. /\ y \in BodyType
      /\ y.thinking = "enabled" /\ y.budget = 32000
      /\ y.max > 32000 /\ (x.max > 32000 => y.max = x.max)
      /\ y.form = x.form /\ y.media = x.media /\ y.tool = x.tool
      /\ y.first = x.first /\ y.blocks = x.blocks
  BY <1>1, <1>2, <1>3, BudgetRaised
<1>5. FormsRefused(m, d, c, y)
  BY <1>1, <1>4 DEF FormsRefused
<1>6. "ThinkingSignature" \in seen => ~y.blocks /\ ~B!Starts(y)
  BY <1>1, <1>3, <1>4 DEF Mended, B!Starts
<1>7. "MaxTokensClamp" \in seen => y.max = d.limit \/ d.limit <= 32000
  <2> PICK old \in Nat, limit \in Nat : old = x.max /\ limit = d.limit
    BY <1>1, BodyFacts, Zenon DEF DemandType
  <2>1. "MaxTokensClamp" \in seen => old = limit \/ limit <= 32000
    BY <1>1 DEF Mended, B!MaxThinkingBudget
  <2> QED BY <1>4, <2>1
<1>8. Mended(d, y, seen \cup {"ThinkingBudget"})
  BY <1>1, <1>4, <1>6, <1>7 DEF Mended, B!MaxThinkingBudget
<1> QED BY <1>4, <1>5, <1>8 DEF MendKeeps

LEMMA FormMends ==
  ASSUME NEW m, NEW d, NEW c, NEW x, NEW seen, NEW t, NEW l, NEW y,
         Mending(m, d, c, x, seen, t, l, "ThinkingForm", y)
  PROVE  MendKeeps(m, d, c, seen, "ThinkingForm", y)
<1>1. /\ m \in B!Models /\ DemandType(d) /\ c \in B!Configs /\ x \in BodyType
      /\ Complained(m, d, x, t, l) /\ y # x /\ x.form # "unsupported"
      /\ FormsRefused(m, d, c, x) /\ Mended(d, x, seen)
      /\ t = B!Foreign => ~c.signature
  BY DEF Mending
<1>2. y = IF x.form \in {"", "unsupported"} THEN x ELSE FormLowered(x)
  <2>1. y = B!Repaired("ThinkingForm", x, l)
    BY DEF Mending
  <2>2. B!Repaired("ThinkingForm", x, l) =
          IF x.form \in {"", "unsupported"} THEN x ELSE FormLowered(x)
    BY SMT DEF B!Repaired, FormLowered
  <2> QED BY <2>1, <2>2, Zenon
<1>3. B!ThinkingRejected(t)
  BY SMT DEF Mending, B!Recognises
<1>4. x.form \in B!Ladder
  BY <1>1, <1>2, BodyFacts, Zenon
<1>5. y = FormLowered(x)
  BY <1>1, <1>2, Zenon
<1>6. /\ y \in BodyType
      /\ x.form = "max" => y.form = "alt"
      /\ x.form = "alt" => y.form = "legacy"
      /\ x.form = "legacy" => y.form = "unsupported"
      /\ y.max = x.max /\ y.thinking = x.thinking /\ y.budget = x.budget
      /\ y.blocks = x.blocks /\ y.first = x.first /\ y.tool = x.tool /\ y.media = x.media
  BY <1>1, <1>4, <1>5, FormIsLowered
<1>7. ASSUME ~(d.foreign /\ ~c.signature)
      PROVE  FormShape(m, x.form) \notin d.takes
  <2>1. t = B!Foreign => d.foreign
    BY <1>1, ComplaintMeans
  <2>2. t = B!Unknown
    BY <1>1, <1>3, <1>7, <2>1, ComplaintMeans, ThinkingTexts
  <2>3. B!Shape(B!Sent(m, x).thinking) \notin d.takes
    BY <1>1, <2>2, ComplaintMeans
  <2> QED BY <1>1, <1>4, <2>3, ShapeByForm
<1>8. FormsRefused(m, d, c, y)
  <2>1. x.form \in {"max", "alt", "legacy"}
    BY <1>4 DEF B!Ladder
  <2>2. CASE x.form = "max"
    BY <1>6, <2>2 DEF FormsRefused
  <2>3. CASE x.form = "alt"
    BY <1>6, <1>7, <2>3 DEF FormsRefused
  <2>4. CASE x.form = "legacy"
    BY <1>1, <1>6, <1>7, <2>4 DEF FormsRefused
  <2> QED BY <2>1, <2>2, <2>3, <2>4
<1>9. Mended(d, y, seen)
  BY <1>1, <1>6 DEF Mended, B!Starts
<1> QED BY <1>6, <1>8, <1>9 DEF MendKeeps

LEMMA ClampMends ==
  ASSUME NEW m, NEW d, NEW c, NEW x, NEW seen, NEW t, NEW l, NEW y,
         Mending(m, d, c, x, seen, t, l, "MaxTokensClamp", y)
  PROVE  MendKeeps(m, d, c, seen, "MaxTokensClamp", y)
<1>1. /\ m \in B!Models /\ DemandType(d) /\ x \in BodyType
      /\ Complained(m, d, x, t, l) /\ y # x
      /\ FormsRefused(m, d, c, x) /\ Mended(d, x, seen)
  BY DEF Mending
<1>2. y = B!MaxClamped(x, l)
  BY SMT DEF Mending, B!Repaired
<1>3. l # None
  BY SMT DEF Mending, B!Recognises
<1>4. PICK old \in Nat \ {0}, limit \in Nat \ {0} : old = x.max /\ limit = d.limit
  BY <1>1, BodyFacts, Zenon DEF DemandType
<1>5. PICK n : n = B!Sent(m, x).max
  OBVIOUS
<1>6. /\ t = B!Limit /\ n > limit
      /\ n \in Nat /\ (n = old \/ (n = 1025 /\ old <= 1024))
      /\ limit >= 1000 => l = limit
      /\ limit < 1000 => l = n
  BY <1>1, <1>3, <1>4, <1>5, ComplaintMeans
<1>7. l \in Nat \ {0}
  BY <1>6
<1>8. /\ l < old => y \in BodyType /\ y.max = l
      /\ l >= old => y = x
      /\ y.form = x.form /\ y.thinking = x.thinking /\ y.budget = x.budget
      /\ y.blocks = x.blocks /\ y.first = x.first /\ y.tool = x.tool /\ y.media = x.media
  BY <1>1, <1>2, <1>4, <1>7, MaxClamped
<1>9. l < old /\ l = limit
  BY <1>1, <1>6, <1>7, <1>8
<1>10. y \in BodyType /\ y.max = d.limit
  BY <1>4, <1>8, <1>9
<1>11. FormsRefused(m, d, c, y)
  BY <1>1, <1>8 DEF FormsRefused
<1>12. "ThinkingBudget" \in seen => y.max > 32000 \/ d.limit <= 32000
  BY <1>4, <1>10
<1>13. Mended(d, y, seen \cup {"MaxTokensClamp"})
  BY <1>1, <1>8, <1>10, <1>12 DEF Mended, B!Starts, B!MaxThinkingBudget
<1> QED BY <1>10, <1>11, <1>13 DEF MendKeeps

LEMMA MediaMends ==
  ASSUME NEW m, NEW d, NEW c, NEW x, NEW seen, NEW t, NEW l, NEW y,
         Mending(m, d, c, x, seen, t, l, "MediaFallback", y)
  PROVE  MendKeeps(m, d, c, seen, "MediaFallback", y)
<1>1. x \in BodyType /\ FormsRefused(m, d, c, x) /\ Mended(d, x, seen)
  BY DEF Mending
<1>2. y = B!WithoutMedia(x)
  BY SMT DEF Mending, B!Repaired
<1>3. /\ y \in BodyType /\ ~y.media
      /\ y.max = x.max /\ y.form = x.form /\ y.thinking = x.thinking /\ y.budget = x.budget
      /\ y.blocks = x.blocks /\ y.first = x.first /\ y.tool = x.tool
  BY <1>1, <1>2, WithoutMedia
<1>4. FormsRefused(m, d, c, y)
  BY <1>1, <1>3 DEF FormsRefused
<1>5. Mended(d, y, seen \cup {"MediaFallback"})
  BY <1>1, <1>3 DEF Mended, B!Starts
<1> QED BY <1>3, <1>4, <1>5 DEF MendKeeps

LEMMA EveryRepairMends ==
  ASSUME NEW m, NEW d, NEW c, NEW x, NEW seen, NEW t, NEW l, NEW r \in B!Repair, NEW y,
         Mending(m, d, c, x, seen, t, l, r, y)
  PROVE  MendKeeps(m, d, c, seen, r, y)
BY SignatureMends, BudgetMends, FormMends, ClampMends, MediaMends DEF B!Repair

(***************************************************************************)
(* The first usable repair.                                                *)
(***************************************************************************)
LEMMA PlacesOfRepairs ==
  /\ DOMAIN B!Places = 1 .. 5 /\ B!Places[1] = "ThinkingSignature"
  /\ \A i \in 1 .. 5 : B!Places[i] \in B!Repair
  /\ \A r \in B!Repair : \E i \in 1 .. 5 : B!Places[i] = r
<1>1. /\ DOMAIN B!Places = 1 .. 5 /\ B!Places[1] = "ThinkingSignature"
      /\ B!Places[2] = "ThinkingBudget" /\ B!Places[3] = "ThinkingForm"
      /\ B!Places[4] = "MaxTokensClamp" /\ B!Places[5] = "MediaFallback"
  BY DEF B!Places
<1>2. \A i \in 1 .. 5 : i = 1 \/ i = 2 \/ i = 3 \/ i = 4 \/ i = 5
  OBVIOUS
<1>3. 1 \in 1 .. 5 /\ 2 \in 1 .. 5 /\ 3 \in 1 .. 5 /\ 4 \in 1 .. 5 /\ 5 \in 1 .. 5
  OBVIOUS
<1> QED BY <1>1, <1>2, <1>3 DEF B!Repair

LEMMA LeastOfFive ==
  ASSUME NEW u, u \subseteq 1 .. 5, u # {}
  PROVE  B!Min(u) \in u /\ (1 \in u => B!Min(u) = 1)
<1>1. \E i \in u : \A j \in u : i <= j
  <2>1. CASE 1 \in u
    BY <2>1
  <2>2. CASE 1 \notin u /\ 2 \in u
    BY <2>2
  <2>3. CASE 1 \notin u /\ 2 \notin u /\ 3 \in u
    BY <2>3
  <2>4. CASE 1 \notin u /\ 2 \notin u /\ 3 \notin u /\ 4 \in u
    BY <2>4
  <2>5. CASE 1 \notin u /\ 2 \notin u /\ 3 \notin u /\ 4 \notin u
    <3>1. \A j \in u : j = 5
      BY <2>5
    <3>2. PICK i \in u : i = 5
      BY <3>1
    <3>3. \A j \in u : i <= j
      BY <3>1, <3>2
    <3> QED BY <3>3
  <2> QED BY <2>1, <2>2, <2>3, <2>4, <2>5
<1>2. B!Min(u) \in u /\ \A j \in u : B!Min(u) <= j
  BY <1>1 DEF B!Min
<1>3. B!Min(u) \in 1 .. 5
  BY <1>2
<1> QED BY <1>2, <1>3

\* Whether the repair r could be made.
Helps(c, x, seen, t, l, r) ==
  r \notin seen /\ B!Recognises(c, r, t, l) /\ B!Repaired(r, x, l) # x

LEMMA FirstUsable ==
  ASSUME NEW c, NEW x, NEW seen, NEW t, NEW l, NEW u, u = B!Usable(c, x, seen, t, l)
  PROVE  /\ u = {} => \A r \in B!Repair : ~Helps(c, x, seen, t, l, r)
         /\ u # {} => /\ B!Places[B!Min(u)] \in B!Repair
                      /\ Helps(c, x, seen, t, l, B!Places[B!Min(u)])
                      /\ Helps(c, x, seen, t, l, "ThinkingSignature") =>
                           B!Places[B!Min(u)] = "ThinkingSignature"
<1>1. u = {i \in 1 .. 5 : Helps(c, x, seen, t, l, B!Places[i])}
  BY PlacesOfRepairs DEF B!Usable, Helps
<1>2. u = {} => \A r \in B!Repair : ~Helps(c, x, seen, t, l, r)
  BY <1>1, PlacesOfRepairs
<1>3. ASSUME u # {}
      PROVE  /\ B!Places[B!Min(u)] \in B!Repair
             /\ Helps(c, x, seen, t, l, B!Places[B!Min(u)])
             /\ Helps(c, x, seen, t, l, "ThinkingSignature") =>
                  B!Places[B!Min(u)] = "ThinkingSignature"
  <2>1. u \subseteq 1 .. 5
    BY <1>1
  <2>2. PICK i : i = B!Min(u)
    OBVIOUS
  <2>3. i \in u /\ (1 \in u => i = 1)
    BY <1>3, <2>1, <2>2, LeastOfFive
  <2>4. i \in 1 .. 5 /\ Helps(c, x, seen, t, l, B!Places[i])
    BY <1>1, <2>3
  <2>5. Helps(c, x, seen, t, l, "ThinkingSignature") => i = 1
    BY <1>1, <2>3, PlacesOfRepairs
  <2> QED BY <2>2, <2>4, <2>5, PlacesOfRepairs
<1> QED BY <1>2, <1>3

(***************************************************************************)
(* A request that is given up, with every repair switched on.              *)
(***************************************************************************)
\* What no repair is for, one by one (RepairsCompose).
NotTaken(m, d, x) == x.form = "" /\ B!Shape(B!Sent(m, x).thinking) \notin d.takes
OwnBudget(d, x, seen) ==
  /\ x.form = "" /\ x.thinking = "enabled" /\ "ThinkingBudget" \notin seen
  /\ x.budget >= B!Min({x.max, d.limit})
RaisedPast(d, seen) == "ThinkingBudget" \in seen /\ d.limit <= B!MaxThinkingBudget
ForcedWants(d, x) == x.form # "" /\ ((x.tool /\ ~x.first) \/ d.limit <= 1024)

NoRepairIsFor(m, d, x, seen) ==
  \/ d.limit < 1000 \/ NotTaken(m, d, x) \/ OwnBudget(d, x, seen) \/ RaisedPast(d, seen)
  \/ ForcedWants(d, x)

LEMMA GivenUp ==
  ASSUME NEW m \in B!Models, NEW d, DemandType(d), NEW c \in B!Configs, NEW x \in BodyType,
         NEW seen, NEW t, NEW l, Complained(m, d, x, t, l), Mended(d, x, seen),
         x.form # "unsupported", c.enabled, c.signature,
         \A r \in B!Repair : ~Helps(c, x, seen, t, l, r)
  PROVE  NoRepairIsFor(m, d, x, seen)
<1>1. SUFFICES ASSUME d.limit >= 1000 PROVE NoRepairIsFor(m, d, x, seen)
  BY DEF NoRepairIsFor, DemandType
<1>2. c.budget /\ c.media
  BY ConfigFacts
<1> PICK old \in Nat \ {0} : old = x.max
  BY BodyFacts, Zenon
<1> PICK budget \in Nat : budget = x.budget
  BY BodyFacts, Zenon
<1> PICK limit \in Nat \ {0} : limit = d.limit
  BY DEF DemandType
<1>3. old = x.max /\ budget = x.budget /\ limit = d.limit
  OBVIOUS
<1>4. PICK n : n = B!Sent(m, x).max
  OBVIOUS
<1>5. x.form \in B!Ladder \cup {""}
  BY BodyFacts, Zenon
<1>6. "" \notin B!Ladder
  BY DEF B!Ladder
<1>7. /\ t \in Texts
      /\ t = B!Foreign => x.blocks
      /\ t = B!Prefix => /\ x.tool /\ ~x.first
                         /\ x.form \notin B!Ladder => x.thinking = "enabled"
      /\ t = B!Small => x.form \notin B!Ladder /\ x.thinking = "enabled" /\ budget < 1024
      /\ t = B!Order => x.form \notin B!Ladder /\ x.thinking = "enabled" /\ budget >= old
      /\ t = B!Limit => n > limit /\ l = limit
      /\ n \in Nat /\ (n = old \/ (n = 1025 /\ old <= 1024 /\ x.form \in B!Ladder))
      /\ t = B!Unknown => B!Shape(B!Sent(m, x).thinking) \notin d.takes
      /\ t = B!Media => x.media
  BY <1>1, <1>3, <1>4, ComplaintMeans
<1>8. CASE t = B!Foreign
  <2>1. PICK y : y = B!BlocksRemoved(x)
    OBVIOUS
  <2>2. ~y.blocks
    BY <2>1, BlocksRemoved
  <2>3. B!Recognises(c, "ThinkingSignature", t, l)
    BY SMT, <1>7, <1>8, BlocksTexts DEF B!Recognises
  <2>4. B!Repaired("ThinkingSignature", x, l) = y
    BY SMT, <2>1 DEF B!Repaired
  <2>5. "ThinkingSignature" \in seen \/ y = x
    BY <2>3, <2>4 DEF Helps, B!Repair
  <2> QED BY <1>7, <1>8, <2>2, <2>5 DEF Mended
<1>9. CASE t = B!Prefix
  <2>1. CASE x.form \in B!Ladder
    <3>1. x.form # ""
      BY <1>6, <2>1, Zenon
    <3>2. ForcedWants(d, x)
      BY <1>7, <1>9, <3>1, Zenon DEF ForcedWants
    <3> QED BY <3>2 DEF NoRepairIsFor
  <2>2. CASE x.form \notin B!Ladder
    <3>1. B!Starts(x)
      BY <1>7, <1>9, <2>2 DEF B!Starts
    <3>2. PICK y : y = B!BlocksRemoved(x)
      OBVIOUS
    <3>3. y # x
      BY <1>7, <1>9, <3>1, <3>2, BlocksRemoved
    <3>4. B!Recognises(c, "ThinkingSignature", t, l)
      BY SMT, <1>7, <1>9, BlocksTexts DEF B!Recognises
    <3>5. B!Repaired("ThinkingSignature", x, l) = y
      BY SMT, <3>2 DEF B!Repaired
    <3>6. "ThinkingSignature" \in seen
      BY <3>3, <3>4, <3>5 DEF Helps, B!Repair
    <3> QED BY <3>1, <3>6 DEF Mended
  <2> QED BY <2>1, <2>2
<1>10. CASE t = B!Small
  <2>1. PICK y : y = B!BudgetRaised(x)
    OBVIOUS
  <2>2. y.budget = 32000
    BY <1>7, <1>10, <2>1, BudgetRaised
  <2>3. B!Recognises(c, "ThinkingBudget", t, l)
    BY SMT, <1>2, <1>7, <1>10, BudgetTexts DEF B!Recognises
  <2>4. B!Repaired("ThinkingBudget", x, l) = y
    BY SMT, <2>1 DEF B!Repaired
  <2>5. "ThinkingBudget" \in seen \/ y = x
    BY <2>3, <2>4 DEF Helps, B!Repair
  <2>6. "ThinkingBudget" \in seen => budget = 32000
    BY <1>3, <1>7, <1>10 DEF Mended, B!MaxThinkingBudget
  <2>7. budget < 1024
    BY <1>7, <1>10
  <2> QED BY <1>3, <2>2, <2>5, <2>6, <2>7
<1>11. CASE t = B!Order
  <2>1. x.form = "" /\ x.thinking = "enabled"
    BY <1>5, <1>7, <1>11, Zenon
  <2>2. budget >= old
    BY <1>7, <1>11
  <2>3. CASE "ThinkingBudget" \notin seen
    <3>1. PICK least : least = B!Min({old, limit})
      OBVIOUS
    <3>2. least = IF old <= limit THEN old ELSE limit
      BY <3>1, MinMax
    <3>3. budget >= least
      BY <2>2, <3>2
    <3>4. x.budget >= B!Min({x.max, d.limit})
      BY <1>3, <3>1, <3>3
    <3>5. OwnBudget(d, x, seen)
      BY <2>1, <2>3, <3>4, Zenon DEF OwnBudget
    <3> QED BY <3>5 DEF NoRepairIsFor
  <2>4. CASE "ThinkingBudget" \in seen
    <3>1. /\ x.thinking = "enabled" => x.budget = B!MaxThinkingBudget
          /\ x.max > B!MaxThinkingBudget \/ d.limit <= B!MaxThinkingBudget
      BY <2>4 DEF Mended
    <3>2. budget = 32000
      <4>1. x.budget = B!MaxThinkingBudget
        BY <2>1, <3>1, Zenon
      <4> QED BY <1>3, <4>1 DEF B!MaxThinkingBudget
    <3>3. old > 32000 \/ limit <= 32000
      BY <1>3, <3>1 DEF B!MaxThinkingBudget
    <3>4. limit <= 32000
      BY <2>2, <3>2, <3>3
    <3>5. RaisedPast(d, seen)
      BY <1>3, <2>4, <3>4 DEF RaisedPast, B!MaxThinkingBudget
    <3> QED BY <3>5 DEF NoRepairIsFor
  <2> QED BY <2>3, <2>4
<1>12. CASE t = B!Limit
  <2>1. ASSUME x.form \in B!Ladder, limit <= 1024
        PROVE  NoRepairIsFor(m, d, x, seen)
    <3>1. x.form # ""
      BY <1>6, <2>1, Zenon
    <3>2. ForcedWants(d, x)
      BY <1>3, <2>1, <3>1, Zenon DEF ForcedWants
    <3> QED BY <3>2 DEF NoRepairIsFor
  <2>2. old <= limit => x.form \in B!Ladder /\ limit <= 1024
    BY <1>7, <1>12
  <2>3. CASE "MaxTokensClamp" \in seen
    <3>1. old = limit \/ ("ThinkingBudget" \in seen /\ limit <= 32000)
      BY <1>3, <2>3 DEF Mended, B!MaxThinkingBudget
    <3>2. CASE "ThinkingBudget" \in seen /\ limit <= 32000
      <4>1. RaisedPast(d, seen)
        BY <1>3, <3>2 DEF RaisedPast, B!MaxThinkingBudget
      <4> QED BY <4>1 DEF NoRepairIsFor
    <3>3. CASE old = limit
      BY <2>1, <2>2, <3>3
    <3> QED BY <3>1, <3>2, <3>3
  <2>4. CASE "MaxTokensClamp" \notin seen
    <3>1. PICK y : y = B!MaxClamped(x, l)
      OBVIOUS
    <3>2. l = limit
      BY <1>7, <1>12
    <3>3. B!Repaired("MaxTokensClamp", x, l) = y
      BY SMT, <3>1 DEF B!Repaired
    <3>4. l # None
      BY <3>2, RepairConstants
    <3>5. B!Recognises(c, "MaxTokensClamp", t, l)
      BY SMT, <3>4 DEF B!Recognises
    <3>6. y = x
      BY <2>4, <3>3, <3>5 DEF Helps, B!Repair
    <3>7. l < x.max => y.max = l
      BY <3>1, <3>2, MaxClamped
    <3>8. ~(limit < old)
      BY <1>3, <3>2, <3>6, <3>7
    <3> QED BY <2>1, <2>2, <3>8
  <2> QED BY <2>3, <2>4
<1>13. CASE t = B!Unknown
  <2>1. CASE x.form = ""
    <3>1. NotTaken(m, d, x)
      BY <1>7, <1>13, <2>1, Zenon DEF NotTaken
    <3> QED BY <3>1 DEF NoRepairIsFor
  <2>2. CASE x.form \in B!Ladder
    <3>1. PICK y : y = FormLowered(x)
      OBVIOUS
    <3>2. y # x
      BY <2>2, <3>1, FormIsLowered
    <3>3. B!ThinkingRejected(t)
      BY <1>7, <1>13, ThinkingTexts
    <3>4. B!Recognises(c, "ThinkingForm", t, l)
      BY SMT, <3>3 DEF B!Recognises
    <3>5. x.form \notin {"", "unsupported"}
      BY <1>6, <2>2, Zenon
    <3>6. B!Repaired("ThinkingForm", x, l) = y
      <4>1. B!Repaired("ThinkingForm", x, l) =
              IF x.form \in {"", "unsupported"} THEN x ELSE FormLowered(x)
        BY SMT DEF B!Repaired, FormLowered
      <4> QED BY <3>1, <3>5, <4>1, Zenon
    <3> QED BY <3>2, <3>4, <3>6 DEF Helps, B!Repair, Mended
  <2> QED BY <1>5, <2>1, <2>2, Zenon
<1>14. CASE t = B!Media
  <2>1. PICK y : y = B!WithoutMedia(x)
    OBVIOUS
  <2>2. ~y.media
    BY <2>1, WithoutMedia
  <2>3. B!Recognises(c, "MediaFallback", t, l)
    BY SMT, <1>2, <1>7, <1>14, MediaTexts DEF B!Recognises
  <2>4. B!Repaired("MediaFallback", x, l) = y
    BY SMT, <2>1 DEF B!Repaired
  <2>5. "MediaFallback" \in seen \/ y = x
    BY <2>3, <2>4 DEF Helps, B!Repair
  <2> QED BY <1>7, <1>14, <2>2, <2>5 DEF Mended
<1> QED BY <1>7, <1>8, <1>9, <1>10, <1>11, <1>12, <1>13, <1>14 DEF Texts

(***************************************************************************)
(* The invariant of the repairs.                                           *)
(***************************************************************************)
Composed(m, d, c, x, seen, how) ==
  how = "given up" /\ c.enabled /\ c.signature => NoRepairIsFor(m, d, x, seen)

RepairTypes ==
  /\ model \in B!Models /\ config \in B!Configs /\ tried \subseteq B!Repair
  /\ at \in {"try", "accepted", "given up", "disabled"}
  /\ body \in BodyType /\ DemandType(demand)

RepairInv ==
  /\ RepairTypes
  /\ at = "disabled" <=> body.form = "unsupported"
  /\ FormsRefused(model, demand, config, body)
  /\ Mended(demand, body, tried)
  /\ Composed(model, demand, config, body, tried, at)

\* The error of a signature is for repairs of the rectifier.
LEMMA ForeignRead ==
  ASSUME NEW c, NEW r \in B!Repair, B!Recognises(c, r, B!Foreign, None)
  PROVE  c.enabled
<1>1. ~B!MediaRejected(B!Foreign)
  BY MediaTexts, TextsDiffer DEF Texts
<1>2. CASE r \in {"ThinkingSignature", "ThinkingBudget", "ThinkingForm"}
  <2>1. CASE r = "ThinkingSignature"
    BY SMT, <2>1 DEF B!Recognises
  <2>2. CASE r = "ThinkingBudget"
    BY SMT, <2>2 DEF B!Recognises
  <2>3. CASE r = "ThinkingForm"
    BY SMT, <2>3 DEF B!Recognises
  <2> QED BY <1>2, <2>1, <2>2, <2>3
<1>3. CASE r = "MaxTokensClamp"
  BY SMT, <1>3 DEF B!Recognises
<1>4. CASE r = "MediaFallback"
  BY SMT, <1>1, <1>4 DEF B!Recognises
<1> QED BY <1>2, <1>3, <1>4 DEF B!Repair

LEMMA HistoryFacts ==
  ASSUME NEW h \in B!Histories
  PROVE  h.blocks \in BOOLEAN /\ h.first \in BOOLEAN /\ h.tool \in BOOLEAN
<1>1. \/ h = [blocks |-> FALSE, first |-> FALSE, tool |-> FALSE]
      \/ h = [blocks |-> TRUE, first |-> TRUE, tool |-> TRUE]
      \/ h = [blocks |-> TRUE, first |-> FALSE, tool |-> TRUE]
      \/ h = [blocks |-> FALSE, first |-> FALSE, tool |-> TRUE]
  BY DEF B!Histories
<1>2. CASE h = [blocks |-> FALSE, first |-> FALSE, tool |-> FALSE]
  BY <1>2
<1>3. CASE h = [blocks |-> TRUE, first |-> TRUE, tool |-> TRUE]
  BY <1>3
<1>4. CASE h = [blocks |-> TRUE, first |-> FALSE, tool |-> TRUE]
  BY <1>4
<1>5. CASE h = [blocks |-> FALSE, first |-> FALSE, tool |-> TRUE]
  BY <1>5
<1> QED BY <1>1, <1>2, <1>3, <1>4, <1>5

LEMMA ThinkingFacts ==
  ASSUME NEW t \in B!Thinkings
  PROVE  t[1] \in {"none", "disabled", "adaptive", "enabled"} /\ t[2] \in Nat
<1>1. CASE t \in {<<"none", 0>>, <<"disabled", 0>>, <<"adaptive", 0>>}
  BY <1>1
<1>2. CASE t \in {<<"enabled", n>> : n \in BudgetsOf}
  BY <1>2, RepairConstants
<1> QED BY <1>1, <1>2 DEF B!Thinkings

LEMMA RepairStarts == B!Init => RepairInv
<1> SUFFICES ASSUME B!Init
             PROVE  RepairInv
  OBVIOUS
<1>1. model \in B!Models /\ config \in B!Configs /\ tried = {} /\ at = "try"
  BY Zenon DEF B!Init
<1>2. PICK max \in MaxTokensOf, t \in B!Thinkings, e \in {None, "low", "max"},
           h \in B!Histories, media \in BOOLEAN, form \in {"", "max", "alt"} :
        /\ h.blocks \/ h.tool => model.protocol = "anthropic" /\ ~media
        /\ form # "" => t[1] # "disabled" /\ t[1] # "adaptive" /\ e = None
        /\ e # None => model.protocol \in {"chat", "responses"} /\ form = ""
        /\ body = B!Body(max, t, e, h, media, form)
  BY Zenon DEF B!Init
<1>3. body = [max |-> max, thinking |-> t[1], budget |-> t[2], effort |-> e,
              blocks |-> h.blocks, first |-> h.first, tool |-> h.tool, media |-> media,
              form |-> form]
  BY <1>2, Zenon DEF B!Body
<1>4. max \in Nat \ {0} /\ form \in B!Ladder \cup {"", "unsupported"}
  BY RepairConstants, Zenon DEF B!Ladder
<1>5. body \in BodyType /\ body.form = form
  BY <1>3, <1>4, HistoryFacts, ThinkingFacts, Zenon DEF BodyType
<1>6. PICK limit \in Limits, foreign \in BOOLEAN, noMedia \in BOOLEAN,
           takes \in SUBSET B!Shapes(model, body) :
        /\ foreign => body.blocks
        /\ noMedia => body.media
        /\ body.form = "" => takes = {}
        /\ demand = [limit |-> limit, foreign |-> foreign, noMedia |-> noMedia,
                     takes |-> takes \cup (IF body.form = "" THEN B!Accepted(model, body)
                                           ELSE {<<>>})]
  BY Zenon DEF B!Init
<1>7. DemandType(demand)
  BY <1>6, RepairConstants, Zenon DEF DemandType
<1>8. RepairTypes
  BY <1>1, <1>5, <1>7, Zenon DEF RepairTypes
<1>9. body.form \notin {"legacy", "unsupported"}
  BY <1>5, Zenon
<1>10. FormsRefused(model, demand, config, body)
  BY <1>9, Zenon DEF FormsRefused
<1>11. Mended(demand, body, tried)
  BY <1>1, Zenon DEF Mended
<1>12. Composed(model, demand, config, body, tried, at)
  BY <1>1, Zenon DEF Composed
<1> QED BY <1>1, <1>8, <1>9, <1>10, <1>11, <1>12, Zenon DEF RepairInv

\* What a step has to keep.
LEMMA RepairKept ==
  ASSUME RepairInv, UNCHANGED <<model, demand, config>>, NEW x, NEW seen, NEW how,
         body' = x, tried' = seen, at' = how,
         x \in BodyType, seen \subseteq B!Repair,
         how \in {"try", "accepted", "given up", "disabled"},
         how = "disabled" <=> x.form = "unsupported",
         FormsRefused(model, demand, config, x), Mended(demand, x, seen),
         Composed(model, demand, config, x, seen, how)
  PROVE  RepairInv'
<1>1. RepairTypes'
  BY Zenon DEF RepairInv, RepairTypes
<1>2. (at = "disabled" <=> body.form = "unsupported")'
  BY Zenon
<1>3. FormsRefused(model', demand', config', body')
  BY Zenon
<1>4. Mended(demand', body', tried')
  BY Zenon
<1>5. Composed(model', demand', config', body', tried', at')
  BY Zenon
<1> QED BY <1>1, <1>2, <1>3, <1>4, <1>5, Zenon DEF RepairInv

LEMMA AnswerKeeps == RepairInv /\ B!Answer => RepairInv'
<1> SUFFICES ASSUME RepairInv, B!Answer
             PROVE  RepairInv'
  OBVIOUS
<1>1. at = "try" /\ at' = "accepted" /\ UNCHANGED <<model, demand, config, body, tried>>
  BY DEF B!Answer
<1>2. /\ body \in BodyType /\ tried \subseteq B!Repair /\ body.form # "unsupported"
      /\ FormsRefused(model, demand, config, body) /\ Mended(demand, body, tried)
  BY <1>1 DEF RepairInv, RepairTypes
<1>3. Composed(model, demand, config, body, tried, "accepted")
  BY DEF Composed
<1> QED BY <1>1, <1>2, <1>3, RepairKept, Zenon

LEMMA ComplainKeeps == RepairInv /\ B!Complain => RepairInv'
<1> SUFFICES ASSUME RepairInv, B!Complain
             PROVE  RepairInv'
  OBVIOUS
<1>1. at = "try" /\ UNCHANGED <<model, demand, config>>
  BY Zenon DEF B!Complain
<1>2. PICK t \in B!Complaints :
        LET limit == B!LimitIn(t, B!Numbers(t))
            usable == B!Usable(config, body, tried, t, limit)
        IN  IF usable = {} THEN at' = "given up" /\ UNCHANGED <<body, tried>>
            ELSE B!Mend(B!Places[B!Min(usable)], limit)
  BY Zenon DEF B!Complain
<1>3. PICK l : l = B!LimitIn(t, B!Numbers(t))
  OBVIOUS
<1>4. PICK u : u = B!Usable(config, body, tried, t, l)
  OBVIOUS
<1>5. IF u = {} THEN at' = "given up" /\ UNCHANGED <<body, tried>>
      ELSE B!Mend(B!Places[B!Min(u)], l)
  BY <1>2, <1>3, <1>4, Zenon
<1>6. Complained(model, demand, body, t, l)
  BY <1>2, <1>3, Zenon DEF Complained, B!Complaints, B!Numbers
<1>7. /\ model \in B!Models /\ DemandType(demand) /\ config \in B!Configs /\ body \in BodyType
      /\ tried \subseteq B!Repair /\ body.form # "unsupported"
      /\ FormsRefused(model, demand, config, body) /\ Mended(demand, body, tried)
  BY <1>1 DEF RepairInv, RepairTypes
<1>8. CASE u = {}
  <2>1. at' = "given up" /\ body' = body /\ tried' = tried
    BY <1>5, <1>8, Zenon
  <2>2. \A r \in B!Repair : ~Helps(config, body, tried, t, l, r)
    BY <1>4, <1>8, FirstUsable
  <2>3. Composed(model, demand, config, body, tried, "given up")
    <3>1. SUFFICES ASSUME config.enabled, config.signature
                   PROVE  NoRepairIsFor(model, demand, body, tried)
      BY DEF Composed
    <3> QED BY <1>6, <1>7, <2>2, <3>1, GivenUp
  <2> QED BY <1>1, <1>7, <2>1, <2>3, RepairKept, Zenon
<1>9. CASE u # {}
  <2>1. PICK r : r = B!Places[B!Min(u)]
    OBVIOUS
  <2>2. /\ r \in B!Repair /\ Helps(config, body, tried, t, l, r)
        /\ Helps(config, body, tried, t, l, "ThinkingSignature") => r = "ThinkingSignature"
    BY <1>4, <1>9, <2>1, FirstUsable
  <2>3. B!Mend(r, l)
    BY <1>5, <1>9, <2>1, Zenon
  <2>4. PICK y : y = B!Repaired(r, body, l)
    OBVIOUS
  <2>5. PICK seen : seen = IF r = "ThinkingForm" THEN tried ELSE tried \cup {r}
    OBVIOUS
  <2>6. PICK how : how = IF y.form = "unsupported" THEN "disabled" ELSE "try"
    OBVIOUS
  <2>7. body' = y /\ tried' = seen /\ at' = how
    BY <2>3, <2>4, <2>5, <2>6 DEF B!Mend
  <2>8. ASSUME t = B!Foreign, config.signature
        PROVE  r = "ThinkingSignature"
    <3>1. body.blocks
      BY <1>6, <1>7, <2>8, ComplaintMeans
    <3>2. "ThinkingSignature" \notin tried
      BY <1>7, <3>1 DEF Mended
    <3>3. PICK z : z = B!BlocksRemoved(body)
      OBVIOUS
    <3>4. z # body
      BY <1>7, <3>1, <3>3, BlocksRemoved
    <3>5. B!Repaired("ThinkingSignature", body, l) = z
      BY SMT, <3>3 DEF B!Repaired
    <3>6. config.enabled
      <4>1. l = None
        BY <1>6, <1>7, <2>8, ComplaintMeans, TextsDiffer
      <4> QED BY <2>2, <2>8, <4>1, ForeignRead DEF Helps
    <3>7. B!Recognises(config, "ThinkingSignature", t, l)
      BY SMT, <2>8, <3>6, BlocksTexts DEF B!Recognises, Texts
    <3> QED BY <2>2, <3>2, <3>4, <3>5, <3>7 DEF Helps
  <2>9. Mending(model, demand, config, body, tried, t, l, r, y)
    BY <1>6, <1>7, <2>2, <2>4, <2>8 DEF Mending, Helps
  <2>10. MendKeeps(model, demand, config, tried, r, y)
    BY <2>2, <2>9, EveryRepairMends
  <2>11. /\ y \in BodyType /\ FormsRefused(model, demand, config, y)
         /\ Mended(demand, y, seen)
    BY <2>5, <2>10 DEF MendKeeps
  <2>12. seen \subseteq B!Repair
    BY <1>7, <2>2, <2>5
  <2>13. /\ how \in {"try", "accepted", "given up", "disabled"}
         /\ how = "disabled" <=> y.form = "unsupported"
    BY <2>6
  <2>14. Composed(model, demand, config, y, seen, how)
    BY <2>6, Zenon DEF Composed
  <2> QED BY <1>1, <2>7, <2>11, <2>12, <2>13, <2>14, RepairKept, Zenon
<1> QED BY <1>8, <1>9

LEMMA RepairsStep == RepairInv /\ B!Next => RepairInv'
BY AnswerKeeps, ComplainKeeps DEF B!Next

(***************************************************************************)
(* The theorems.  The invariant holds in the behaviours of the built-in    *)
(* repairs; in the others these repairs are at rest.                       *)
(***************************************************************************)
AttemptInv ==
  /\ part \in {"loop", "built in", "patch"}
  /\ part = "built in" => RepairInv
  /\ part # "built in" => NoRepairs

\* The repairs of builtin.rs keep what they are for, whatever the upstream complains of:
\* none undoes another, and the form of the thinking is left only when it is refused.
THEOREM RepairsKeepTheirWork == RepairSpec => []AttemptInv
<1>1. RepairInit => AttemptInv
  <2> SUFFICES ASSUME RepairInit
               PROVE  AttemptInv
    OBVIOUS
  <2>1. CASE part = "loop" /\ NoRepairs
    BY <2>1 DEF AttemptInv
  <2>2. CASE part = "built in" /\ B!Init
    BY <2>2, RepairStarts, Zenon DEF AttemptInv
  <2>3. CASE part = "patch" /\ NoRepairs
    BY <2>3 DEF AttemptInv
  <2> QED BY <2>1, <2>2, <2>3, Zenon DEF RepairInit
<1>2. AttemptInv /\ [RepairNext]_<<part, vars, ofRepairs, ofPatches>> => AttemptInv'
  <2> SUFFICES ASSUME AttemptInv, [RepairNext]_<<part, vars, ofRepairs, ofPatches>>
               PROVE  AttemptInv'
    OBVIOUS
  <2>1. ASSUME UNCHANGED <<part, ofRepairs>> PROVE AttemptInv'
    <3>1. part' = part /\ UNCHANGED <<model, demand, config, body, tried, at>>
      BY <2>1 DEF ofRepairs
    <3>2. NoRepairs => NoRepairs'
      BY <3>1 DEF NoRepairs
    <3>3. ASSUME RepairInv PROVE RepairInv'
      <4>1. /\ body \in BodyType /\ tried \subseteq B!Repair
            /\ at \in {"try", "accepted", "given up", "disabled"}
            /\ at = "disabled" <=> body.form = "unsupported"
            /\ FormsRefused(model, demand, config, body) /\ Mended(demand, body, tried)
            /\ Composed(model, demand, config, body, tried, at)
        BY <3>3, Zenon DEF RepairInv, RepairTypes
      <4> QED BY <3>1, <3>3, <4>1, RepairKept, Zenon
    <3> QED BY <3>1, <3>2, <3>3, Zenon DEF AttemptInv
  <2>2. CASE part = "built in" /\ B!Next /\ UNCHANGED part
    <3>1. RepairInv'
      BY <2>2, RepairsStep, Zenon DEF AttemptInv
    <3> QED BY <2>2, <3>1, Zenon DEF AttemptInv
  <2> QED BY <2>1, <2>2, Zenon DEF RepairNext
<1> QED BY <1>1, <1>2, PTL DEF RepairSpec

LEMMA WhatFits ==
  ASSUME RepairInv
  PROVE  B!TypeOK /\ B!SentBudgetFits /\ B!DisabledOnlyIfNoFormFits
<1>1. /\ model \in B!Models /\ config \in B!Configs /\ tried \subseteq B!Repair
      /\ at \in {"try", "accepted", "given up", "disabled"}
      /\ body \in BodyType
  BY Zenon DEF RepairInv, RepairTypes
<1>2. B!TypeOK
  BY <1>1, BodyFacts, Zenon DEF B!TypeOK
<1>3. B!SentBudgetFits
  <2>1. PICK s : s = B!Sent(model, body)
    OBVIOUS
  <2>2. PICK x \in BodyType, m \in B!Models : x = body /\ m = model
    BY <1>1, Zenon
  <2>3. ASSUME x.form \in B!Ladder, s.thinking.kind \in {"enabled", "thinkingBudget"}
        PROVE  /\ s.thinking.value >= 1024
               /\ s.max > 1024 => s.thinking.value < s.max
               /\ m.protocol = "anthropic" => s.thinking.value < s.max
    <3>1. s = B!Sent(m, x)
      BY <2>1, <2>2
    <3> QED BY <2>3, <3>1, AllSend
  <2> QED BY <2>1, <2>2, <2>3 DEF B!SentBudgetFits
<1>4. B!DisabledOnlyIfNoFormFits
  <2>1. SUFFICES ASSUME at = "disabled", ~(demand.foreign /\ ~config.signature),
                        NEW f \in {"alt", "legacy"}
                 PROVE  B!Shape(B!Sent(model, [body EXCEPT !.form = f]).thinking)
                          \notin demand.takes
    BY DEF B!DisabledOnlyIfNoFormFits
  <2>2. FormShape(model, f) \notin demand.takes
    BY <2>1 DEF RepairInv, FormsRefused
  <2>3. PICK y : y = [body EXCEPT !.form = f]
    OBVIOUS
  <2>4. y.form = f
    BY <1>1, <2>3, Zenon DEF BodyType
  <2>5. y.form \in B!Ladder
    BY <2>4 DEF B!Ladder
  <2>6. B!Shape(B!Sent(model, y).thinking) = FormShape(model, f)
    BY <1>1, <2>4, <2>5, ShapeByForm, Zenon
  <2> QED BY <2>2, <2>3, <2>6
<1> QED BY <1>2, <1>3, <1>4

\* thinking_policy.rs: the budget that the gateway asks for on its own is one that the
\* upstream can grant, for every max_tokens; and an entry is disabled only when its
\* upstream refused every form of the ladder, for all that the repairs did to the body.
THEOREM ThinkingAlwaysFits == RepairSpec => []ThinkingFits
<1>1. AttemptInv => ThinkingFits
  BY WhatFits, Zenon DEF AttemptInv, ThinkingFits
<1> QED BY <1>1, RepairsKeepTheirWork, PTL

\* builtin.rs: the order of the upstream's complaints does not decide whether a request
\* is given up.
THEOREM RepairsDoCompose == RepairSpec => []RepairsCompose
<1>1. AttemptInv => RepairsCompose
  <2> SUFFICES ASSUME AttemptInv, part = "built in", at = "given up",
                      config.enabled, config.signature
               PROVE  \/ demand.limit < 1000
                      \/ NotTaken(model, demand, body) \/ OwnBudget(demand, body, tried)
                      \/ RaisedPast(demand, tried) \/ ForcedWants(demand, body)
    BY Zenon DEF RepairsCompose, B!RepairsCompose, NotTaken, OwnBudget, RaisedPast, ForcedWants
  <2> QED BY Zenon DEF AttemptInv, RepairInv, Composed, NoRepairIsFor
<1> QED BY <1>1, RepairsKeepTheirWork, PTL
================================================================================
