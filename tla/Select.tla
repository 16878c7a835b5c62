--------------------------------- MODULE Select ---------------------------------
(***************************************************************************)
(* router/select.rs: plan(), which turns the pool into the ordered list of *)
(* candidates a request tries, by what they can do, by tier, by health, by *)
(* the session's binding, and by the model the request names.              *)
(*                                                                         *)
(* plan() is pure but for its reads of cooldowns, breakers and sessions,   *)
(* each under its own mutex: what it read is the set `down` and `sticky`,  *)
(* which the other components change between requests.                     *)
(***************************************************************************)
EXTENDS Integers, Sequences, FiniteSets, SequencesExt

CONSTANTS
  Candidate,  \* entry x key
  Pools,      \* the sequences of candidates that Pool::candidates() may give
  Attributes, \* what a candidate may be: see Attribute
  Hash,       \* stable_hash of the session with a candidate
  Nobody      \* the session is bound to no candidate

\* tier, and what the entry can take: images, documents, the request's length.
\* score is model_match_score with the name of the request: 0 for the same
\* name, 1 for the same family, 2 for neither.
Attribute ==
  [tier: Nat, vision: BOOLEAN, pdf: BOOLEAN, fits: BOOLEAN, score: 0..2]

SelectAssumption ==
  /\ Pools \subseteq Seq(Candidate) /\ \A p \in Pools : IsInjective(p)
  /\ Attributes \subseteq Attribute
  /\ Hash \in [Candidate -> Nat]
  /\ Nobody \notin Candidate

VARIABLES
  pool,    \* Pool::candidates()
  attr,    \* the attributes of the candidates, for the request
  down,    \* the candidates that are cooling or whose breaker is not available
  sticky,  \* Sessions::get
  asked,   \* the request: RequestNeeds, and whether it names a model
  answer   \* a Plan, or a SelectError

vars == <<pool, attr, down, sticky, asked, answer>>

Request == [vision: BOOLEAN, pdf: BOOLEAN, named: BOOLEAN]
NoRequest == [vision |-> FALSE, pdf |-> FALSE, named |-> FALSE]
Failure(why) == [error |-> why, candidates |-> <<>>, tier |-> 0, degraded |-> FALSE]
NoAnswer == Failure("none")

Errors == {"none", "ok", "NoEntries", "document", "image", "TooLong", "AllUnavailable"}

TypeOK ==
  /\ pool \in Pools
  /\ attr \in [Candidate -> Attributes]
  /\ down \subseteq Candidate
  /\ sticky \in Candidate \cup {Nobody}
  /\ asked \in Request
  /\ answer.error \in Errors /\ answer.candidates \in Seq(Candidate)
  /\ answer.error = "ok" <=> answer.candidates # <<>>

Init ==
  /\ pool \in Pools
  /\ attr \in [Candidate -> Attributes]
  /\ down = {} /\ sticky = Nobody /\ asked = NoRequest /\ answer = NoAnswer

-------------------------------------------------------------------------------
StableSort_Reversed(s, key) ==
  LET Before(i, j) == key[s[i]] > key[s[j]] \/ (key[s[i]] = key[s[j]] /\ i < j)
      order == SetToSortSeq(DOMAIN s, Before)
  IN  [i \in DOMAIN s |-> s[order[i]]]
\* sort_by_key: a stable sort.
StableSort(s, key) ==
  LET Before(i, j) == key[s[i]] < key[s[j]] \/ (key[s[i]] = key[s[j]] /\ i < j)
      order == SetToSortSeq(DOMAIN s, Before)
  IN  [i \in DOMAIN s |-> s[order[i]]]

\* Why a candidate is passed over, in the order of the checks.
Skip(c, q) ==
  IF q.vision /\ ~attr[c].vision THEN "image"
  ELSE IF q.pdf /\ ~attr[c].pdf THEN "document"
  ELSE IF ~attr[c].fits THEN "TooLong"
  ELSE "no"

Eligible(q) == SelectSeq(pool, LAMBDA c : Skip(c, q) = "no")
Skipped(q) == {Skip(c, q) : c \in ToSet(pool)}

\* The binding comes first, the others by hash.
Rank == [c \in Candidate |-> IF c = sticky THEN 0 ELSE 1 + Hash[c]]

Tier_AvailableOnly(s, t) ==
  StableSort(SelectSeq(s, LAMBDA c : attr[c].tier = t /\ c \notin down), Rank)
\* The candidates of a tier: the available ones, ranked, then the others.
Tier(s, t) ==
  LET here == SelectSeq(s, LAMBDA c : attr[c].tier = t)
  IN  StableSort(SelectSeq(here, LAMBDA c : c \notin down), Rank)
        \o SelectSeq(here, LAMBDA c : c \in down)

Tiers(s) == SetToSortSeq({attr[c].tier : c \in ToSet(s)}, <)

\* The first tier with an available candidate, if there is one.
Chosen(s) == {attr[c].tier : c \in ToSet(s) \ down}
Least(ts) == CHOOSE t \in ts : \A u \in ts : t <= u

Ordered_ChosenOnly(s) ==
  IF Chosen(s) = {} THEN <<>> ELSE Tier(s, Least(Chosen(s)))
Ordered_ByTier(s) == FlattenSeq([i \in DOMAIN Tiers(s) |-> Tier(s, Tiers(s)[i])])
Ordered(s) ==
  LET first == IF Chosen(s) = {} THEN <<>> ELSE <<Least(Chosen(s))>>
      tiers == first \o SelectSeq(Tiers(s), LAMBDA t : t \notin ToSet(first))
  IN  FlattenSeq([i \in DOMAIN tiers |-> Tier(s, tiers[i])])

Score == [c \in Candidate |-> attr[c].score]

PlanOf(s, q) ==
  LET lowest == Least({attr[c].tier : c \in ToSet(s)})
      tier   == IF Chosen(s) = {} THEN lowest ELSE Least(Chosen(s))
  IN  [error      |-> "ok",
       candidates |-> IF q.named THEN StableSort(Ordered(s), Score) ELSE Ordered(s),
       tier       |-> tier,
       degraded   |-> tier > lowest]

\* The error of a request that no candidate can take.  The code's last check,
\* for an empty order, is never reached: eligible candidates are all ordered.
ErrorOf(q) ==
  IF "document" \in Skipped(q) THEN "document"
  ELSE IF "image" \in Skipped(q) THEN "image"
  ELSE IF "TooLong" \in Skipped(q) THEN "TooLong"
  ELSE "NoEntries"

\* plan()
Plan(q) ==
  /\ asked' = q
  /\ answer' = IF Eligible(q) = <<>> THEN Failure(ErrorOf(q)) ELSE PlanOf(Eligible(q), q)
  /\ UNCHANGED <<pool, attr, down, sticky>>

\* Meanwhile, the other components.
Forget == asked' = NoRequest /\ answer' = NoAnswer
Health(ds) == answer # NoAnswer /\ down' = ds /\ Forget /\ UNCHANGED <<pool, attr, sticky>>
Bind(c) ==
  /\ c \in ToSet(answer.candidates)
  /\ sticky' = c /\ Forget /\ UNCHANGED <<pool, attr, down>>

Next ==
  \/ answer = NoAnswer /\ \E q \in Request : Plan(q)
  \/ \E ds \in SUBSET Candidate : Health(ds)
  \/ \E c \in Candidate : Bind(c)

Spec == Init /\ [][Next]_vars
-------------------------------------------------------------------------------
Planned == answer.error = "ok"
Able(c) == Skip(c, asked) = "no"

\* No candidate is lost, doubled or let through without the capability: the
\* grouping by tier and health and the two sorts only rearrange.
PlanIsAPermutation ==
  Planned => /\ IsInjective(answer.candidates)
             /\ ToSet(answer.candidates) = {c \in ToSet(pool) : Able(c)}

\* The candidates that the loop will really try, in its order.
Live == SelectSeq(answer.candidates, LAMBDA c : c \notin down)

\* select.rs:6-12: what is tried first is what the rules prefer: a better match
\* of the named model, else a lower tier, else the session's binding; the other
\* candidates of the first tier follow by hash.
LoopFollowsTheRules ==
  Planned => \A i, j \in DOMAIN Live : i < j =>
    LET x == Live[i]  y == Live[j] IN
    \/ asked.named /\ attr[x].score < attr[y].score
    \/ /\ asked.named => attr[x].score = attr[y].score
       /\ \/ attr[x].tier < attr[y].tier
          \/ attr[x].tier = attr[y].tier /\ Rank[x] <= Rank[y]

\* select.rs:6: a degraded plan is one whose best tier has nothing available,
\* and it starts there unless it names a model.
DegradesOnlyWhenDown ==
  Planned =>
    LET able == {c \in ToSet(pool) : Able(c)}
        best == Least({attr[c].tier : c \in able}) IN
    /\ answer.degraded <=> (able \ down # {} /\ \A c \in able \ down : attr[c].tier > best)
    /\ (able \ down # {} /\ ~asked.named) => /\ answer.candidates[1] \notin down
                                             /\ attr[answer.candidates[1]].tier = answer.tier

\* What the comments promise, and the code does not keep.
\*
\* select.rs:42: NoCapability means that not one entry supports what the
\* request holds.
NoCapabilityMeansNone ==
  /\ answer.error = "document" => \A c \in ToSet(pool) : ~attr[c].pdf
  /\ answer.error = "image" => \A c \in ToSet(pool) : ~attr[c].vision

\* select.rs:44: AllUnavailable is the answer when the entries that fit are
\* all cooling or broken.
AllUnavailableIsTold ==
  (Planned /\ \A c \in ToSet(pool) : Able(c) => c \in down) => answer.error = "AllUnavailable"
===============================================================================
