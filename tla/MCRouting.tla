------------------------------- MODULE MCRouting -------------------------------
(***************************************************************************)
(* What the routing of a request goes by: the cooldowns, the sessions, and *)
(* the plan that select.rs makes of them.  The three share no state in the *)
(* modules (Select is given what it reads), so a behaviour is of one part: *)
(* variables that bear the same name in two modules serve whichever part   *)
(* it is, and those of the other parts stay Unused.                        *)
(***************************************************************************)
EXTENDS Integers, Sequences, TLC

CONSTANTS
  a, b, c,
  Key, Model, Every, Worker, Clearer, Deletable, Nobody, Hint, BackoffBase,
  BackoffMax, QueueCap, MaxNow, MaxHits,
  Session, Target, None, Interval, Ttl, SessionsMaxNow,
  Candidate, Pools, Attributes, Hash,
  Unused

VARIABLES
  part,
  now, rows, queue, worker, excused,
  keys, mem, holder, clearer,
  map, pruner, written,
  pool, attr, down, sticky, asked, answer

C == INSTANCE Cooldown
S == INSTANCE Sessions WITH MaxNow <- SessionsMaxNow
L == INSTANCE Select

ASSUME RoutingAssumption ==
  C!CooldownAssumption /\ S!SessionsAssumption /\ L!SelectAssumption

-----------------------------------------------------------------------------
(* Select is given three candidates, two of which collide in the hash.  They *)
(* differ in tier, in the match of their name and, one thing at a time, in  *)
(* what they cannot take.                                                   *)

ThreeOrNone == {<<>>, <<a, b, c>>}
HashABC == a :> 2 @@ b :> 1 @@ c :> 1

Able3(v, p, f) == [vision |-> v, pdf |-> p, fits |-> f]
Abilities == {Able3(TRUE, TRUE, TRUE), Able3(FALSE, TRUE, TRUE),
              Able3(TRUE, FALSE, TRUE), Able3(TRUE, TRUE, FALSE)}
Ranked ==
  {[tier |-> t, score |-> 0] @@ x : t \in 1..2, x \in Abilities}
    \cup {[tier |-> t, score |-> 2] @@ Able3(TRUE, TRUE, TRUE) : t \in 1..2}

-----------------------------------------------------------------------------
ofCooldown == <<keys, mem, holder, clearer>>
ofSessions == <<map, pruner, written>>
ofSelect == <<pool, attr, down, sticky, asked, answer>>
ofBoth == <<now, rows, queue, worker, excused>>

NoCooldown == keys = Unused /\ mem = Unused /\ holder = Unused /\ clearer = Unused
NoSessions == map = Unused /\ pruner = Unused /\ written = Unused
NoSelect == /\ pool = Unused /\ attr = Unused /\ down = Unused /\ sticky = Unused
            /\ asked = Unused /\ answer = Unused
NoStore == now = Unused /\ rows = Unused /\ queue = Unused /\ worker = Unused /\ excused = Unused

RoutingInit ==
  \/ part = "cooldown" /\ C!Init /\ NoSessions /\ NoSelect
  \/ part = "sessions" /\ S!Init /\ NoCooldown /\ NoSelect
  \/ part = "select" /\ L!Init /\ NoCooldown /\ NoSessions /\ NoStore

RoutingNext ==
  \/ part = "cooldown" /\ C!Next /\ UNCHANGED <<part, ofSessions, ofSelect>>
  \/ part = "sessions" /\ S!Next /\ UNCHANGED <<part, ofCooldown, ofSelect>>
  \/ part = "select" /\ L!Next /\ UNCHANGED <<part, ofCooldown, ofSessions, ofBoth>>

RoutingSpec ==
  RoutingInit /\ [][RoutingNext]_<<part, ofCooldown, ofSessions, ofBoth, ofSelect>>

Symmetry == Permutations(Worker)

TypeOK ==
  \/ part = "cooldown" /\ C!TypeOK /\ NoSessions /\ NoSelect
  \/ part = "sessions" /\ S!TypeOK /\ NoCooldown /\ NoSelect
  \/ part = "select" /\ NoCooldown /\ NoSessions /\ NoStore

\* What a restart will find in the tables is what the maps hold, outside the races
\* that Cooldown and Sessions name: a cooldown is written and stays, one that was
\* cleared does not come back, none outlives its key, and a session keeps its binding.
TablesFollowMaps ==
  /\ part = "cooldown" => C!CoolingIsDurable /\ C!NothingComesBack /\ C!RowsHaveKeys
  /\ part = "sessions" => S!BindingIsDurable

\* Whoever waits for the queue with the mutex of the cooldowns in hand is let go on.
HolderGoesOn == part = "cooldown" => C!HolderGoesOn

\* A plan loses and doubles no candidate, the loop tries first what the rules of
\* select.rs prefer, and a plan is degraded when its best tier is down (Select).
PlanFollowsTheRules ==
  part = "select" =>
    /\ L!TypeOK
    /\ L!PlanIsAPermutation /\ L!LoopFollowsTheRules /\ L!DegradesOnlyWhenDown
===============================================================================
