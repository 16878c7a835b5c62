---------------------------- MODULE MCRouting_proofs ----------------------------
(***************************************************************************)
(* Proofs about what the routing of a request goes by, for every set of    *)
(* keys, models, sessions and requests in flight and every queue: that the *)
(* tables of the cooldowns and of the sessions follow their maps outside   *)
(* the races that Cooldown and Sessions name.                              *)
(***************************************************************************)
EXTENDS MCRouting, WellFoundedInduction, TLAPS

\* A step is one of the part it belongs to, and leaves the state of the others alone.
LEMMA PartSteps ==
  ASSUME [RoutingNext]_<<part, ofCooldown, ofSessions, ofBoth, ofSelect>>
  PROVE  /\ part' = part
         /\ (part = "cooldown" /\ C!Next) \/ UNCHANGED ofCooldown
         /\ (part = "sessions" /\ S!Next) \/ UNCHANGED ofSessions
         /\ (part = "cooldown" /\ C!Next) \/ (part = "sessions" /\ S!Next) \/ UNCHANGED ofBoth
         /\ (part = "select" /\ L!Next) \/ UNCHANGED ofSelect
BY Zenon DEF RoutingNext

\* Among the places of a sequence that satisfy a condition there is a last one.
LEMMA LastExists ==
  ASSUME NEW n \in Nat, NEW X, X \subseteq 1..n, X # {}
  PROVE  \E m \in X : \A y \in X : y <= m
<1> DEFINE Y == {n - y : y \in X}
<1>1. Y \subseteq Nat /\ Y # {}
  <2>1. \A y \in X : n - y \in Nat
    OBVIOUS
  <2> QED BY <2>1
<1>2. PICK x \in Y : \A y \in Y : ~(<<y, x>> \in OpToRel(<, Nat))
  <2> HIDE DEF Y
  <2> QED BY <1>1, NatLessThanWellFounded, WFMin, Zenon
<1>3. PICK m \in X : x = n - m
  BY <1>2, Zenon
<1>4. ASSUME NEW y \in X, y > m
      PROVE  FALSE
  <2>1. n - y \in Y /\ n - y \in Nat /\ x \in Nat /\ n - y < x
    BY <1>1, <1>3, <1>4
  <2>2. <<n - y, x>> \in OpToRel(<, Nat)
    BY <2>1 DEF OpToRel
  <2> QED BY <1>2, <2>1, <2>2, Zenon
<1>5. \A y \in X : y \in Nat /\ m \in Nat
  OBVIOUS
<1> QED BY <1>3, <1>4, <1>5

(***************************************************************************)
(* Cooldown: the writes of a queue that concern a pair.                    *)
(***************************************************************************)
LEMMA CooldownConstants ==
  /\ Key # {} /\ Model # {} /\ Every \notin Key /\ Every \notin Model
  /\ Nobody \notin Worker /\ Deletable \subseteq Key
  /\ Hint \subseteq Nat \ {0}
  /\ BackoffBase \in Nat \ {0} /\ BackoffMax \in Nat \ {0}
  /\ QueueCap \in Nat \ {0}
  /\ MaxNow \in Nat /\ MaxHits \in Nat
BY RoutingAssumption DEF C!CooldownAssumption

\* What is written for one pair concerns that pair only.
LEMMA PairsCoverThemselves ==
  ASSUME NEW p \in C!Pair, NEW q \in C!Pair
  PROVE  C!Covers(p, q) <=> p = q
BY CooldownConstants DEF C!Pair, C!Covers

LEMMA LatestIsOne ==
  ASSUME NEW s \in Seq(C!Write), NEW p,
         NEW i \in C!Latest(s, p), NEW j \in C!Latest(s, p)
  PROVE  i = j
BY DEF C!Latest

LEMMA LatestExists ==
  ASSUME NEW s \in Seq(C!Write), NEW p, NEW i \in DOMAIN s, C!Covers(s[i].on, p)
  PROVE  C!Latest(s, p) # {}
<1> DEFINE X == {j \in DOMAIN s : C!Covers(s[j].on, p)}
<1>1. X \subseteq 1..Len(s) /\ X # {} /\ Len(s) \in Nat
  OBVIOUS
<1>2. PICK m \in X : \A y \in X : y <= m
  <2> HIDE DEF X
  <2> QED BY <1>1, LastExists
<1>3. m \in C!Latest(s, p)
  BY <1>2 DEF C!Latest
<1> QED BY <1>3

\* The last write is the one that counts.
LEMMA AfterLatest ==
  ASSUME NEW s \in Seq(C!Write), NEW p, NEW old, NEW i \in C!Latest(s, p)
  PROVE  C!After(s, p, old) = s[i].until
<1>1. C!Latest(s, p) # {} /\ (CHOOSE j \in C!Latest(s, p) : TRUE) \in C!Latest(s, p)
  OBVIOUS
<1>2. (CHOOSE j \in C!Latest(s, p) : TRUE) = i
  BY <1>1, LatestIsOne
<1> QED BY <1>1, <1>2 DEF C!After

LEMMA AfterIsNat ==
  ASSUME NEW s \in Seq(C!Write), NEW p, NEW old \in Nat
  PROVE  C!After(s, p, old) \in Nat
<1>1. CASE C!Latest(s, p) = {}
  BY <1>1 DEF C!After
<1>2. ASSUME NEW i \in C!Latest(s, p)
      PROVE  C!After(s, p, old) \in Nat
  <2>1. C!After(s, p, old) = s[i].until
    BY AfterLatest
  <2>2. s[i] \in C!Write
    BY DEF C!Latest
  <2> QED BY <2>1, <2>2 DEF C!Write
<1> QED BY <1>1, <1>2

\* A write that is queued is the last one for whatever it covers.
LEMMA AfterAppend ==
  ASSUME NEW s \in Seq(C!Write), NEW x \in C!Write, NEW p, NEW old
  PROVE  C!After(Append(s, x), p, old) =
           IF C!Covers(x.on, p) THEN x.until ELSE C!After(s, p, old)
<1> DEFINE t == Append(s, x)
<1>1. /\ t \in Seq(C!Write) /\ Len(t) = Len(s) + 1 /\ t[Len(s) + 1] = x
      /\ DOMAIN t = 1..Len(s) + 1 /\ DOMAIN s = 1..Len(s) /\ Len(s) \in Nat
      /\ \A i \in DOMAIN s : t[i] = s[i]
  OBVIOUS
<1> HIDE DEF t
<1>2. CASE C!Covers(x.on, p)
  <2>1. Len(s) + 1 \in C!Latest(t, p)
    BY <1>1, <1>2 DEF C!Latest
  <2>2. C!After(t, p, old) = t[Len(s) + 1].until
    BY <1>1, <2>1, AfterLatest
  <2> QED BY <1>1, <1>2, <2>2 DEF t
<1>3. CASE ~C!Covers(x.on, p)
  <2>1. C!Latest(t, p) = C!Latest(s, p)
    <3>1. ASSUME NEW i \in C!Latest(t, p)
          PROVE  i \in C!Latest(s, p)
      BY <1>1, <1>3 DEF C!Latest
    <3>2. ASSUME NEW i \in C!Latest(s, p)
          PROVE  i \in C!Latest(t, p)
      BY <1>1, <1>3 DEF C!Latest
    <3> QED BY <3>1, <3>2
  <2>2. ASSUME C!Latest(s, p) = {}
        PROVE  C!After(t, p, old) = C!After(s, p, old)
    BY <2>1, <2>2 DEF C!After
  <2>3. ASSUME NEW i \in C!Latest(s, p)
        PROVE  C!After(t, p, old) = C!After(s, p, old)
    <3>1. C!After(s, p, old) = s[i].until /\ C!After(t, p, old) = t[i].until
      BY <1>1, <2>1, AfterLatest
    <3> QED BY <1>1, <3>1 DEF C!Latest
  <2>4. C!After(t, p, old) = C!After(s, p, old)
    <3>1. CASE C!Latest(s, p) = {}
      BY <2>2, <3>1
    <3>2. CASE C!Latest(s, p) # {}
      BY <2>3, <3>2
    <3> QED BY <3>1, <3>2
  <2> QED BY <1>3, <2>4 DEF t
<1> QED BY <1>2, <1>3

\* To write a queue at once or in two parts comes to the same.
LEMMA AfterSplit ==
  ASSUME NEW s \in Seq(C!Write), NEW n \in 1..Len(s), NEW p, NEW old
  PROVE  C!After(SubSeq(s, n + 1, Len(s)), p, C!After(SubSeq(s, 1, n), p, old)) =
           C!After(s, p, old)
<1> DEFINE batch == SubSeq(s, 1, n)
           rest == SubSeq(s, n + 1, Len(s))
<1>1. /\ batch \in Seq(C!Write) /\ rest \in Seq(C!Write)
      /\ DOMAIN batch = 1..n /\ DOMAIN rest = 1..(Len(s) - n) /\ DOMAIN s = 1..Len(s)
      /\ \A i \in DOMAIN batch : batch[i] = s[i]
      /\ \A i \in DOMAIN rest : rest[i] = s[i + n]
      /\ Len(s) \in Nat /\ n \in Nat /\ n <= Len(s)
  OBVIOUS
<1> HIDE DEF batch, rest
<1>2. ASSUME NEW i \in C!Latest(rest, p)
      PROVE  C!After(rest, p, C!After(batch, p, old)) = C!After(s, p, old)
  <2>1. i \in 1..(Len(s) - n) /\ i + n \in 1..Len(s) /\ C!Covers(s[i + n].on, p)
    BY <1>1 DEF C!Latest
  <2>2. ASSUME NEW j \in 1..Len(s), j > i + n
        PROVE  ~C!Covers(s[j].on, p)
    <3>1. j - n \in DOMAIN rest /\ j - n > i /\ (j - n) + n = j
      BY <1>1, <2>1, <2>2
    <3>2. rest[j - n] = s[j]
      BY <1>1, <3>1
    <3> QED BY <3>1, <3>2 DEF C!Latest
  <2>3. i + n \in C!Latest(s, p)
    BY <1>1, <2>1, <2>2 DEF C!Latest
  <2>4. C!After(s, p, old) = s[i + n].until
    BY <2>3, AfterLatest
  <2>5. C!After(rest, p, C!After(batch, p, old)) = rest[i].until
    BY <1>1, AfterLatest
  <2> QED BY <1>1, <2>1, <2>4, <2>5
<1>3. ASSUME C!Latest(rest, p) = {}
      PROVE  C!After(rest, p, C!After(batch, p, old)) = C!After(s, p, old)
  <2>1. \A i \in DOMAIN rest : ~C!Covers(rest[i].on, p)
    BY <1>1, <1>3, LatestExists
  <2>2. ASSUME NEW j \in 1..Len(s), j > n
        PROVE  ~C!Covers(s[j].on, p)
    <3>1. j - n \in DOMAIN rest /\ (j - n) + n = j
      BY <1>1, <2>2
    <3>2. rest[j - n] = s[j]
      BY <1>1, <3>1
    <3> QED BY <2>1, <3>1, <3>2
  <2>3. C!After(rest, p, C!After(batch, p, old)) = C!After(batch, p, old)
    BY <1>3 DEF C!After
  <2>4. C!Latest(s, p) = C!Latest(batch, p)
    <3>1. ASSUME NEW i \in C!Latest(s, p)
          PROVE  i \in C!Latest(batch, p)
      BY <1>1, <2>2 DEF C!Latest
    <3>2. ASSUME NEW i \in C!Latest(batch, p)
          PROVE  i \in C!Latest(s, p)
      BY <1>1, <2>2 DEF C!Latest
    <3> QED BY <3>1, <3>2
  <2>5. ASSUME C!Latest(s, p) = {}
        PROVE  C!After(batch, p, old) = C!After(s, p, old)
    BY <2>4, <2>5 DEF C!After
  <2>6. ASSUME NEW i \in C!Latest(s, p)
        PROVE  C!After(batch, p, old) = C!After(s, p, old)
    <3>1. C!After(s, p, old) = s[i].until /\ C!After(batch, p, old) = batch[i].until
      BY <1>1, <2>4, AfterLatest
    <3> QED BY <1>1, <2>4, <3>1 DEF C!Latest
  <2>7. C!After(batch, p, old) = C!After(s, p, old)
    BY <2>5, <2>6
  <2> QED BY <2>3, <2>7
<1>4. C!After(rest, p, C!After(batch, p, old)) = C!After(s, p, old)
  BY <1>2, <1>3
<1> QED BY <1>4 DEF batch, rest

\* What a commit leaves of a queue means what the queue meant, if the batch went into
\* the table; and if it did not, save for the pairs last written in the batch.
LEMMA AfterRefused ==
  ASSUME NEW s \in Seq(C!Write), NEW n \in 1..Len(s), NEW p, NEW old,
         C!Latest(SubSeq(s, 1, n), p) = {} \/ C!Latest(SubSeq(s, n + 1, Len(s)), p) # {}
  PROVE  C!After(SubSeq(s, n + 1, Len(s)), p, old) = C!After(s, p, old)
<1> DEFINE batch == SubSeq(s, 1, n)
           rest == SubSeq(s, n + 1, Len(s))
<1>1. rest \in Seq(C!Write) /\ n \in Nat /\ Len(s) \in Nat
  OBVIOUS
<1>2. C!After(rest, p, C!After(batch, p, old)) = C!After(s, p, old)
  BY AfterSplit
<1>3. C!Latest(batch, p) = {} \/ C!Latest(rest, p) # {}
  OBVIOUS
<1> HIDE DEF batch, rest
<1>4. C!After(rest, p, C!After(batch, p, old)) = C!After(rest, p, old)
  <2>1. CASE C!Latest(batch, p) = {}
    BY <2>1 DEF C!After
  <2>2. CASE C!Latest(rest, p) # {}
    BY <2>2 DEF C!After
  <2> QED BY <1>3, <2>1, <2>2
<1> QED BY <1>2, <1>4 DEF rest

(***************************************************************************)
(* Cooldown: the inductive invariant.                                      *)
(***************************************************************************)
\* A write that cools anything is about one pair, a pair without hits is not cooling, and
\* a clear() has one filter.
WritesFit ==
  /\ \A i \in DOMAIN queue : queue[i].until > 0 => queue[i].on \in C!Pair
  /\ \A p \in C!Pair : mem[p].hits = 0 => mem[p].until = 0
  /\ \A d \in Clearer : \A f, g \in clearer[d] : f = g

\* What is left of a cooling, and what was done of it.
CoolingsFit ==
  \A w \in Worker :
    /\ worker[w].pc = "trying" => worker[w].done = 0
    /\ worker[w].pc = "insert" => worker[w].left >= 1 /\ worker[w].done + worker[w].left <= 2
    /\ (worker[w].pc = "send" /\ worker[w].left = 2) => worker[w].done <= 1

\* The mutex is held from the map to the queue, and by nobody else.
MutexIsHeld ==
  /\ \A w \in Worker : worker[w].pc = "send" <=> holder = w
  /\ \A w \in Worker : holder = w => mem[worker[w].at].until = worker[w].until

CooldownInv ==
  /\ C!TypeOK
  /\ WritesFit
  /\ CoolingsFit
  /\ MutexIsHeld
  /\ C!CoolingIsDurable
  /\ C!NothingComesBack
  /\ C!RowsHaveKeys

LEMMA IdleTasks == C!IdleTask \in C!Task /\ C!IdleTask.pc = "idle"
<1>1. C!Pair # {}
  <2>1. PICK k \in Key, m \in Model : TRUE
    BY CooldownConstants
  <2>2. <<k, m>> \in C!Pair
    BY DEF C!Pair
  <2> QED BY <2>2
<1>2. (CHOOSE p \in C!Pair : TRUE) \in C!Pair
  BY <1>1
<1> QED BY <1>2 DEF C!IdleTask, C!Task

LEMMA CooldownBegins == C!Init => CooldownInv
<1> SUFFICES ASSUME C!Init
             PROVE  CooldownInv
  OBVIOUS
<1>1. C!IdleTask \in C!Task /\ C!IdleTask.pc = "idle"
  BY IdleTasks
<1>2. C!TypeOK
  BY <1>1, CooldownConstants DEF C!Init, C!TypeOK, C!NoItem, C!Item, C!Filter, C!Write
<1>3. WritesFit /\ CoolingsFit /\ MutexIsHeld
  BY <1>1, CooldownConstants DEF C!Init, WritesFit, CoolingsFit, MutexIsHeld, C!NoItem
<1>4. \A p \in C!Pair : C!Destined(p) = 0
  BY DEF C!Init, C!Destined, C!After, C!Latest
<1>5. C!CoolingIsDurable /\ C!NothingComesBack /\ C!RowsHaveKeys
  BY <1>4, CooldownConstants
     DEF C!Init, C!CoolingIsDurable, C!NothingComesBack, C!RowsHaveKeys, C!Cooling, C!NoItem
<1> QED BY <1>2, <1>3, <1>5 DEF CooldownInv

\* A pair is what it was, where the step leaves it alone.
LEMMA SameDestiny ==
  ASSUME NEW p, UNCHANGED <<queue, rows>>
  PROVE  C!Destined(p)' = C!Destined(p)
BY DEF C!Destined

\* An attempt that is not in the middle of set() goes on.
LEMMA AttemptMoves ==
  ASSUME CooldownInv, NEW w \in Worker, NEW t \in C!Task,
         worker[w].pc # "send", t.pc # "send",
         t.pc = "trying" => t.done = 0,
         t.pc = "insert" => t.left >= 1 /\ t.done + t.left <= 2,
         worker' = [worker EXCEPT ![w] = t],
         UNCHANGED <<now, keys, rows, queue, mem, holder, clearer, excused>>
  PROVE  CooldownInv'
<1>1. C!TypeOK /\ WritesFit /\ CoolingsFit /\ MutexIsHeld
  BY DEF CooldownInv
<1>2. holder # w /\ worker \in [Worker -> C!Task] /\ holder \in Worker \cup {Nobody}
  BY <1>1 DEF C!TypeOK, MutexIsHeld
<1>3. /\ worker' \in [Worker -> C!Task] /\ worker'[w] = t
      /\ \A v \in Worker : v # w => worker'[v] = worker[v]
  BY <1>2
<1>4. C!TypeOK'
  BY <1>1, <1>3 DEF C!TypeOK
<1>5. WritesFit' /\ CoolingsFit' /\ MutexIsHeld'
  BY <1>1, <1>2, <1>3 DEF WritesFit, CoolingsFit, MutexIsHeld
<1>6. \A p \in C!Pair : /\ C!BeingSet(p)' <=> C!BeingSet(p)
                        /\ C!Cooling(p)' <=> C!Cooling(p)
                        /\ C!Destined(p)' = C!Destined(p)
  BY <1>2, <1>3, SameDestiny DEF C!BeingSet, C!Cooling
<1>7. C!CoolingIsDurable' /\ C!NothingComesBack' /\ C!RowsHaveKeys'
  BY <1>6 DEF CooldownInv, C!CoolingIsDurable, C!NothingComesBack, C!RowsHaveKeys
<1> QED BY <1>4, <1>5, <1>7 DEF CooldownInv

LEMMA BackoffIsNat == \A h \in Nat : C!Backoff(h) \in Nat
<1>1. \A i \in 1..7 : C!Doublings[i] \in Nat
  BY DEF C!Doublings
<1>2. ASSUME NEW h \in Nat
      PROVE  C!Backoff(h) \in Nat
  <2> DEFINE shift == IF h < 6 THEN h ELSE 6
  <2>1. shift + 1 \in 1..7
    OBVIOUS
  <2>2. BackoffBase * C!Doublings[shift + 1] \in Nat
    BY <1>1, <2>1, CooldownConstants
  <2> QED BY <2>2, CooldownConstants DEF C!Backoff
<1> QED BY <1>2

LEMMA CoolingBegins ==
  ASSUME NEW o \in C!Task, NEW u \in Nat, NEW n \in 1..2, NEW t,
         t = [pc |-> "insert", at |-> o.at, until |-> u, left |-> n, done |-> o.done]
  PROVE  t \in C!Task /\ t.pc = "insert" /\ t.left = n /\ t.done = o.done
<1>1. o.at \in C!Pair /\ o.done \in 0..2
  BY DEF C!Task
<1> QED BY <1>1 DEF C!Task

LEMMA CooldownAttempts ==
  ASSUME CooldownInv, NEW w \in Worker, C!Step(w), ~C!Insert(w)
  PROVE  CooldownInv'
<1>1. C!TypeOK /\ CoolingsFit
  BY DEF CooldownInv
<1>2. /\ worker \in [Worker -> C!Task] /\ now \in Nat /\ mem \in [C!Pair -> C!Item]
      /\ worker[w] \in C!Task
  BY <1>1 DEF C!TypeOK
<1>3. ASSUME NEW p \in C!Pair, C!Try(w, p)
      PROVE  CooldownInv'
  <2> DEFINE t == [C!IdleTask EXCEPT !.pc = "trying", !.at = p]
  <2>1. t \in C!Task /\ t.pc = "trying" /\ t.done = 0
    BY IdleTasks DEF C!IdleTask, C!Task
  <2> HIDE DEF t
  <2>2. worker' = [worker EXCEPT ![w] = t] /\ worker[w].pc = "idle"
    BY <1>3 DEF C!Try, t
  <2> QED BY <1>3, <2>1, <2>2, AttemptMoves DEF C!Try
<1>4. CASE C!Answered(w)
  BY <1>4, IdleTasks, AttemptMoves DEF C!Answered
<1>5. ASSUME NEW d \in Hint, C!HintedRefusal(w, d)
      PROVE  CooldownInv'
  <2>1. d \in Nat /\ now + d \in Nat
    BY <1>2, CooldownConstants
  <2>2. PICK o \in C!Task, u \in Nat : o = worker[w] /\ u = now + d
    BY <1>2, <2>1
  <2>3. worker[w].pc = "trying" /\ worker[w].done = 0
    BY <1>1, <1>5 DEF C!HintedRefusal, CoolingsFit
  <2>8. PICK n \in 1..2 : n = 1
    OBVIOUS
  <2>5. PICK t : t = [o EXCEPT !.pc = "insert", !.until = u, !.left = n]
    OBVIOUS
  <2>9. t \in C!Task /\ t.pc = "insert" /\ t.left = n /\ t.done = o.done
    <3>1. o = [pc |-> o.pc, at |-> o.at, until |-> o.until, left |-> o.left, done |-> o.done]
      BY DEF C!Task
    <3>2. t = [pc |-> "insert", at |-> o.at, until |-> u, left |-> n, done |-> o.done]
      BY <2>5, <3>1
    <3> QED BY <3>2, CoolingBegins
  <2>4. worker' = [worker EXCEPT ![w] = t]
    BY <1>2, <1>5, <2>2, <2>5, <2>8 DEF C!HintedRefusal, C!Task
  <2>7. worker[w].pc # "send" /\ t.pc # "send" /\ t.pc # "trying"
        /\ t.left >= 1 /\ t.done + t.left <= 2
    BY <2>2, <2>3, <2>8, <2>9 DEF C!HintedRefusal
  <2> QED BY <1>5, <2>4, <2>7, <2>9, AttemptMoves DEF C!HintedRefusal
<1>6. CASE C!PlainRefusal(w)
  <2>1. PICK u : u = now + C!Backoff(mem[worker[w].at].hits + 1)
    OBVIOUS
  <2>2. u \in Nat
    BY <1>2, <2>1, BackoffIsNat DEF C!Task, C!Item
  <2>3. PICK o \in C!Task : o = worker[w]
    BY <1>2
  <2>4. worker[w].pc = "trying" /\ worker[w].done = 0
    BY <1>1, <1>6 DEF C!PlainRefusal, CoolingsFit
  <2>8. PICK n \in 1..2 : n = 2
    OBVIOUS
  <2>6. PICK t : t = [o EXCEPT !.pc = "insert", !.until = u, !.left = n]
    OBVIOUS
  <2>9. t \in C!Task /\ t.pc = "insert" /\ t.left = n /\ t.done = o.done
    <3>1. o = [pc |-> o.pc, at |-> o.at, until |-> o.until, left |-> o.left, done |-> o.done]
      BY DEF C!Task
    <3>2. t = [pc |-> "insert", at |-> o.at, until |-> u, left |-> n, done |-> o.done]
      BY <2>6, <3>1
    <3> QED BY <2>2, <3>2, CoolingBegins
  <2>5. worker' = [worker EXCEPT ![w] = t]
    BY <1>2, <1>6, <2>1, <2>3, <2>6, <2>8 DEF C!PlainRefusal, C!Task
  <2>7. worker[w].pc # "send" /\ t.pc # "send" /\ t.pc # "trying"
        /\ t.left >= 1 /\ t.done + t.left <= 2
    BY <2>3, <2>4, <2>8, <2>9 DEF C!PlainRefusal
  <2> QED BY <1>6, <2>5, <2>7, <2>9, AttemptMoves DEF C!PlainRefusal
<1> QED BY <1>3, <1>4, <1>5, <1>6 DEF C!Step

LEMMA CooldownInsert ==
  ASSUME CooldownInv, NEW w \in Worker, C!Insert(w)
  PROVE  CooldownInv'
<1>1. C!TypeOK /\ WritesFit /\ CoolingsFit /\ MutexIsHeld
  BY DEF CooldownInv
<1>2. /\ worker \in [Worker -> C!Task] /\ mem \in [C!Pair -> C!Item] /\ holder = Nobody
      /\ worker[w].pc = "insert" /\ w # Nobody
  BY <1>1, CooldownConstants DEF C!TypeOK, C!Insert
<1>3. PICK o \in C!Task : o = worker[w]
  BY <1>2
<1>4. PICK t : t = [o EXCEPT !.pc = "send", !.done = o.done + 1]
  OBVIOUS
<1>5. /\ worker' = [worker EXCEPT ![w] = t]
      /\ t \in C!Task /\ t.pc = "send" /\ t.at = o.at /\ t.until = o.until
      /\ t.left = o.left /\ t.done = o.done + 1
  <2>1. o.left >= 1 /\ o.done + o.left <= 2 /\ o.done \in 0..2 /\ o.left \in 0..2
    BY <1>1, <1>2, <1>3 DEF CoolingsFit, C!Task
  <2>2. o = [pc |-> o.pc, at |-> o.at, until |-> o.until, left |-> o.left, done |-> o.done]
    BY DEF C!Task
  <2>3. t = [pc |-> "send", at |-> o.at, until |-> o.until, left |-> o.left,
             done |-> o.done + 1]
    BY <1>4, <2>2
  <2>4. o.at \in C!Pair /\ o.until \in Nat /\ o.done + 1 \in 0..2
    BY <2>1 DEF C!Task
  <2>5. worker' = [worker EXCEPT ![w] = t]
    BY <1>2, <1>3, <1>4 DEF C!Insert, C!Task
  <2> QED BY <2>1, <2>3, <2>4, <2>5 DEF C!Task
<1>6. PICK p \in C!Pair : p = o.at
  BY DEF C!Task
<1>7. /\ mem' \in [C!Pair -> C!Item]
      /\ mem'[p].until = o.until /\ mem'[p].hits > 0
      /\ \A q \in C!Pair : q # p => mem'[q] = mem[q]
  <2>1. o.until \in Nat /\ mem[p].hits \in Nat
    BY <1>2 DEF C!Task, C!Item
  <2>2. mem' = [mem EXCEPT ![p] = [until |-> o.until, hits |-> mem[p].hits + 1]]
    BY <1>2, <1>3, <1>6 DEF C!Insert
  <2> QED BY <1>2, <2>1, <2>2 DEF C!Item
<1>8. /\ worker' \in [Worker -> C!Task] /\ worker'[w] = t /\ holder' = w
      /\ \A v \in Worker : v # w => worker'[v] = worker[v]
  BY <1>2, <1>5 DEF C!Insert
<1>9. C!TypeOK'
  BY <1>1, <1>7, <1>8 DEF C!TypeOK, C!Insert
<1>10. WritesFit'
  BY <1>1, <1>7 DEF WritesFit, C!Insert
<1>11. CoolingsFit'
  <2>1. o.left >= 1 /\ o.done + o.left <= 2 /\ o.done \in 0..2 /\ o.left \in 0..2
    BY <1>1, <1>2, <1>3 DEF CoolingsFit, C!Task
  <2>2. t.left = 2 => t.done <= 1
    BY <1>5, <2>1
  <2> QED BY <1>1, <1>5, <1>8, <2>2 DEF CoolingsFit
<1>12. MutexIsHeld'
  BY <1>1, <1>2, <1>5, <1>6, <1>7, <1>8, CooldownConstants DEF MutexIsHeld
<1>13. \A q \in C!Pair : C!Destined(q)' = C!Destined(q)
  BY SameDestiny DEF C!Insert
<1>14. C!BeingSet(p)'
  BY <1>2, <1>5, <1>6, <1>8 DEF C!BeingSet
<1>15. \A q \in C!Pair : ~C!BeingSet(q)
  BY <1>2 DEF C!BeingSet
<1>16. C!CoolingIsDurable'
  <2> SUFFICES ASSUME NEW q \in C!Pair, C!Cooling(q)', q[1] \in keys', q \notin excused',
                      ~C!BeingSet(q)'
               PROVE  C!Destined(q)' = mem'[q].until
    BY DEF C!CoolingIsDurable
  <2>1. q # p
    BY <1>14
  <2>2. C!Cooling(q) /\ q[1] \in keys /\ q \notin excused
    BY <1>7, <2>1 DEF C!Cooling, C!Insert
  <2> QED BY <1>7, <1>13, <1>15, <2>1, <2>2 DEF CooldownInv, C!CoolingIsDurable
<1>17. C!NothingComesBack'
  <2> SUFFICES ASSUME NEW q \in C!Pair, C!Destined(q)' > now', q \notin excused',
                      ~C!BeingSet(q)',
                      \A d \in Clearer : \A f \in clearer'[d] : ~C!Covers(f, q)
               PROVE  mem'[q].until = C!Destined(q)'
    BY DEF C!NothingComesBack
  <2>1. q # p
    BY <1>14
  <2>2. C!Destined(q) > now /\ q \notin excused /\ clearer' = clearer
    BY <1>13 DEF C!Insert
  <2> QED BY <1>7, <1>13, <1>15, <2>1, <2>2 DEF CooldownInv, C!NothingComesBack
<1>18. C!RowsHaveKeys'
  BY DEF CooldownInv, C!RowsHaveKeys, C!Insert
<1> QED BY <1>9, <1>10, <1>11, <1>12, <1>16, <1>17, <1>18 DEF CooldownInv

\* A write is queued: the pairs it covers are destined to it.
LEMMA Queued ==
  ASSUME C!TypeOK, NEW x \in C!Write, Len(queue) < QueueCap, queue' = Append(queue, x),
         rows' = rows
  PROVE  /\ queue' \in Seq(C!Write) /\ Len(queue') <= QueueCap
         /\ \A p \in C!Pair :
              C!Destined(p)' = IF C!Covers(x.on, p) THEN x.until ELSE C!Destined(p)
<1>1. queue \in Seq(C!Write) /\ Len(queue') = Len(queue) + 1 /\ Len(queue) \in Nat
  BY DEF C!TypeOK
<1>2. queue' \in Seq(C!Write) /\ Len(queue') <= QueueCap
  BY <1>1, CooldownConstants
<1>3. ASSUME NEW p \in C!Pair
      PROVE  C!Destined(p)' = IF C!Covers(x.on, p) THEN x.until ELSE C!Destined(p)
  <2>1. C!After(Append(queue, x), p, rows[p]) =
          IF C!Covers(x.on, p) THEN x.until ELSE C!After(queue, p, rows[p])
    BY <1>1, AfterAppend
  <2> QED BY <2>1 DEF C!Destined
<1> QED BY <1>2, <1>3

LEMMA CooldownSend ==
  ASSUME CooldownInv, NEW w \in Worker, C!Send(w)
  PROVE  CooldownInv'
<1>1. C!TypeOK /\ WritesFit /\ CoolingsFit /\ MutexIsHeld
  BY DEF CooldownInv
<1>2. /\ worker \in [Worker -> C!Task] /\ mem \in [C!Pair -> C!Item] /\ holder = w
      /\ worker[w].pc = "send" /\ w # Nobody /\ queue \in Seq(C!Write)
  BY <1>1, CooldownConstants DEF C!TypeOK, C!Send, MutexIsHeld
<1>3. PICK o \in C!Task : o = worker[w]
  BY <1>2
<1>4. PICK p \in C!Pair : p = o.at
  BY DEF C!Task
<1>5. PICK t : t = IF o.left = 2 THEN [o EXCEPT !.pc = "insert", !.left = 1] ELSE C!IdleTask
  OBVIOUS
<1>6. worker' = [worker EXCEPT ![w] = t] /\ holder' = Nobody
  BY <1>2, <1>3, <1>5 DEF C!Send
<1>7. /\ t \in C!Task /\ t.pc \in {"insert", "idle"}
      /\ t.pc = "insert" => t.left >= 1 /\ t.done + t.left <= 2
  <2>1. CASE o.left = 2
    <3>1. o = [pc |-> o.pc, at |-> o.at, until |-> o.until, left |-> o.left, done |-> o.done]
      BY DEF C!Task
    <3>2. t = [pc |-> "insert", at |-> o.at, until |-> o.until, left |-> 1, done |-> o.done]
      BY <1>5, <2>1, <3>1
    <3>3. o.at \in C!Pair /\ o.until \in Nat /\ o.done \in 0..2 /\ o.done <= 1
      BY <1>1, <1>2, <1>3, <2>1 DEF C!Task, CoolingsFit
    <3> QED BY <3>2, <3>3 DEF C!Task
  <2>2. CASE o.left # 2
    BY <1>5, <2>2, IdleTasks
  <2> QED BY <2>1, <2>2
<1>8. /\ worker' \in [Worker -> C!Task] /\ worker'[w] = t
      /\ \A v \in Worker : v # w => worker'[v] = worker[v]
  BY <1>2, <1>6, <1>7
<1>9. PICK x \in C!Write : x = [on |-> p, until |-> o.until]
  <2>1. p \in C!Filter /\ o.until \in Nat
    BY <1>4 DEF C!Task, C!Pair, C!Filter
  <2> QED BY <2>1 DEF C!Write
<1>10. queue' = Append(queue, x) /\ Len(queue) < QueueCap
  BY <1>3, <1>4, <1>9 DEF C!Send
<1>11. /\ queue' \in Seq(C!Write) /\ Len(queue') <= QueueCap
       /\ \A q \in C!Pair :
            C!Destined(q)' = IF C!Covers(p, q) THEN o.until ELSE C!Destined(q)
  BY <1>1, <1>9, <1>10, Queued DEF C!Send
<1>12. \A q \in C!Pair : C!Destined(q)' = IF p = q THEN o.until ELSE C!Destined(q)
  BY <1>4, <1>11, PairsCoverThemselves
<1>13. mem[p].until = o.until
  BY <1>1, <1>2, <1>3, <1>4 DEF MutexIsHeld
<1>14. C!TypeOK'
  BY <1>1, <1>6, <1>8, <1>11 DEF C!TypeOK, C!Send
<1>15. WritesFit'
  <2>1. mem' = mem /\ clearer' = clearer
    BY DEF C!Send
  <2>2. \A i \in DOMAIN queue' : (i \in DOMAIN queue /\ queue'[i] = queue[i]) \/ queue'[i] = x
    BY <1>2, <1>10
  <2>3. x.on \in C!Pair
    BY <1>9
  <2> QED BY <1>1, <2>1, <2>2, <2>3 DEF WritesFit
<1>16. CoolingsFit'
  BY <1>1, <1>7, <1>8 DEF CoolingsFit
<1>17. MutexIsHeld'
  BY <1>1, <1>2, <1>6, <1>7, <1>8, CooldownConstants DEF MutexIsHeld, C!Send
<1>18. \A q \in C!Pair : ~C!BeingSet(q)' /\ (C!BeingSet(q) <=> q = p)
  BY <1>2, <1>3, <1>4, <1>6 DEF C!BeingSet
<1>19. /\ mem' = mem /\ now' = now /\ keys' = keys /\ rows' = rows /\ clearer' = clearer
       /\ excused' = excused \ {p}
  BY <1>3, <1>4 DEF C!Send
<1>20. C!CoolingIsDurable'
  <2> SUFFICES ASSUME NEW q \in C!Pair, C!Cooling(q)', q[1] \in keys', q \notin excused'
               PROVE  C!Destined(q)' = mem'[q].until
    BY DEF C!CoolingIsDurable
  <2>1. C!Cooling(q) /\ q[1] \in keys
    BY <1>19 DEF C!Cooling
  <2>2. CASE q = p
    BY <1>12, <1>13, <1>19, <2>2
  <2>3. CASE q # p
    BY <1>12, <1>18, <1>19, <2>1, <2>3 DEF CooldownInv, C!CoolingIsDurable
  <2> QED BY <2>2, <2>3
<1>21. C!NothingComesBack'
  <2> SUFFICES ASSUME NEW q \in C!Pair, C!Destined(q)' > now', q \notin excused',
                      \A d \in Clearer : \A f \in clearer'[d] : ~C!Covers(f, q)
               PROVE  mem'[q].until = C!Destined(q)'
    BY DEF C!NothingComesBack
  <2>1. CASE q = p
    BY <1>12, <1>13, <1>19, <2>1
  <2>2. CASE q # p
    BY <1>12, <1>18, <1>19, <2>2 DEF CooldownInv, C!NothingComesBack
  <2> QED BY <2>1, <2>2
<1>22. C!RowsHaveKeys'
  BY <1>19 DEF CooldownInv, C!RowsHaveKeys
<1> QED BY <1>14, <1>15, <1>16, <1>17, <1>20, <1>21, <1>22 DEF CooldownInv

\* A step between two coolings, with the map in nobody's hand, keeps the attempts.
LEMMA AttemptsStand ==
  ASSUME CoolingsFit, MutexIsHeld, UNCHANGED <<worker, holder>>,
         mem' = mem \/ holder = Nobody
  PROVE  CoolingsFit' /\ MutexIsHeld'
BY CooldownConstants DEF CoolingsFit, MutexIsHeld

LEMMA CooldownErase ==
  ASSUME CooldownInv, NEW d \in Clearer, NEW f \in C!Filter, C!Erase(d, f)
  PROVE  CooldownInv'
<1>1. C!TypeOK /\ WritesFit /\ CoolingsFit /\ MutexIsHeld
  BY DEF CooldownInv
<1>2. /\ holder = Nobody /\ mem \in [C!Pair -> C!Item]
      /\ clearer \in [Clearer -> SUBSET C!Filter]
  BY <1>1 DEF C!TypeOK, C!Erase
<1>3. /\ mem' \in [C!Pair -> C!Item]
      /\ \A p \in C!Pair : mem'[p] = IF C!Covers(f, p) THEN C!NoItem ELSE mem[p]
  BY <1>2 DEF C!Erase, C!NoItem, C!Item
<1>4. clearer' \in [Clearer -> SUBSET C!Filter] /\ clearer'[d] = {f} /\ clearer[d] = {}
      /\ \A e \in Clearer : e # d => clearer'[e] = clearer[e]
  BY <1>2 DEF C!Erase
<1>5. UNCHANGED <<now, keys, rows, queue, holder, worker, excused>>
  BY DEF C!Erase
<1>6. C!TypeOK'
  BY <1>1, <1>3, <1>4, <1>5 DEF C!TypeOK
<1>7. WritesFit'
  BY <1>1, <1>3, <1>4, <1>5 DEF WritesFit, C!NoItem
<1>8. CoolingsFit' /\ MutexIsHeld'
  BY <1>1, <1>2, <1>5, AttemptsStand
<1>9. \A p \in C!Pair : C!Destined(p)' = C!Destined(p) /\ ~C!BeingSet(p)
  BY <1>2, <1>5, SameDestiny DEF C!BeingSet
<1>10. C!CoolingIsDurable'
  <2> SUFFICES ASSUME NEW q \in C!Pair, C!Cooling(q)', q[1] \in keys', q \notin excused'
               PROVE  C!Destined(q)' = mem'[q].until
    BY DEF C!CoolingIsDurable
  <2>1. mem'[q] = mem[q] /\ C!Cooling(q)
    BY <1>1, <1>3, <1>5 DEF C!Cooling, C!NoItem, C!TypeOK
  <2> QED BY <1>5, <1>9, <2>1 DEF CooldownInv, C!CoolingIsDurable
<1>11. C!NothingComesBack'
  <2> SUFFICES ASSUME NEW q \in C!Pair, C!Destined(q)' > now', q \notin excused',
                      \A e \in Clearer : \A g \in clearer'[e] : ~C!Covers(g, q)
               PROVE  mem'[q].until = C!Destined(q)'
    BY DEF C!NothingComesBack
  <2>1. ~C!Covers(f, q)
    BY <1>4
  <2>2. \A e \in Clearer : \A g \in clearer[e] : ~C!Covers(g, q)
    BY <1>4
  <2> QED BY <1>3, <1>5, <1>9, <2>1, <2>2 DEF CooldownInv, C!NothingComesBack
<1>12. C!RowsHaveKeys'
  BY <1>5 DEF CooldownInv, C!RowsHaveKeys
<1> QED BY <1>6, <1>7, <1>8, <1>10, <1>11, <1>12 DEF CooldownInv

LEMMA CooldownSendClear ==
  ASSUME CooldownInv, NEW d \in Clearer, C!SendClear(d)
  PROVE  CooldownInv'
<1>1. C!TypeOK /\ WritesFit /\ CoolingsFit /\ MutexIsHeld
  BY DEF CooldownInv
<1>2. PICK f \in clearer[d] :
        /\ queue' = Append(queue, [on |-> f, until |-> 0])
        /\ excused' = {p \in C!Pair : IF C!Covers(f, p) THEN mem[p].hits > 0
                                      ELSE p \in excused}
  BY DEF C!SendClear
<1>3. /\ clearer \in [Clearer -> SUBSET C!Filter] /\ f \in C!Filter
      /\ mem \in [C!Pair -> C!Item] /\ now \in Nat /\ queue \in Seq(C!Write)
      /\ excused' \subseteq C!Pair
  BY <1>1, <1>2 DEF C!TypeOK
<1>4. /\ clearer' \in [Clearer -> SUBSET C!Filter] /\ clearer'[d] = {}
      /\ \A e \in Clearer : e # d => clearer'[e] = clearer[e]
  BY <1>3 DEF C!SendClear
<1>5. UNCHANGED <<now, keys, rows, mem, holder, worker>> /\ Len(queue) < QueueCap
  BY DEF C!SendClear
<1>6. PICK x \in C!Write : x = [on |-> f, until |-> 0]
  BY <1>3 DEF C!Write
<1>7. /\ queue' \in Seq(C!Write) /\ Len(queue') <= QueueCap
      /\ \A p \in C!Pair : C!Destined(p)' = IF C!Covers(f, p) THEN 0 ELSE C!Destined(p)
  BY <1>1, <1>2, <1>5, <1>6, Queued
<1>8. C!TypeOK'
  BY <1>1, <1>3, <1>4, <1>5, <1>7 DEF C!TypeOK
<1>9. WritesFit'
  <2>1. \A i \in DOMAIN queue' : (i \in DOMAIN queue /\ queue'[i] = queue[i]) \/ queue'[i] = x
    BY <1>2, <1>3, <1>6
  <2>2. ~(x.until > 0)
    BY <1>6
  <2> QED BY <1>1, <1>4, <1>5, <2>1, <2>2 DEF WritesFit
<1>10. CoolingsFit' /\ MutexIsHeld'
  BY <1>1, <1>5, AttemptsStand
<1>11. \A p \in C!Pair : C!BeingSet(p)' <=> C!BeingSet(p)
  BY <1>5 DEF C!BeingSet
<1>12. C!CoolingIsDurable'
  <2> SUFFICES ASSUME NEW q \in C!Pair, C!Cooling(q)', q[1] \in keys', q \notin excused',
                      ~C!BeingSet(q)'
               PROVE  C!Destined(q)' = mem'[q].until
    BY DEF C!CoolingIsDurable
  <2>1. C!Cooling(q) /\ mem[q].hits > 0
    <3>1. C!Cooling(q)
      BY <1>5 DEF C!Cooling
    <3>2. mem[q].until # 0 /\ mem[q].hits \in Nat
      BY <1>3, <3>1 DEF C!Cooling, C!Item
    <3> QED BY <1>1, <3>1, <3>2 DEF WritesFit
  <2>2. ~C!Covers(f, q) /\ q \notin excused
    BY <1>2, <2>1
  <2> QED BY <1>5, <1>7, <1>11, <2>1, <2>2 DEF CooldownInv, C!CoolingIsDurable
<1>13. C!NothingComesBack'
  <2> SUFFICES ASSUME NEW q \in C!Pair, C!Destined(q)' > now', q \notin excused',
                      ~C!BeingSet(q)',
                      \A e \in Clearer : \A g \in clearer'[e] : ~C!Covers(g, q)
               PROVE  mem'[q].until = C!Destined(q)'
    BY DEF C!NothingComesBack
  <2>1. ~C!Covers(f, q)
    BY <1>3, <1>5, <1>7
  <2>2. q \notin excused /\ C!Destined(q) > now
    BY <1>2, <1>5, <1>7, <2>1
  <2>3. clearer[d] = {f}
    BY <1>1, <1>2 DEF WritesFit
  <2>4. \A e \in Clearer : \A g \in clearer[e] : ~C!Covers(g, q)
    BY <1>4, <2>1, <2>3
  <2> QED BY <1>5, <1>7, <1>11, <2>1, <2>2, <2>4 DEF CooldownInv, C!NothingComesBack
<1>14. C!RowsHaveKeys'
  BY <1>5 DEF CooldownInv, C!RowsHaveKeys
<1> QED BY <1>8, <1>9, <1>10, <1>12, <1>13, <1>14 DEF CooldownInv

LEMMA CooldownCommit ==
  ASSUME CooldownInv, NEW n \in 1..Len(queue), C!Commit(n)
  PROVE  CooldownInv'
<1> DEFINE batch == SubSeq(queue, 1, n)
           rest == SubSeq(queue, n + 1, Len(queue))
<1>1. C!TypeOK /\ WritesFit /\ CoolingsFit /\ MutexIsHeld
  BY DEF CooldownInv
<1>2. UNCHANGED <<now, keys, mem, holder, worker, clearer>> /\ queue' = rest
  BY DEF C!Commit
<1>3. queue \in Seq(C!Write) /\ Len(queue) <= QueueCap /\ rows \in [C!Pair -> Nat]
  BY <1>1 DEF C!TypeOK
<1>4. /\ batch \in Seq(C!Write) /\ rest \in Seq(C!Write) /\ Len(rest) <= QueueCap
      /\ \A i \in DOMAIN batch : i \in DOMAIN queue /\ batch[i] = queue[i]
      /\ \A i \in DOMAIN rest : i + n \in DOMAIN queue /\ rest[i] = queue[i + n]
  BY <1>3, CooldownConstants
<1>5. \A p \in C!Pair :
        C!After(rest, p, C!After(batch, p, rows[p])) = C!After(queue, p, rows[p])
  BY <1>3, AfterSplit
<1>6. \A p \in C!Pair : (C!Latest(batch, p) = {} \/ C!Latest(rest, p) # {}) =>
        C!After(rest, p, rows[p]) = C!After(queue, p, rows[p])
  BY <1>3, AfterRefused
<1>7. \A p \in C!Pair : /\ C!Destined(p)' = C!After(rest, p, rows'[p])
                        /\ C!Destined(p) = C!After(queue, p, rows[p])
  BY <1>2 DEF C!Destined
<1>8. C!Accepted(batch) => rows' = [p \in C!Pair |-> C!After(batch, p, rows[p])]
  BY DEF C!Commit
<1>9. ~C!Accepted(batch) =>
        /\ rows' = rows
        /\ excused' = excused \cup {p \in C!Pair : /\ C!Latest(batch, p) # {}
                                                   /\ C!Latest(rest, p) = {}}
  BY DEF C!Commit
<1>10. C!Accepted(batch) => excused' = excused
  BY DEF C!Commit
<1>11. \A i \in DOMAIN batch : batch[i].until > 0 => batch[i].on \in C!Pair
  BY <1>1, <1>4 DEF WritesFit
<1>12. \A i \in DOMAIN rest : rest[i].until > 0 => rest[i].on \in C!Pair
  BY <1>1, <1>4 DEF WritesFit
<1> HIDE DEF batch, rest
<1>13. rows' \in [C!Pair -> Nat]
  <2>1. \A p \in C!Pair : C!After(batch, p, rows[p]) \in Nat
    BY <1>3, <1>4, AfterIsNat
  <2> QED BY <1>3, <1>8, <1>9, <2>1
<1>14. \A p \in C!Pair : p \notin excused' =>
         p \notin excused /\ C!Destined(p)' = C!Destined(p)
  <2> SUFFICES ASSUME NEW p \in C!Pair, p \notin excused'
               PROVE  p \notin excused /\ C!Destined(p)' = C!Destined(p)
    OBVIOUS
  <2>1. CASE C!Accepted(batch)
    <3>1. rows'[p] = C!After(batch, p, rows[p])
      BY <1>8, <2>1
    <3> QED BY <1>5, <1>7, <1>10, <2>1, <3>1
  <2>2. CASE ~C!Accepted(batch)
    <3>1. rows'[p] = rows[p] /\ (C!Latest(batch, p) = {} \/ C!Latest(rest, p) # {})
      BY <1>9, <2>2
    <3> QED BY <1>6, <1>7, <1>9, <2>2, <3>1
  <2> QED BY <2>1, <2>2
<1>15. C!TypeOK'
  <2>1. excused' \subseteq C!Pair
    BY <1>1, <1>9, <1>10 DEF C!TypeOK
  <2> QED BY <1>1, <1>2, <1>4, <1>13, <2>1 DEF C!TypeOK
<1>16. WritesFit'
  BY <1>1, <1>2, <1>12 DEF WritesFit
<1>17. CoolingsFit' /\ MutexIsHeld'
  BY <1>1, <1>2, AttemptsStand
<1>18. \A p \in C!Pair : /\ C!BeingSet(p)' <=> C!BeingSet(p)
                         /\ C!Cooling(p)' <=> C!Cooling(p)
  BY <1>2 DEF C!BeingSet, C!Cooling
<1>19. C!CoolingIsDurable'
  BY <1>2, <1>14, <1>18 DEF CooldownInv, C!CoolingIsDurable
<1>20. C!NothingComesBack'
  BY <1>2, <1>14, <1>18 DEF CooldownInv, C!NothingComesBack
<1>21. C!RowsHaveKeys'
  <2>1. CASE C!Accepted(batch)
    <3> SUFFICES ASSUME NEW p \in C!Pair, rows'[p] > 0
                 PROVE  p[1] \in keys
      BY <1>2 DEF C!RowsHaveKeys
    <3>1. rows'[p] = C!After(batch, p, rows[p])
      BY <1>8, <2>1
    <3>2. CASE C!Latest(batch, p) = {}
      BY <3>1, <3>2 DEF C!After, CooldownInv, C!RowsHaveKeys
    <3>3. ASSUME NEW i \in C!Latest(batch, p)
          PROVE  p[1] \in keys
      <4>1. i \in DOMAIN batch /\ C!Covers(batch[i].on, p) /\ batch[i].until > 0
        BY <1>4, <3>1, AfterLatest DEF C!Latest
      <4>2. batch[i].on \in C!Pair /\ batch[i].on[1] \in keys
        BY <1>11, <2>1, <4>1 DEF C!Accepted
      <4> QED BY <4>1, <4>2, PairsCoverThemselves
    <3> QED BY <3>2, <3>3
  <2>2. CASE ~C!Accepted(batch)
    BY <1>2, <1>9, <2>2 DEF CooldownInv, C!RowsHaveKeys
  <2> QED BY <2>1, <2>2
<1> QED BY <1>15, <1>16, <1>17, <1>19, <1>20, <1>21 DEF CooldownInv

LEMMA CooldownDeleteKey ==
  ASSUME CooldownInv, NEW k \in Key, C!DeleteKey(k)
  PROVE  CooldownInv'
<1>1. C!TypeOK /\ WritesFit /\ CoolingsFit /\ MutexIsHeld
  BY DEF CooldownInv
<1>2. /\ UNCHANGED <<now, queue, mem, holder, worker, clearer, excused>>
      /\ keys' = keys \ {k} /\ rows' = [p \in C!Pair |-> IF p[1] = k THEN 0 ELSE rows[p]]
  BY DEF C!DeleteKey
<1>3. rows \in [C!Pair -> Nat] /\ queue \in Seq(C!Write) /\ now \in Nat
  BY <1>1 DEF C!TypeOK
<1>4. C!TypeOK' /\ WritesFit' /\ CoolingsFit' /\ MutexIsHeld'
  BY <1>1, <1>2, AttemptsStand DEF C!TypeOK, WritesFit
<1>5. \A p \in C!Pair : p[1] # k => C!Destined(p)' = C!Destined(p)
  BY <1>2 DEF C!Destined
<1>6. \A p \in C!Pair : C!Destined(p)' = C!Destined(p) \/ C!Destined(p)' = 0
  <2> SUFFICES ASSUME NEW p \in C!Pair
               PROVE  C!Destined(p)' = C!Destined(p) \/ C!Destined(p)' = 0
    OBVIOUS
  <2>1. CASE C!Latest(queue, p) = {}
    BY <1>2, <2>1 DEF C!Destined, C!After
  <2>2. CASE C!Latest(queue, p) # {}
    BY <1>2, <2>2 DEF C!Destined, C!After
  <2> QED BY <2>1, <2>2
<1>7. \A p \in C!Pair : /\ C!BeingSet(p)' <=> C!BeingSet(p)
                        /\ C!Cooling(p)' <=> C!Cooling(p)
  BY <1>2 DEF C!BeingSet, C!Cooling
<1>8. C!CoolingIsDurable'
  BY <1>2, <1>5, <1>7 DEF CooldownInv, C!CoolingIsDurable
<1>9. C!NothingComesBack'
  BY <1>2, <1>3, <1>6, <1>7 DEF CooldownInv, C!NothingComesBack
<1>10. C!RowsHaveKeys'
  BY <1>2 DEF CooldownInv, C!RowsHaveKeys
<1> QED BY <1>4, <1>8, <1>9, <1>10 DEF CooldownInv

LEMMA CooldownPrune ==
  ASSUME CooldownInv, C!Prune
  PROVE  CooldownInv'
<1>1. C!TypeOK /\ WritesFit /\ CoolingsFit /\ MutexIsHeld
  BY DEF CooldownInv
<1>2. /\ UNCHANGED <<now, keys, rows, queue, holder, worker, clearer, excused>>
      /\ holder = Nobody
      /\ mem' = [p \in C!Pair |-> IF mem[p].until > now THEN mem[p] ELSE C!NoItem]
  BY DEF C!Prune
<1>3. mem \in [C!Pair -> C!Item] /\ now \in Nat
  BY <1>1 DEF C!TypeOK
<1>4. mem' \in [C!Pair -> C!Item]
  BY <1>2, <1>3 DEF C!NoItem, C!Item
<1>5. C!TypeOK' /\ WritesFit' /\ CoolingsFit' /\ MutexIsHeld'
  BY <1>1, <1>2, <1>4, AttemptsStand DEF C!TypeOK, WritesFit, C!NoItem
<1>6. \A p \in C!Pair : C!Destined(p)' = C!Destined(p) /\ ~C!BeingSet(p) /\ ~C!BeingSet(p)'
  BY <1>2, SameDestiny DEF C!BeingSet
<1>7. \A p \in C!Pair : C!Cooling(p) => C!Cooling(p)' /\ mem'[p] = mem[p]
  BY <1>2, <1>3 DEF C!Cooling, C!NoItem
<1>8. \A p \in C!Pair : C!Cooling(p)' => C!Cooling(p) /\ mem'[p] = mem[p]
  BY <1>2, <1>3 DEF C!Cooling, C!NoItem
<1>9. C!CoolingIsDurable'
  BY <1>2, <1>6, <1>8 DEF CooldownInv, C!CoolingIsDurable
<1>10. C!NothingComesBack'
  <2> SUFFICES ASSUME NEW q \in C!Pair, C!Destined(q)' > now', q \notin excused',
                      \A e \in Clearer : \A g \in clearer'[e] : ~C!Covers(g, q)
               PROVE  mem'[q].until = C!Destined(q)'
    BY DEF C!NothingComesBack
  <2>1. mem[q].until = C!Destined(q) /\ C!Destined(q) > now
    BY <1>2, <1>6 DEF CooldownInv, C!NothingComesBack
  <2>2. C!Cooling(q)
    BY <2>1 DEF C!Cooling
  <2> QED BY <1>6, <1>7, <2>1, <2>2
<1>11. C!RowsHaveKeys'
  BY <1>2 DEF CooldownInv, C!RowsHaveKeys
<1> QED BY <1>5, <1>9, <1>10, <1>11 DEF CooldownInv

LEMMA CooldownPruneRows ==
  ASSUME CooldownInv, C!PruneRows
  PROVE  CooldownInv'
<1>1. C!TypeOK /\ WritesFit /\ CoolingsFit /\ MutexIsHeld
  BY DEF CooldownInv
<1>2. /\ UNCHANGED <<now, keys, queue, mem, holder, worker, clearer, excused>>
      /\ rows' = [p \in C!Pair |-> IF rows[p] < now THEN 0 ELSE rows[p]]
  BY DEF C!PruneRows
<1>3. rows \in [C!Pair -> Nat] /\ queue \in Seq(C!Write) /\ now \in Nat
  BY <1>1 DEF C!TypeOK
<1>4. C!TypeOK' /\ WritesFit' /\ CoolingsFit' /\ MutexIsHeld'
  BY <1>1, <1>2, <1>3, AttemptsStand DEF C!TypeOK, WritesFit
<1>5. \A p \in C!Pair : \/ C!Destined(p)' = C!Destined(p)
                        \/ C!Destined(p)' = 0 /\ C!Destined(p) < now
  <2> SUFFICES ASSUME NEW p \in C!Pair
               PROVE  \/ C!Destined(p)' = C!Destined(p)
                      \/ C!Destined(p)' = 0 /\ C!Destined(p) < now
    OBVIOUS
  <2>1. CASE C!Latest(queue, p) = {}
    BY <1>2, <2>1 DEF C!Destined, C!After
  <2>2. CASE C!Latest(queue, p) # {}
    BY <1>2, <2>2 DEF C!Destined, C!After
  <2> QED BY <2>1, <2>2
<1>6. \A p \in C!Pair : C!BeingSet(p)' <=> C!BeingSet(p)
  BY <1>2 DEF C!BeingSet
<1>7. C!CoolingIsDurable'
  <2> SUFFICES ASSUME NEW q \in C!Pair, C!Cooling(q)', q[1] \in keys', q \notin excused',
                      ~C!BeingSet(q)'
               PROVE  C!Destined(q)' = mem'[q].until
    BY DEF C!CoolingIsDurable
  <2>1. C!Cooling(q) /\ C!Destined(q) = mem[q].until
    BY <1>2, <1>6 DEF CooldownInv, C!CoolingIsDurable, C!Cooling
  <2>2. mem[q].until \in Nat /\ mem[q].until > now
    BY <1>1, <2>1 DEF C!Cooling, C!TypeOK, C!Item
  <2> QED BY <1>2, <1>3, <1>5, <2>1, <2>2
<1>8. C!NothingComesBack'
  BY <1>2, <1>3, <1>5, <1>6 DEF CooldownInv, C!NothingComesBack
<1>9. C!RowsHaveKeys'
  BY <1>2 DEF CooldownInv, C!RowsHaveKeys
<1> QED BY <1>4, <1>7, <1>8, <1>9 DEF CooldownInv

LEMMA CooldownRestart ==
  ASSUME CooldownInv, C!Restart
  PROVE  CooldownInv'
<1>1. C!TypeOK /\ C!RowsHaveKeys
  BY DEF CooldownInv
<1>2. /\ queue' = <<>> /\ holder' = Nobody /\ excused' = {}
      /\ mem' = [p \in C!Pair |-> IF rows[p] > now THEN [until |-> rows[p], hits |-> 1]
                                  ELSE C!NoItem]
      /\ worker' = [w \in Worker |-> C!IdleTask]
      /\ clearer' = [d \in Clearer |-> {}]
      /\ UNCHANGED <<now, keys, rows>>
  BY DEF C!Restart
<1>3. rows \in [C!Pair -> Nat] /\ now \in Nat
  BY <1>1 DEF C!TypeOK
<1>4. mem' \in [C!Pair -> C!Item]
  BY <1>2, <1>3 DEF C!NoItem, C!Item
<1>5. C!TypeOK'
  BY <1>1, <1>2, <1>4, IdleTasks, CooldownConstants DEF C!TypeOK
<1>6. WritesFit' /\ CoolingsFit' /\ MutexIsHeld'
  BY <1>2, IdleTasks, CooldownConstants DEF WritesFit, CoolingsFit, MutexIsHeld, C!NoItem
<1>7. \A p \in C!Pair : C!Destined(p)' = rows[p]
  BY <1>2 DEF C!Destined, C!After, C!Latest
<1>8. C!CoolingIsDurable' /\ C!NothingComesBack'
  BY <1>2, <1>3, <1>7 DEF C!CoolingIsDurable, C!NothingComesBack, C!Cooling, C!NoItem
<1>9. C!RowsHaveKeys'
  BY <1>1, <1>2 DEF C!RowsHaveKeys
<1> QED BY <1>5, <1>6, <1>8, <1>9 DEF CooldownInv

LEMMA CooldownTick ==
  ASSUME CooldownInv, C!Tick
  PROVE  CooldownInv'
<1>1. C!TypeOK /\ WritesFit /\ CoolingsFit /\ MutexIsHeld
  BY DEF CooldownInv
<1>2. UNCHANGED <<keys, rows, queue, mem, holder, worker, clearer, excused>> /\ now' = now + 1
  BY DEF C!Tick
<1>3. now \in Nat /\ mem \in [C!Pair -> C!Item] /\ rows \in [C!Pair -> Nat]
      /\ queue \in Seq(C!Write)
  BY <1>1 DEF C!TypeOK
<1>4. C!TypeOK' /\ WritesFit' /\ CoolingsFit' /\ MutexIsHeld'
  BY <1>1, <1>2, AttemptsStand DEF C!TypeOK, WritesFit
<1>5. \A p \in C!Pair : /\ C!Destined(p)' = C!Destined(p) /\ C!Destined(p) \in Nat
                        /\ C!BeingSet(p)' <=> C!BeingSet(p)
  BY <1>2, <1>3, SameDestiny, AfterIsNat DEF C!BeingSet, C!Destined
<1>6. \A p \in C!Pair : C!Cooling(p)' => C!Cooling(p)
  BY <1>2, <1>3 DEF C!Cooling, C!Item
<1>7. C!CoolingIsDurable'
  BY <1>2, <1>5, <1>6 DEF CooldownInv, C!CoolingIsDurable
<1>8. C!NothingComesBack'
  <2> SUFFICES ASSUME NEW q \in C!Pair, C!Destined(q)' > now', q \notin excused',
                      ~C!BeingSet(q)',
                      \A e \in Clearer : \A g \in clearer'[e] : ~C!Covers(g, q)
               PROVE  mem'[q].until = C!Destined(q)'
    BY DEF C!NothingComesBack
  <2>1. C!Destined(q) > now
    BY <1>2, <1>3, <1>5
  <2> QED BY <1>2, <1>5, <2>1 DEF CooldownInv, C!NothingComesBack
<1>9. C!RowsHaveKeys'
  BY <1>2 DEF CooldownInv, C!RowsHaveKeys
<1> QED BY <1>4, <1>7, <1>8, <1>9 DEF CooldownInv

LEMMA CooldownStep == CooldownInv /\ C!Next => CooldownInv'
<1> SUFFICES ASSUME CooldownInv, C!Next
             PROVE  CooldownInv'
  OBVIOUS
<1>1. ASSUME NEW w \in Worker, C!Step(w)
      PROVE  CooldownInv'
  BY <1>1, CooldownAttempts, CooldownInsert
<1>2. ASSUME NEW w \in Worker, C!Send(w)
      PROVE  CooldownInv'
  BY <1>2, CooldownSend
<1>3. ASSUME NEW d \in Clearer, C!SendClear(d)
      PROVE  CooldownInv'
  BY <1>3, CooldownSendClear
<1>4. ASSUME NEW d \in Clearer, NEW f \in C!Filter, C!Erase(d, f)
      PROVE  CooldownInv'
  BY <1>4, CooldownErase
<1>5. CASE C!WriterStep
  BY <1>5, CooldownCommit DEF C!WriterStep
<1>6. ASSUME NEW k \in Key, C!DeleteKey(k)
      PROVE  CooldownInv'
  BY <1>6, CooldownDeleteKey
<1>7. CASE C!Prune \/ C!PruneRows \/ C!Restart \/ C!Tick
  BY <1>7, CooldownPrune, CooldownPruneRows, CooldownRestart, CooldownTick
<1> QED BY <1>1, <1>2, <1>3, <1>4, <1>5, <1>6, <1>7 DEF C!Next

(***************************************************************************)
(* Sessions: where the writes of a queue leave a session.                  *)
(***************************************************************************)
LEMMA SessionsConstants ==
  /\ None \notin Target
  /\ Interval \in Nat \ {0} /\ Ttl \in Nat \ {0}
  /\ QueueCap \in Nat \ {0} /\ SessionsMaxNow \in Nat
BY RoutingAssumption DEF S!SessionsAssumption

SessionWrite == [bind: SUBSET S!Binding, before: Nat]
Binds(x, s) == s \in {y.session : y \in x.bind}

\* S!Destined, of any queue and any row.
LastBinding(q, s) ==
  {i \in DOMAIN q : Binds(q[i], s) /\ \A j \in DOMAIN q : j > i => ~Binds(q[j], s)}
Aim(q, to, s) ==
  IF LastBinding(q, s) = {} THEN to
  ELSE CHOOSE d \in Target : \E i \in LastBinding(q, s) : [session |-> s, to |-> d] \in q[i].bind

LEMMA DestinedIsAim ==
  ASSUME NEW s
  PROVE  /\ S!Destined(s) = Aim(queue, rows[s].to, s)
         /\ S!Destined(s)' = Aim(queue', rows'[s].to, s)
BY DEF S!Destined, S!Latest, Aim, LastBinding, Binds

LEMMA AimIsRow ==
  ASSUME NEW q, NEW s, NEW to, \A i \in DOMAIN q : ~Binds(q[i], s)
  PROVE  Aim(q, to, s) = to
BY DEF Aim, LastBinding

\* A write that binds one session, and after which none does.
IsLast(q, i, y, s) ==
  /\ i \in DOMAIN q /\ y \in q[i].bind /\ y.session = s
  /\ \A x \in q[i].bind : x = y
  /\ \A j \in DOMAIN q : j > i => ~Binds(q[j], s)

LEMMA AimIsLast ==
  ASSUME NEW q \in Seq(SessionWrite), NEW s, NEW to, NEW i, NEW y, IsLast(q, i, y, s)
  PROVE  Aim(q, to, s) = y.to
<1>1. Binds(q[i], s) /\ DOMAIN q \subseteq Nat /\ q[i] \in SessionWrite
  BY DEF IsLast, Binds
<1>2. i \in LastBinding(q, s) /\ \A j \in LastBinding(q, s) : j = i
  BY <1>1 DEF LastBinding, IsLast
<1>3. y \in S!Binding /\ y = [session |-> s, to |-> y.to] /\ y.to \in Target
  BY <1>1 DEF SessionWrite, S!Binding, IsLast
<1>4. ASSUME NEW d \in Target, [session |-> s, to |-> d] \in q[i].bind
      PROVE  d = y.to
  <2>1. [session |-> s, to |-> d] = y
    BY <1>4 DEF IsLast
  <2> QED BY <2>1
<1>5. \A d \in Target : (\E j \in LastBinding(q, s) : [session |-> s, to |-> d] \in q[j].bind)
                          => d = y.to
  BY <1>2, <1>4
<1>6. \E j \in LastBinding(q, s) : [session |-> s, to |-> y.to] \in q[j].bind
  BY <1>2, <1>3 DEF IsLast
<1>7. (CHOOSE d \in Target :
         \E j \in LastBinding(q, s) : [session |-> s, to |-> d] \in q[j].bind) = y.to
  BY <1>3, <1>5, <1>6
<1> QED BY <1>2, <1>7 DEF Aim

LEMMA AimCases ==
  ASSUME NEW q \in Seq(SessionWrite), \A i \in DOMAIN q : \A x, y \in q[i].bind : x = y, NEW s
  PROVE  \/ \A i \in DOMAIN q : ~Binds(q[i], s)
         \/ \E i, y : IsLast(q, i, y, s)
<1> SUFFICES ASSUME NEW k \in DOMAIN q, Binds(q[k], s)
             PROVE  \E i, y : IsLast(q, i, y, s)
  OBVIOUS
<1> DEFINE X == {j \in DOMAIN q : Binds(q[j], s)}
<1>1. X \subseteq 1..Len(q) /\ X # {} /\ Len(q) \in Nat
  OBVIOUS
<1>2. PICK i \in X : \A j \in X : j <= i
  <2> HIDE DEF X
  <2> QED BY <1>1, LastExists
<1>3. PICK y \in q[i].bind : y.session = s
  BY <1>2 DEF Binds
<1>4. \A x \in q[i].bind : x = y
  BY <1>2, <1>3
<1>5. \A j \in DOMAIN q : j > i => ~Binds(q[j], s)
  BY <1>2
<1>6. IsLast(q, i, y, s)
  BY <1>2, <1>3, <1>4, <1>5 DEF IsLast
<1> QED BY <1>6

\* A write is queued that binds a session, or none.
LEMMA AimAppend ==
  ASSUME NEW q \in Seq(SessionWrite), \A i \in DOMAIN q : \A x, y \in q[i].bind : x = y,
         NEW x \in SessionWrite, NEW to, NEW s
  PROVE  /\ ~Binds(x, s) => Aim(Append(q, x), to, s) = Aim(q, to, s)
         /\ \A y : (x.bind = {y} /\ y.session = s) => Aim(Append(q, x), to, s) = y.to
<1>1. PICK t : t = Append(q, x)
  OBVIOUS
<1>2. /\ t \in Seq(SessionWrite) /\ Len(q) \in Nat
      /\ DOMAIN t = 1..Len(q) + 1 /\ t[Len(q) + 1] = x
      /\ DOMAIN q = 1..Len(q)
      /\ \A i \in DOMAIN q : t[i] = q[i]
  BY <1>1
<1>3. ASSUME ~Binds(x, s)
      PROVE  Aim(t, to, s) = Aim(q, to, s)
  <2>1. CASE \A i \in DOMAIN q : ~Binds(q[i], s)
    <3>1. \A i \in DOMAIN t : ~Binds(t[i], s)
      BY <1>2, <1>3, <2>1
    <3> QED BY <2>1, <3>1, AimIsRow
  <2>2. ASSUME NEW i, NEW y, IsLast(q, i, y, s)
        PROVE  Aim(t, to, s) = Aim(q, to, s)
    <3>1. IsLast(t, i, y, s)
      BY <1>2, <1>3, <2>2 DEF IsLast
    <3> QED BY <1>2, <2>2, <3>1, AimIsLast
  <2> QED BY <2>1, <2>2, AimCases
<1>4. ASSUME NEW y, x.bind = {y}, y.session = s
      PROVE  Aim(t, to, s) = y.to
  <2>1. IsLast(t, Len(q) + 1, y, s)
    BY <1>2, <1>4 DEF IsLast
  <2> QED BY <1>2, <2>1, AimIsLast
<1>5. /\ ~Binds(x, s) => Aim(t, to, s) = Aim(q, to, s)
      /\ \A y : (x.bind = {y} /\ y.session = s) => Aim(t, to, s) = y.to
  BY <1>3, <1>4
<1> QED BY <1>1, <1>5

\* The oldest write leaves the queue: only a session that it alone binds aims elsewhere,
\* unless its row has taken the write.
LEMMA AimTail ==
  ASSUME NEW q \in Seq(SessionWrite), \A i \in DOMAIN q : \A x, y \in q[i].bind : x = y,
         q # <<>>, NEW to, NEW new, NEW s,
         \/ ~Binds(Head(q), s) /\ new = to
         \/ \E y \in Head(q).bind : y.session = s /\ new = y.to
  PROVE  Aim(Tail(q), new, s) = Aim(q, to, s)
<1>1. PICK t : t = Tail(q)
  OBVIOUS
<1>2. /\ t \in Seq(SessionWrite) /\ Len(q) \in Nat /\ Len(q) >= 1 /\ Len(t) = Len(q) - 1
      /\ DOMAIN t = 1..Len(q) - 1 /\ DOMAIN q = 1..Len(q)
      /\ \A i \in DOMAIN t : t[i] = q[i + 1]
      /\ Head(q) = q[1]
  BY <1>1
<1>3. \A i \in DOMAIN t : \A x, y \in t[i].bind : x = y
  BY <1>2
<1>4. CASE \A i \in DOMAIN t : ~Binds(t[i], s)
  <2>1. Aim(t, new, s) = new
    BY <1>4, AimIsRow
  <2>2. \A j \in DOMAIN q : j > 1 => ~Binds(q[j], s)
    <3> SUFFICES ASSUME NEW j \in DOMAIN q, j > 1
                 PROVE  ~Binds(q[j], s)
      OBVIOUS
    <3>1. j - 1 \in DOMAIN t /\ (j - 1) + 1 = j
      BY <1>2
    <3>2. t[j - 1] = q[j]
      BY <1>2, <3>1
    <3> QED BY <1>4, <3>1, <3>2
  <2>3. CASE ~Binds(Head(q), s) /\ new = to
    <3>1. \A j \in DOMAIN q : ~Binds(q[j], s)
      BY <1>2, <2>2, <2>3
    <3>2. Aim(q, to, s) = to
      BY <3>1, AimIsRow
    <3> QED BY <1>1, <2>1, <2>3, <3>2
  <2>4. ASSUME NEW y \in Head(q).bind, y.session = s, new = y.to
        PROVE  Aim(t, new, s) = Aim(q, to, s)
    <3>1. IsLast(q, 1, y, s)
      BY <1>2, <2>2, <2>4 DEF IsLast
    <3> QED BY <2>1, <2>4, <3>1, AimIsLast
  <2> QED BY <1>1, <2>3, <2>4
<1>5. ASSUME NEW i, NEW y, IsLast(t, i, y, s)
      PROVE  Aim(t, new, s) = Aim(q, to, s)
  <2>1. i \in 1..Len(q) - 1 /\ i + 1 \in DOMAIN q /\ t[i] = q[i + 1]
    BY <1>2, <1>5 DEF IsLast
  <2>2. \A j \in DOMAIN q : j > i + 1 => ~Binds(q[j], s)
    <3> SUFFICES ASSUME NEW j \in DOMAIN q, j > i + 1
                 PROVE  ~Binds(q[j], s)
      OBVIOUS
    <3>1. j - 1 \in DOMAIN t /\ (j - 1) + 1 = j /\ j - 1 > i
      BY <1>2, <2>1
    <3>2. t[j - 1] = q[j]
      BY <1>2, <3>1
    <3> QED BY <1>5, <3>1, <3>2 DEF IsLast
  <2>3. IsLast(q, i + 1, y, s)
    BY <1>5, <2>1, <2>2 DEF IsLast
  <2> QED BY <1>2, <1>5, <2>3, AimIsLast
<1> QED BY <1>1, <1>2, <1>3, <1>4, <1>5, AimCases

(***************************************************************************)
(* Sessions: the inductive invariant.                                      *)
(***************************************************************************)
\* A write, and what a set() has still to queue, is about one binding.
BindingsFit ==
  /\ \A i \in DOMAIN queue : \A x, y \in queue[i].bind : x = y
  /\ \A w \in Worker : \A x, y \in worker[w] : x = y

SessionsInv == S!TypeOK /\ BindingsFit /\ S!BindingIsDurable

SessionsTypes ==
  /\ now \in Nat
  /\ rows \in [Session -> [to: Target \cup {None}, at: Nat]]
  /\ queue \in Seq(SessionWrite) /\ Len(queue) <= QueueCap
  /\ map \in [Session -> [to: Target \cup {None}, updated: Nat, persisted: Nat]]
  /\ worker \in [Worker -> SUBSET S!Binding]
  /\ pruner \in SUBSET Nat
  /\ written \in [Session -> Nat]
  /\ excused \subseteq Session

LEMMA SessionsTyped ==
  /\ S!TypeOK <=> SessionsTypes
  /\ S!TypeOK' <=> SessionsTypes'
BY DEF S!TypeOK, SessionsTypes, SessionWrite

LEMMA SessionsBegin == S!Init => SessionsInv
<1> SUFFICES ASSUME S!Init
             PROVE  SessionsInv
  OBVIOUS
<1>1. SessionsTypes
  BY SessionsConstants DEF S!Init, SessionsTypes, S!NoRow, S!NoEntry, SessionWrite
<1>2. BindingsFit /\ S!BindingIsDurable
  BY DEF S!Init, BindingsFit, S!BindingIsDurable, S!NoEntry
<1> QED BY <1>1, <1>2, SessionsTyped DEF SessionsInv

\* What must be shown of a session that the step may have touched.
LEMMA DurableStep ==
  ASSUME \A s \in Session :
           (map'[s].to # None /\ s \notin excused' /\ ~S!BeingSent(s)') =>
             Aim(queue', rows'[s].to, s) = map'[s].to
  PROVE  S!BindingIsDurable'
BY DestinedIsAim DEF S!BindingIsDurable

LEMMA SessionsSet ==
  ASSUME SessionsInv, NEW w \in Worker, NEW s \in Session, NEW d \in Target, S!Set(w, s, d)
  PROVE  SessionsInv'
<1>1. SessionsTypes /\ BindingsFit
  BY SessionsTyped DEF SessionsInv
<1>2. UNCHANGED <<now, rows, queue, pruner, excused>> /\ worker[w] = {}
  BY DEF S!Set
<1>3. PICK p \in Nat : p = IF S!Persists(s, d) THEN now ELSE 0
  BY <1>1 DEF SessionsTypes
<1>4. /\ map' \in [Session -> [to: Target \cup {None}, updated: Nat, persisted: Nat]]
      /\ map'[s].to = d
      /\ \A z \in Session : z # s => map'[z] = map[z]
  <2>1. map' = [map EXCEPT ![s] = [to |-> d, updated |-> now, persisted |-> p]]
    BY <1>3 DEF S!Set
  <2> QED BY <1>1, <2>1 DEF SessionsTypes
<1>5. PICK ys : ys = IF S!Persists(s, d) THEN {[session |-> s, to |-> d]} ELSE {}
  OBVIOUS
<1>6. /\ worker' = [worker EXCEPT ![w] = ys] /\ ys \in SUBSET S!Binding
      /\ \A x, y \in ys : x = y
  BY <1>5 DEF S!Set, S!Binding
<1>7. /\ worker' \in [Worker -> SUBSET S!Binding] /\ worker'[w] = ys
      /\ \A v \in Worker : v # w => worker'[v] = worker[v]
  BY <1>1, <1>6 DEF SessionsTypes
<1>8. written' \in [Session -> Nat]
  <2>1. written' = [written EXCEPT ![s] = IF S!Persists(s, d) THEN now ELSE written[s]]
    BY <1>1 DEF S!Set, SessionsTypes
  <2> QED BY <1>1, <2>1 DEF SessionsTypes
<1>9. SessionsTypes'
  BY <1>1, <1>2, <1>4, <1>7, <1>8 DEF SessionsTypes
<1>10. BindingsFit'
  BY <1>1, <1>2, <1>6, <1>7 DEF BindingsFit
<1>11. ASSUME NEW z \in Session, map'[z].to # None, z \notin excused', ~S!BeingSent(z)'
       PROVE  Aim(queue', rows'[z].to, z) = map'[z].to
  <2>1. ~S!BeingSent(z)
    BY <1>2, <1>7, <1>11 DEF S!BeingSent
  <2>2. CASE z # s
    BY <1>2, <1>4, <1>11, <2>1, <2>2, DestinedIsAim DEF SessionsInv, S!BindingIsDurable
  <2>3. CASE z = s
    <3>1. ~S!Persists(s, d)
      <4>1. S!Persists(s, d) => ys = {[session |-> s, to |-> d]}
        BY <1>5
      <4>2. ys = {[session |-> s, to |-> d]} => S!BeingSent(z)'
        BY <1>7, <2>3 DEF S!BeingSent
      <4> QED BY <1>11, <4>1, <4>2
    <3>2. map[s].to = d /\ d # None
      BY <3>1, SessionsConstants DEF S!Persists
    <3>3. S!Destined(s) = d
      BY <1>2, <1>11, <2>1, <2>3, <3>2 DEF SessionsInv, S!BindingIsDurable
    <3> QED BY <1>2, <1>4, <2>3, <3>3, DestinedIsAim
  <2> QED BY <2>2, <2>3
<1>12. S!BindingIsDurable'
  BY <1>11, DurableStep
<1> QED BY <1>9, <1>10, <1>12, SessionsTyped DEF SessionsInv

\* What is queued has one binding or none.
LEMMA WriteQueued ==
  ASSUME SessionsTypes, BindingsFit, NEW x \in SessionWrite, \A y, z \in x.bind : y = z,
         queue' = Append(queue, x), Len(queue) < QueueCap
  PROVE  /\ queue' \in Seq(SessionWrite) /\ Len(queue') <= QueueCap
         /\ \A i \in DOMAIN queue' : \A y, z \in queue'[i].bind : y = z
<1>1. queue \in Seq(SessionWrite)
  BY DEF SessionsTypes
<1>2. queue' \in Seq(SessionWrite) /\ Len(queue') <= QueueCap
  BY <1>1, SessionsConstants
<1>3. \A i \in DOMAIN queue' : (i \in DOMAIN queue /\ queue'[i] = queue[i]) \/ queue'[i] = x
  BY <1>1
<1> QED BY <1>2, <1>3 DEF BindingsFit

LEMMA SessionsSend ==
  ASSUME SessionsInv, NEW w \in Worker, S!Send(w)
  PROVE  SessionsInv'
<1>1. SessionsTypes /\ BindingsFit
  BY SessionsTyped DEF SessionsInv
<1>2. UNCHANGED <<now, rows, map, pruner, written>> /\ worker' = [worker EXCEPT ![w] = {}]
  BY DEF S!Send
<1>3. /\ worker' \in [Worker -> SUBSET S!Binding] /\ worker'[w] = {}
      /\ \A v \in Worker : v # w => worker'[v] = worker[v]
  BY <1>1, <1>2 DEF SessionsTypes
<1>4. PICK y \in worker[w] :
        IF Len(queue) < QueueCap
        THEN /\ queue' = Append(queue, [bind |-> {y}, before |-> 0])
             /\ excused' = IF map[y.session].to = y.to
                           THEN excused \ {y.session} ELSE excused \cup {y.session}
        ELSE queue' = queue /\ excused' = excused \cup {y.session}
  BY DEF S!Send
<1>5. y \in S!Binding /\ y.session \in Session /\ worker[w] = {y}
  BY <1>1 DEF SessionsTypes, S!Binding, BindingsFit
<1>6. excused' \subseteq Session
  BY <1>1, <1>4, <1>5 DEF SessionsTypes
<1>7. \A z \in Session : z # y.session =>
        /\ S!BeingSent(z)' <=> S!BeingSent(z)
        /\ z \in excused' <=> z \in excused
  BY <1>3, <1>4, <1>5 DEF S!BeingSent
<1>8. CASE Len(queue) < QueueCap
  <2>1. PICK x \in SessionWrite : x = [bind |-> {y}, before |-> 0]
    BY <1>5 DEF SessionWrite
  <2>2. queue' = Append(queue, x) /\ \A u, v \in x.bind : u = v
    BY <1>4, <1>8, <2>1
  <2>3. /\ queue' \in Seq(SessionWrite) /\ Len(queue') <= QueueCap
        /\ \A i \in DOMAIN queue' : \A u, z \in queue'[i].bind : u = z
    BY <1>1, <1>8, <2>2, WriteQueued
  <2>4. SessionsTypes'
    BY <1>1, <1>2, <1>3, <1>6, <2>3 DEF SessionsTypes
  <2>5. BindingsFit'
    BY <1>1, <1>3, <2>3 DEF BindingsFit
  <2>6. \A z \in Session :
          /\ ~Binds(x, z) => Aim(queue', rows[z].to, z) = Aim(queue, rows[z].to, z)
          /\ y.session = z => Aim(queue', rows[z].to, z) = y.to
    <3> SUFFICES ASSUME NEW z \in Session
                 PROVE  /\ ~Binds(x, z) =>
                              Aim(queue', rows[z].to, z) = Aim(queue, rows[z].to, z)
                        /\ y.session = z => Aim(queue', rows[z].to, z) = y.to
      OBVIOUS
    <3>1. queue \in Seq(SessionWrite) /\ \A i \in DOMAIN queue : \A u, v \in queue[i].bind : u = v
      BY <1>1 DEF SessionsTypes, BindingsFit
    <3>2. x.bind = {y}
      BY <2>1
    <3> QED BY <2>2, <3>1, <3>2, AimAppend
  <2>7. ASSUME NEW z \in Session, map'[z].to # None, z \notin excused', ~S!BeingSent(z)'
        PROVE  Aim(queue', rows'[z].to, z) = map'[z].to
    <3>1. CASE z = y.session
      <4>1. map[z].to = y.to
        BY <1>4, <1>8, <2>7, <3>1
      <4> QED BY <1>2, <2>6, <3>1, <4>1
    <3>2. CASE z # y.session
      <4>1. ~Binds(x, z)
        BY <2>1, <3>2 DEF Binds
      <4>2. Aim(queue, rows[z].to, z) = map[z].to
        BY <1>2, <1>7, <2>7, <3>2, DestinedIsAim DEF SessionsInv, S!BindingIsDurable
      <4> QED BY <1>2, <2>6, <4>1, <4>2
    <3> QED BY <3>1, <3>2
  <2>8. S!BindingIsDurable'
    BY <2>7, DurableStep
  <2> QED BY <2>4, <2>5, <2>8, SessionsTyped DEF SessionsInv
<1>9. CASE ~(Len(queue) < QueueCap)
  <2>1. queue' = queue /\ excused' = excused \cup {y.session}
    BY <1>4, <1>9
  <2>2. SessionsTypes' /\ BindingsFit'
    BY <1>1, <1>2, <1>3, <1>6, <2>1 DEF SessionsTypes, BindingsFit
  <2>3. ASSUME NEW z \in Session, map'[z].to # None, z \notin excused', ~S!BeingSent(z)'
        PROVE  Aim(queue', rows'[z].to, z) = map'[z].to
    <3>1. z # y.session
      BY <2>1, <2>3
    <3> QED BY <1>2, <1>7, <2>1, <2>3, <3>1, DestinedIsAim
            DEF SessionsInv, S!BindingIsDurable
  <2>4. S!BindingIsDurable'
    BY <2>3, DurableStep
  <2> QED BY <2>2, <2>4, SessionsTyped DEF SessionsInv
<1> QED BY <1>8, <1>9

LEMMA SessionsPrune ==
  ASSUME SessionsInv, S!Prune
  PROVE  SessionsInv'
<1>1. SessionsTypes /\ BindingsFit
  BY SessionsTyped DEF SessionsInv
<1>2. UNCHANGED <<now, rows, queue, worker, written, excused>>
  BY DEF S!Prune
<1>3. \A s \in Session : map'[s] = map[s] \/ map'[s] = S!NoEntry
  BY DEF S!Prune
<1>4. map' \in [Session -> [to: Target \cup {None}, updated: Nat, persisted: Nat]]
  BY <1>1 DEF S!Prune, S!NoEntry, SessionsTypes
<1>5. pruner' \in SUBSET Nat
  <2>1. (IF now > Ttl THEN now - Ttl ELSE 0) \in Nat
    BY <1>1, SessionsConstants DEF SessionsTypes
  <2> QED BY <2>1 DEF S!Prune
<1>6. SessionsTypes' /\ BindingsFit'
  BY <1>1, <1>2, <1>4, <1>5 DEF SessionsTypes, BindingsFit
<1>7. ASSUME NEW s \in Session, map'[s].to # None, s \notin excused', ~S!BeingSent(s)'
      PROVE  Aim(queue', rows'[s].to, s) = map'[s].to
  <2>1. map'[s] = map[s] /\ ~S!BeingSent(s)
    BY <1>2, <1>3, <1>7 DEF S!NoEntry, S!BeingSent
  <2> QED BY <1>2, <1>7, <2>1, DestinedIsAim DEF SessionsInv, S!BindingIsDurable
<1>8. S!BindingIsDurable'
  BY <1>7, DurableStep
<1> QED BY <1>6, <1>8, SessionsTyped DEF SessionsInv

LEMMA SessionsSendPrune ==
  ASSUME SessionsInv, S!SendPrune
  PROVE  SessionsInv'
<1>1. SessionsTypes /\ BindingsFit
  BY SessionsTyped DEF SessionsInv
<1>2. UNCHANGED <<now, rows, map, worker, written, excused>> /\ Len(queue) < QueueCap
      /\ pruner' = {}
  BY DEF S!SendPrune
<1>3. PICK t \in pruner : queue' = Append(queue, [bind |-> {}, before |-> t])
  BY DEF S!SendPrune
<1>4. PICK x \in SessionWrite : x = [bind |-> {}, before |-> t]
  BY <1>1 DEF SessionsTypes, SessionWrite
<1>5. queue' = Append(queue, x) /\ x.bind = {}
  BY <1>3, <1>4
<1>6. /\ queue' \in Seq(SessionWrite) /\ Len(queue') <= QueueCap
      /\ \A i \in DOMAIN queue' : \A y, z \in queue'[i].bind : y = z
  BY <1>1, <1>2, <1>5, WriteQueued
<1>7. SessionsTypes' /\ BindingsFit'
  BY <1>1, <1>2, <1>6 DEF SessionsTypes, BindingsFit
<1>8. ASSUME NEW s \in Session, map'[s].to # None, s \notin excused', ~S!BeingSent(s)'
      PROVE  Aim(queue', rows'[s].to, s) = map'[s].to
  <2>1. queue \in Seq(SessionWrite) /\ \A i \in DOMAIN queue : \A y, z \in queue[i].bind : y = z
    BY <1>1 DEF SessionsTypes, BindingsFit
  <2>2. ~Binds(x, s)
    BY <1>5 DEF Binds
  <2>3. Aim(queue', rows[s].to, s) = Aim(queue, rows[s].to, s)
    BY <1>5, <2>1, <2>2, AimAppend
  <2>4. ~S!BeingSent(s)
    BY <1>2, <1>8 DEF S!BeingSent
  <2> QED BY <1>2, <1>8, <2>3, <2>4, DestinedIsAim DEF SessionsInv, S!BindingIsDurable
<1>9. S!BindingIsDurable'
  BY <1>8, DurableStep
<1> QED BY <1>7, <1>9, SessionsTyped DEF SessionsInv

\* A row is forgotten, or stands, or the session is excused from then on.
LEMMA RowsForgotten ==
  ASSUME SessionsTypes, NEW t, S!Forget(t)
  PROVE  /\ rows' \in [Session -> [to: Target \cup {None}, at: Nat]]
         /\ excused' \subseteq Session
         /\ \A s \in Session : (map[s].to # None /\ s \notin excused') =>
              rows'[s] = rows[s] /\ s \notin excused
<1>1. PICK old : old = {s \in Session : rows[s].to # None /\ rows[s].at < t}
  OBVIOUS
<1>2. /\ rows' = [s \in Session |-> IF s \in old THEN S!NoRow ELSE rows[s]]
      /\ excused' = excused \cup {s \in old : map[s].to # None}
  BY <1>1 DEF S!Forget
<1>3. S!NoRow \in [to: Target \cup {None}, at: Nat]
  BY DEF S!NoRow
<1> QED BY <1>1, <1>2, <1>3 DEF SessionsTypes

LEMMA SessionsPruneRows ==
  ASSUME SessionsInv, S!PruneRows
  PROVE  SessionsInv'
<1>1. SessionsTypes /\ BindingsFit
  BY SessionsTyped DEF SessionsInv
<1>2. UNCHANGED <<now, queue, map, worker, pruner, written>> /\ S!Forget(now - Ttl)
  BY DEF S!PruneRows
<1>3. /\ rows' \in [Session -> [to: Target \cup {None}, at: Nat]]
      /\ excused' \subseteq Session
      /\ \A s \in Session : (map[s].to # None /\ s \notin excused') =>
           rows'[s] = rows[s] /\ s \notin excused
  BY <1>1, <1>2, RowsForgotten
<1>4. SessionsTypes' /\ BindingsFit'
  BY <1>1, <1>2, <1>3 DEF SessionsTypes, BindingsFit
<1>5. ASSUME NEW s \in Session, map'[s].to # None, s \notin excused', ~S!BeingSent(s)'
      PROVE  Aim(queue', rows'[s].to, s) = map'[s].to
  <2>1. ~S!BeingSent(s) /\ rows'[s] = rows[s] /\ s \notin excused
    BY <1>2, <1>3, <1>5 DEF S!BeingSent
  <2> QED BY <1>2, <1>5, <2>1, DestinedIsAim DEF SessionsInv, S!BindingIsDurable
<1>6. S!BindingIsDurable'
  BY <1>5, DurableStep
<1> QED BY <1>4, <1>6, SessionsTyped DEF SessionsInv

\* The oldest write is applied, or lost.
LEMMA WriteTaken ==
  ASSUME SessionsTypes, BindingsFit, queue # <<>>, queue' = Tail(queue)
  PROVE  /\ Head(queue) \in SessionWrite
         /\ \A y, z \in Head(queue).bind : y = z
         /\ queue' \in Seq(SessionWrite) /\ Len(queue') <= QueueCap
         /\ \A i \in DOMAIN queue' : \A y, z \in queue'[i].bind : y = z
<1>1. queue \in Seq(SessionWrite) /\ Len(queue) <= QueueCap
  BY DEF SessionsTypes
<1>2. /\ Head(queue) = queue[1] /\ 1 \in DOMAIN queue
      /\ queue' \in Seq(SessionWrite) /\ Len(queue') <= QueueCap
      /\ \A i \in DOMAIN queue' : i + 1 \in DOMAIN queue /\ queue'[i] = queue[i + 1]
  BY <1>1, SessionsConstants
<1> QED BY <1>1, <1>2 DEF BindingsFit

LEMMA SessionsCommit ==
  ASSUME SessionsInv, S!Commit
  PROVE  SessionsInv'
<1>1. SessionsTypes /\ BindingsFit
  BY SessionsTyped DEF SessionsInv
<1>2. UNCHANGED <<now, map, worker, pruner, written>> /\ queue # <<>> /\ queue' = Tail(queue)
  BY DEF S!Commit
<1>3. /\ Head(queue) \in SessionWrite
      /\ \A y, z \in Head(queue).bind : y = z
      /\ queue' \in Seq(SessionWrite) /\ Len(queue') <= QueueCap
      /\ \A i \in DOMAIN queue' : \A y, z \in queue'[i].bind : y = z
  BY <1>1, <1>2, WriteTaken
<1>4. queue \in Seq(SessionWrite) /\ \A i \in DOMAIN queue : \A y, z \in queue[i].bind : y = z
  BY <1>1 DEF SessionsTypes, BindingsFit
<1>5. /\ rows' \in [Session -> [to: Target \cup {None}, at: Nat]]
      /\ excused' \subseteq Session
      /\ \A s \in Session : (map[s].to # None /\ s \notin excused') =>
           /\ s \notin excused
           /\ \/ ~Binds(Head(queue), s) /\ rows'[s].to = rows[s].to
              \/ \E y \in Head(queue).bind : y.session = s /\ rows'[s].to = y.to
  <2>1. ASSUME NEW y \in Head(queue).bind, S!Upsert(y)
        PROVE  <1>5!1 /\ <1>5!2 /\ <1>5!3
    <3>1. Head(queue).bind = {y} /\ y.session \in Session /\ y.to \in Target
      BY <1>3, <2>1 DEF SessionWrite, S!Binding
    <3>2. /\ rows' \in [Session -> [to: Target \cup {None}, at: Nat]]
          /\ rows'[y.session].to = y.to
          /\ \A s \in Session : s # y.session => rows'[s] = rows[s]
      BY <1>1, <2>1, <3>1 DEF S!Upsert, SessionsTypes
    <3>3. excused' = excused /\ excused \subseteq Session
      BY <1>1, <2>1 DEF S!Upsert, SessionsTypes
    <3>4. \A s \in Session : s # y.session => ~Binds(Head(queue), s)
      BY <3>1 DEF Binds
    <3> QED BY <3>1, <3>2, <3>3, <3>4
  <2>2. ASSUME Head(queue).bind = {}, S!Forget(Head(queue).before)
        PROVE  <1>5!1 /\ <1>5!2 /\ <1>5!3
    <3>1. \A s \in Session : ~Binds(Head(queue), s)
      BY <2>2 DEF Binds
    <3> QED BY <1>1, <2>2, <3>1, RowsForgotten
  <2> QED BY <2>1, <2>2 DEF S!Commit
<1>6. SessionsTypes' /\ BindingsFit'
  BY <1>1, <1>2, <1>3, <1>5 DEF SessionsTypes, BindingsFit
<1>7. ASSUME NEW s \in Session, map'[s].to # None, s \notin excused', ~S!BeingSent(s)'
      PROVE  Aim(queue', rows'[s].to, s) = map'[s].to
  <2>1. ~S!BeingSent(s) /\ s \notin excused /\ map'[s] = map[s]
    BY <1>2, <1>5, <1>7 DEF S!BeingSent
  <2>2. Aim(Tail(queue), rows'[s].to, s) = Aim(queue, rows[s].to, s)
    BY <1>2, <1>4, <1>5, <1>7, AimTail
  <2> QED BY <1>2, <1>7, <2>1, <2>2, DestinedIsAim DEF SessionsInv, S!BindingIsDurable
<1>8. S!BindingIsDurable'
  BY <1>7, DurableStep
<1> QED BY <1>6, <1>8, SessionsTyped DEF SessionsInv

LEMMA SessionsRollBack ==
  ASSUME SessionsInv, S!RollBack
  PROVE  SessionsInv'
<1>1. SessionsTypes /\ BindingsFit
  BY SessionsTyped DEF SessionsInv
<1>2. /\ UNCHANGED <<now, rows, map, worker, pruner, written>>
      /\ queue # <<>> /\ queue' = Tail(queue)
      /\ excused' = excused \cup {y.session : y \in Head(queue).bind}
  BY DEF S!RollBack
<1>3. /\ Head(queue) \in SessionWrite
      /\ queue' \in Seq(SessionWrite) /\ Len(queue') <= QueueCap
      /\ \A i \in DOMAIN queue' : \A y, z \in queue'[i].bind : y = z
  BY <1>1, <1>2, WriteTaken
<1>4. queue \in Seq(SessionWrite) /\ \A i \in DOMAIN queue : \A y, z \in queue[i].bind : y = z
  BY <1>1 DEF SessionsTypes, BindingsFit
<1>5. excused' \subseteq Session
  BY <1>1, <1>2, <1>3 DEF SessionsTypes, SessionWrite, S!Binding
<1>6. SessionsTypes' /\ BindingsFit'
  BY <1>1, <1>2, <1>3, <1>5 DEF SessionsTypes, BindingsFit
<1>7. ASSUME NEW s \in Session, map'[s].to # None, s \notin excused', ~S!BeingSent(s)'
      PROVE  Aim(queue', rows'[s].to, s) = map'[s].to
  <2>1. ~S!BeingSent(s) /\ s \notin excused /\ ~Binds(Head(queue), s)
    BY <1>2, <1>7 DEF S!BeingSent, Binds
  <2>2. Aim(Tail(queue), rows[s].to, s) = Aim(queue, rows[s].to, s)
    BY <1>2, <1>4, <2>1, AimTail
  <2> QED BY <1>2, <1>7, <2>1, <2>2, DestinedIsAim DEF SessionsInv, S!BindingIsDurable
<1>8. S!BindingIsDurable'
  BY <1>7, DurableStep
<1> QED BY <1>6, <1>8, SessionsTyped DEF SessionsInv

LEMMA SessionsRestart ==
  ASSUME SessionsInv, S!Restart
  PROVE  SessionsInv'
<1>1. SessionsTypes
  BY SessionsTyped DEF SessionsInv
<1>2. /\ UNCHANGED <<now, rows>> /\ queue' = <<>> /\ pruner' = {} /\ excused' = {}
      /\ map' = [s \in Session |-> [to |-> rows[s].to, updated |-> rows[s].at,
                                    persisted |-> rows[s].at]]
      /\ worker' = [w \in Worker |-> {}]
      /\ written' = [s \in Session |-> rows[s].at]
  BY DEF S!Restart
<1>3. \A s \in Session : rows[s].to \in Target \cup {None} /\ rows[s].at \in Nat
  BY <1>1 DEF SessionsTypes
<1>4. /\ map' \in [Session -> [to: Target \cup {None}, updated: Nat, persisted: Nat]]
      /\ written' \in [Session -> Nat] /\ worker' \in [Worker -> SUBSET S!Binding]
  BY <1>2, <1>3
<1>5. SessionsTypes' /\ BindingsFit'
  BY <1>1, <1>2, <1>4, SessionsConstants DEF SessionsTypes, BindingsFit
<1>6. \A s \in Session : Aim(queue', rows'[s].to, s) = map'[s].to
  BY <1>2, AimIsRow
<1>7. S!BindingIsDurable'
  BY <1>6, DurableStep
<1> QED BY <1>5, <1>7, SessionsTyped DEF SessionsInv

LEMMA SessionsTick ==
  ASSUME SessionsInv, S!Tick
  PROVE  SessionsInv'
<1>1. SessionsTypes /\ BindingsFit
  BY SessionsTyped DEF SessionsInv
<1>2. UNCHANGED <<rows, queue, map, worker, pruner, written, excused>> /\ now' = now + 1
  BY DEF S!Tick
<1>3. SessionsTypes' /\ BindingsFit'
  BY <1>1, <1>2 DEF SessionsTypes, BindingsFit
<1>4. \A s \in Session : (S!BeingSent(s)' <=> S!BeingSent(s)) /\ S!Destined(s)' = S!Destined(s)
  BY <1>2, DestinedIsAim DEF S!BeingSent
<1>5. S!BindingIsDurable'
  BY <1>2, <1>4 DEF SessionsInv, S!BindingIsDurable
<1> QED BY <1>3, <1>5, SessionsTyped DEF SessionsInv

LEMMA SessionsStep == SessionsInv /\ S!Next => SessionsInv'
<1> SUFFICES ASSUME SessionsInv, S!Next
             PROVE  SessionsInv'
  OBVIOUS
<1>1. ASSUME NEW w \in Worker, S!Send(w)
      PROVE  SessionsInv'
  BY <1>1, SessionsSend
<1>2. ASSUME NEW w \in Worker, NEW s \in Session, NEW d \in Target, S!Set(w, s, d)
      PROVE  SessionsInv'
  BY <1>2, SessionsSet
<1>3. CASE S!Prune \/ S!SendPrune \/ S!Commit \/ S!PruneRows
  BY <1>3, SessionsPrune, SessionsSendPrune, SessionsCommit, SessionsPruneRows
<1>4. CASE S!Restart \/ S!Tick \/ S!RollBack
  BY <1>4, SessionsRestart, SessionsTick, SessionsRollBack
<1> QED BY <1>1, <1>2, <1>3, <1>4 DEF S!Next, S!Smooth

(***************************************************************************)
(* The parts together.                                                     *)
(***************************************************************************)
RoutingInv ==
  \/ part = "cooldown" /\ CooldownInv /\ NoSessions /\ NoSelect
  \/ part = "sessions" /\ SessionsInv /\ NoCooldown /\ NoSelect
  \/ part = "select" /\ NoCooldown /\ NoSessions /\ NoStore

LEMMA RoutingStep ==
  ASSUME RoutingInv, [RoutingNext]_<<part, ofCooldown, ofSessions, ofBoth, ofSelect>>
  PROVE  RoutingInv'
<1>1. CASE part = "cooldown"
  <2>1. CooldownInv /\ NoSessions /\ NoSelect
    BY <1>1 DEF RoutingInv
  <2>2. part' = part /\ UNCHANGED ofSessions /\ UNCHANGED ofSelect
    BY <1>1, PartSteps
  <2>3. CooldownInv'
    <3>1. CASE C!Next
      BY <2>1, <3>1, CooldownStep
    <3>2. CASE UNCHANGED ofCooldown /\ UNCHANGED ofBoth
      BY <2>1, <3>2 DEF ofCooldown, ofBoth, CooldownInv, WritesFit, CoolingsFit, MutexIsHeld,
         C!TypeOK, C!CoolingIsDurable, C!NothingComesBack, C!RowsHaveKeys, C!Cooling,
         C!BeingSet, C!Destined
    <3> QED BY <1>1, <3>1, <3>2, PartSteps
  <2>4. NoSessions' /\ NoSelect'
    BY <2>1, <2>2 DEF NoSessions, NoSelect, ofSessions, ofSelect
  <2> QED BY <1>1, <2>2, <2>3, <2>4 DEF RoutingInv
<1>2. CASE part = "sessions"
  <2>1. SessionsInv /\ NoCooldown /\ NoSelect
    BY <1>2 DEF RoutingInv
  <2>2. part' = part /\ UNCHANGED ofCooldown /\ UNCHANGED ofSelect
    BY <1>2, PartSteps
  <2>3. SessionsInv'
    <3>1. CASE S!Next
      BY <2>1, <3>1, SessionsStep
    <3>2. CASE UNCHANGED ofSessions /\ UNCHANGED ofBoth
      <4>1. UNCHANGED <<map, pruner, written, now, rows, queue, worker, excused>>
        BY <3>2 DEF ofSessions, ofBoth
      <4>2. S!TypeOK' <=> S!TypeOK
        BY <4>1 DEF S!TypeOK
      <4>3. BindingsFit' <=> BindingsFit
        BY <4>1 DEF BindingsFit
      <4>4. \A s \in Session : /\ S!BeingSent(s)' <=> S!BeingSent(s)
                               /\ S!Destined(s)' = S!Destined(s)
        BY <4>1, DestinedIsAim DEF S!BeingSent
      <4>5. S!BindingIsDurable' <=> S!BindingIsDurable
        BY <4>1, <4>4 DEF S!BindingIsDurable
      <4> QED BY <2>1, <4>2, <4>3, <4>5 DEF SessionsInv
    <3> QED BY <1>2, <3>1, <3>2, PartSteps
  <2>4. NoCooldown' /\ NoSelect'
    BY <2>1, <2>2 DEF NoCooldown, NoSelect, ofCooldown, ofSelect
  <2> QED BY <1>2, <2>2, <2>3, <2>4 DEF RoutingInv
<1>3. CASE part = "select"
  <2>1. NoCooldown /\ NoSessions /\ NoStore
    BY <1>3 DEF RoutingInv
  <2>2. part' = part /\ UNCHANGED ofCooldown /\ UNCHANGED ofSessions /\ UNCHANGED ofBoth
    BY <1>3, PartSteps
  <2>3. NoCooldown' /\ NoSessions' /\ NoStore'
    BY <2>1, <2>2 DEF NoCooldown, NoSessions, NoStore, ofCooldown, ofSessions, ofBoth
  <2> QED BY <1>3, <2>2, <2>3 DEF RoutingInv
<1> QED BY <1>1, <1>2, <1>3 DEF RoutingInv

\* The inductive invariant of the part that the behaviour is of: of the cooldowns, that
\* the mutex is held by whoever is between the map and the queue, and that a pair that was
\* cooled has its hits; of the sessions, that a write binds one at most.
THEOREM RoutingIsKept == RoutingSpec => []RoutingInv
<1>1. RoutingInit => RoutingInv
  BY CooldownBegins, SessionsBegin DEF RoutingInit, RoutingInv
<1>2. RoutingInv /\ [RoutingNext]_<<part, ofCooldown, ofSessions, ofBoth, ofSelect>> =>
        RoutingInv'
  BY RoutingStep
<1> QED BY <1>1, <1>2, PTL DEF RoutingSpec

\* What MCRouting declares of the cooldowns and the sessions: among it that the queue of
\* the writer never holds more than its capacity.
THEOREM RoutingIsTyped == RoutingSpec => []TypeOK
<1>1. RoutingInv => TypeOK
  BY DEF RoutingInv, TypeOK, CooldownInv, SessionsInv
<1> QED BY <1>1, RoutingIsKept, PTL

\* What a restart will find in the tables is what the maps hold, outside the races that
\* Cooldown and Sessions name: health/cooldown.rs, router/session.rs and the writer.
THEOREM TablesKeepUp == RoutingSpec => []TablesFollowMaps
<1>1. RoutingInv => TablesFollowMaps
  BY DEF RoutingInv, TablesFollowMaps, CooldownInv, SessionsInv
<1> QED BY <1>1, RoutingIsKept, PTL
===============================================================================
