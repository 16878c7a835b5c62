--------------------------- MODULE SearchLoop_proofs ----------------------------
(***************************************************************************)
(* The stream of the search loop, for every number of blocks, segments,    *)
(* events and searches: the client is told of every search, and what it    *)
(* receives is one lawful message, although each segment numbers its       *)
(* blocks anew and ends on its own.                                        *)
(*                                                                         *)
(* What the client has lags behind the loop by the events yet to yield.    *)
(* The invariant is therefore about the client as it will be: these events *)
(* lead from the client as it is to one that fits the locals of the loop.  *)
(***************************************************************************)
EXTENDS SearchLoop, FiniteSetTheorems, TLAPS

(***************************************************************************)
(* A client, and what it accepts.                                          *)
(***************************************************************************)
BlockType == [opens: Nat, closes: Nat, size: Nat, source: Source \cup {None}]
ClientType == [starts: Nat, deltas: Nat, stops: Nat, errors: Nat,
               block: [Block -> BlockType]]
EventTypes == {"message_start", "start", "delta", "stop", "message_delta", "message_stop",
               "error"}

IsOpen(c, b) == c.block[b].opens = 1 /\ c.block[b].closes = 0

\* What the loop yields: a block that it does not know keeps its number in the segment.
Said == [type: EventTypes, block: Block \cup Raw \cup {None}, source: Source \cup {None},
         size: Nat]

\* The events of Message that a client accepts next.
Legal(c, e) ==
  /\ e.type # "error" => c.errors = 0
  /\ e.type = "message_start" => c.starts = 0
  /\ e.type = "start" => /\ c.starts = 1 /\ c.deltas = 0 /\ c.stops = 0
                         /\ e.block \in Block /\ c.block[e.block].opens = 0
  /\ e.type = "delta" => e.block \in Block /\ IsOpen(c, e.block) /\ e.size > 0
  /\ e.type = "stop" => e.block \in Block /\ IsOpen(c, e.block)
  /\ e.type = "message_delta" => /\ c.starts = 1 /\ c.deltas = 0
                                 /\ \A b \in Block : ~IsOpen(c, b)
  /\ e.type = "message_stop" => c.deltas = 1 /\ c.stops = 0

\* The events of q, taken in this order, lead from client c to client d; lawfully so
\* unless a search overlaps another call.
Leads(wild, c, q, d) ==
  \E s \in [0..Len(q) -> ClientType] :
    /\ s[0] = c /\ s[Len(q)] = d
    /\ \A i \in 1..Len(q) : /\ (wild \/ Legal(s[i - 1], q[i]))
                            /\ s[i] = Received(s[i - 1], q[i])

LEMMA BlocksAreNumbers == Block \subseteq Nat
<1> SUFFICES ASSUME NEW b \in Block PROVE b \in Nat
  OBVIOUS
<1>1. PICK n : n = Cardinality(Block) - 1
  OBVIOUS
<1>2. Block = 0..n
  BY <1>1, ConverterAssumption
<1> QED BY <1>2

LEMMA SearchConstants ==
  /\ Raw \subseteq Nat /\ None \notin Raw /\ {0, 1} \subseteq Block
  /\ MaxUses \in Nat \ {0}
<1>1. PICK n : Raw = 0..n
  BY SearchAssumption
<1>2. None \notin Raw /\ {0, 1} \subseteq Block /\ MaxUses \in Nat \ {0}
  BY SearchAssumption
<1> QED BY <1>1, <1>2

LEMMA Sequences ==
  ASSUME NEW S
  PROVE  /\ <<>> \in Seq(S)
         /\ \A q \in Seq(S), e \in S : Append(q, e) \in Seq(S)
         /\ \A e \in S : <<e>> \o <<>> = <<e>>
OBVIOUS

LEMMA ReceivedType ==
  ASSUME NEW c \in ClientType, NEW e \in Said
  PROVE  Received(c, e) \in ClientType
<1>1. CASE e.type = "message_start"
  <2>1. Received(c, e) = [c EXCEPT !.starts = @ + 1]
    BY <1>1 DEF Received
  <2> QED BY <2>1 DEF ClientType
<1>2. CASE e.type = "message_delta"
  <2>1. Received(c, e) = [c EXCEPT !.deltas = @ + 1]
    BY <1>2 DEF Received
  <2> QED BY <2>1 DEF ClientType
<1>3. CASE e.type = "message_stop"
  <2>1. Received(c, e) = [c EXCEPT !.stops = @ + 1]
    BY <1>3 DEF Received
  <2> QED BY <2>1 DEF ClientType
<1>4. CASE e.type = "error"
  <2>1. Received(c, e) = [c EXCEPT !.errors = @ + 1]
    BY <1>4 DEF Received
  <2> QED BY <2>1 DEF ClientType
<1>5. CASE e.type = "start"
  <2>1. Received(c, e) = [c EXCEPT !.block[e.block].opens = @ + 1,
                                   !.block[e.block].source = e.source]
    BY <1>5 DEF Received
  <2>2. PICK f : f = [c.block EXCEPT ![e.block].opens = @ + 1, ![e.block].source = e.source]
    OBVIOUS
  <2>3. f \in [Block -> BlockType]
    <3>1. c.block \in [Block -> BlockType] /\ e.source \in Source \cup {None}
      BY DEF ClientType, Said
    <3>2. PICK g : g = [c.block EXCEPT ![e.block].opens = @ + 1]
      OBVIOUS
    <3>3. g \in [Block -> BlockType]
      <4>1. ASSUME NEW x \in Block PROVE g[x] \in BlockType
        <5>1. PICK y \in BlockType : y = c.block[x]
          BY <3>1
        <5>2. g[x] = y \/ g[x] = [y EXCEPT !.opens = @ + 1]
          BY <3>1, <3>2, <5>1
        <5>3. y.opens + 1 \in Nat
          BY DEF BlockType
        <5>4. [y EXCEPT !.opens = @ + 1] \in BlockType
          BY <5>3 DEF BlockType
        <5> QED BY <5>1, <5>2, <5>4
      <4>2. DOMAIN g = Block /\ g = [x \in Block |-> g[x]]
        BY <3>1, <3>2
      <4> QED BY <4>1, <4>2
    <3>4. f = [g EXCEPT ![e.block].source = e.source]
      BY <2>2, <3>2
    <3> QED BY <3>1, <3>3, <3>4 DEF BlockType
  <2>4. Received(c, e) = [c EXCEPT !.block = f]
    BY <2>1, <2>2 DEF ClientType
  <2> QED BY <2>3, <2>4 DEF ClientType
<1>6. CASE e.type = "delta"
  <2>1. Received(c, e) = [c EXCEPT !.block[e.block].size = @ + e.size]
    BY <1>6 DEF Received
  <2> QED BY <1>6, <2>1 DEF ClientType, BlockType, Said
<1>7. CASE e.type = "stop"
  <2>1. Received(c, e) = [c EXCEPT !.block[e.block].closes = @ + 1]
    BY <1>7 DEF Received
  <2> QED BY <1>7, <2>1 DEF ClientType, BlockType
<1> QED BY <1>1, <1>2, <1>3, <1>4, <1>5, <1>6, <1>7 DEF Said, EventTypes

LEMMA LeadsNowhere ==
  ASSUME NEW wild \in BOOLEAN, NEW c \in ClientType
  PROVE  Leads(wild, c, <<>>, c)
<1> DEFINE s == [i \in 0..0 |-> c]
<1>1. s \in [0..Len(<<>>) -> ClientType] /\ s[0] = c /\ s[Len(<<>>)] = c
  OBVIOUS
<1>2. \A i \in 1..Len(<<>>) : FALSE
  OBVIOUS
<1> HIDE DEF s
<1> QED BY <1>1, <1>2 DEF Leads

\* One more event at the end.
LEMMA LeadsOn ==
  ASSUME NEW wild \in BOOLEAN, NEW c, NEW d, NEW q \in Seq(Said), Leads(wild, c, q, d),
         NEW e \in Said, wild \/ Legal(d, e)
  PROVE  Leads(wild, c, Append(q, e), Received(d, e))
<1>1. PICK s \in [0..Len(q) -> ClientType] :
        /\ s[0] = c /\ s[Len(q)] = d
        /\ \A i \in 1..Len(q) : /\ (wild \/ Legal(s[i - 1], q[i]))
                                /\ s[i] = Received(s[i - 1], q[i])
  BY DEF Leads
<1>2. PICK n \in Nat : n = Len(q)
  OBVIOUS
<1>3. d \in ClientType
  BY <1>1, <1>2
<1>4. PICK z \in ClientType : z = Received(d, e)
  BY <1>3, ReceivedType
<1>5. PICK t : t = [i \in 0..(n + 1) |-> IF i = n + 1 THEN z ELSE s[i]]
  OBVIOUS
<1>6. t \in [0..(n + 1) -> ClientType]
  BY <1>1, <1>2, <1>4, <1>5
<1>7. t[0] = c /\ t[n + 1] = z
  BY <1>1, <1>2, <1>5
<1>8. PICK r : r = Append(q, e)
  OBVIOUS
<1>9. Len(r) = n + 1 /\ r[n + 1] = e /\ \A i \in 1..n : r[i] = q[i]
  BY <1>2, <1>8
<1>10. \A i \in 1..(n + 1) : /\ (wild \/ Legal(t[i - 1], r[i]))
                             /\ t[i] = Received(t[i - 1], r[i])
  <2> SUFFICES ASSUME NEW i \in 1..(n + 1)
               PROVE  /\ (wild \/ Legal(t[i - 1], r[i]))
                      /\ t[i] = Received(t[i - 1], r[i])
    OBVIOUS
  <2>1. CASE i = n + 1
    <3>1. t[i - 1] = d /\ t[i] = z /\ r[i] = e
      BY <1>1, <1>2, <1>5, <1>9, <2>1
    <3> QED BY <1>4, <3>1
  <2>2. CASE i \in 1..n
    <3>1. t[i - 1] = s[i - 1] /\ t[i] = s[i] /\ r[i] = q[i]
      BY <1>2, <1>5, <1>9, <2>2
    <3> QED BY <1>1, <1>2, <2>2, <3>1
  <2> QED BY <1>2, <2>1, <2>2
<1> QED BY <1>4, <1>6, <1>7, <1>8, <1>9, <1>10 DEF Leads

\* The first event, and the rest.
LEMMA LeadsFirst ==
  ASSUME NEW wild \in BOOLEAN, NEW c, NEW d, NEW q \in Seq(Said), q # <<>>,
         Leads(wild, c, q, d)
  PROVE  /\ (wild \/ Legal(c, Head(q))) /\ c \in ClientType
         /\ Leads(wild, Received(c, Head(q)), Tail(q), d)
<1>1. PICK s \in [0..Len(q) -> ClientType] :
        /\ s[0] = c /\ s[Len(q)] = d
        /\ \A i \in 1..Len(q) : /\ (wild \/ Legal(s[i - 1], q[i]))
                                /\ s[i] = Received(s[i - 1], q[i])
  BY DEF Leads
<1>2. PICK n \in Nat : n = Len(q) /\ n > 0
  OBVIOUS
<1>3. Head(q) = q[1] /\ 1 \in 1..n /\ 0 \in 0..n
  BY <1>2
<1>4. /\ (wild \/ Legal(c, Head(q))) /\ s[1] = Received(c, Head(q))
      /\ c \in ClientType
  <2>1. /\ (wild \/ Legal(s[1 - 1], q[1]))
        /\ s[1] = Received(s[1 - 1], q[1])
    BY <1>1, <1>2, <1>3
  <2>2. 1 - 1 = 0
    OBVIOUS
  <2> QED BY <1>1, <1>2, <1>3, <2>1, <2>2
<1>5. PICK r : r = Tail(q)
  OBVIOUS
<1>6. Len(r) = n - 1 /\ \A i \in 1..(n - 1) : r[i] = q[i + 1]
  BY <1>2, <1>5
<1>7. PICK t : t = [i \in 0..(n - 1) |-> s[i + 1]]
  OBVIOUS
<1>8. t \in [0..(n - 1) -> ClientType] /\ t[0] = s[1] /\ t[n - 1] = d
  BY <1>1, <1>2, <1>7
<1>9. ASSUME NEW i \in 1..(n - 1)
      PROVE  /\ (wild \/ Legal(t[i - 1], r[i]))
             /\ t[i] = Received(t[i - 1], r[i])
  <2>1. t[i - 1] = s[i] /\ t[i] = s[i + 1] /\ r[i] = q[i + 1]
    BY <1>2, <1>6, <1>7
  <2>2. PICK j \in 1..n : j = i + 1 /\ j - 1 = i
    BY <1>2
  <2>3. /\ (wild \/ Legal(s[j - 1], q[j]))
        /\ s[j] = Received(s[j - 1], q[j])
    BY <1>1, <1>2
  <2> QED BY <2>1, <2>2, <2>3
<1>10. Leads(wild, s[1], r, d)
  BY <1>6, <1>8, <1>9 DEF Leads
<1> QED BY <1>4, <1>5, <1>10
\* What each event makes of a client.
Counters(c) == <<c.starts, c.deltas, c.stops, c.errors>>
SameStarts(c, d) ==
  \A x \in Block : /\ d.block[x].opens = c.block[x].opens
                  /\ d.block[x].source = c.block[x].source
SameStops(c, d) == \A x \in Block : d.block[x].closes = c.block[x].closes
Others(c, d, b) == \A x \in Block \ {b} : d.block[x] = c.block[x]

LEMMA StartReceived ==
  ASSUME NEW c \in ClientType, NEW b \in Block, NEW s \in Source,
         NEW d, d = Received(c, Start(b, s))
  PROVE  /\ Start(b, s) \in Said /\ d \in ClientType
         /\ Counters(d) = Counters(c) /\ Others(c, d, b)
         /\ d.block[b].opens = c.block[b].opens + 1
         /\ d.block[b].closes = c.block[b].closes /\ d.block[b].source = s
<1>1. PICK e : e = Start(b, s)
  OBVIOUS
<1>2. e = [type |-> "start", block |-> b, source |-> s, size |-> 0]
  BY <1>1 DEF Start
<1>3. e \in Said
  BY <1>2 DEF Said, EventTypes
<1>4. d \in ClientType
  BY <1>1, <1>3, ReceivedType
<1>5. d = [c EXCEPT !.block[b].opens = @ + 1, !.block[b].source = s]
  BY <1>1, <1>2 DEF Received
<1>6. c.block \in [Block -> BlockType]
  BY DEF ClientType
<1>7. PICK f : f = [c.block EXCEPT ![b].opens = @ + 1, ![b].source = s]
  OBVIOUS
<1>8. d.block = f /\ Counters(d) = Counters(c)
  BY <1>5, <1>7 DEF ClientType, Counters
<1>9. /\ f[b].opens = c.block[b].opens + 1 /\ f[b].closes = c.block[b].closes
      /\ f[b].source = s /\ \A x \in Block \ {b} : f[x] = c.block[x]
  BY <1>6, <1>7 DEF BlockType
<1> QED BY <1>1, <1>3, <1>4, <1>8, <1>9 DEF Others

LEMMA DeltaReceived ==
  ASSUME NEW c \in ClientType, NEW b \in Block \cup Raw, NEW s \in Source \cup {None},
         NEW d, d = Received(c, Delta(b, s, 1))
  PROVE  /\ Delta(b, s, 1) \in Said /\ d \in ClientType
         /\ Counters(d) = Counters(c) /\ Others(c, d, b)
         /\ SameStarts(c, d) /\ SameStops(c, d)
<1>1. PICK e : e = Delta(b, s, 1)
  OBVIOUS
<1>2. e = [type |-> "delta", block |-> b, source |-> s, size |-> 1]
  BY <1>1 DEF Delta
<1>3. e \in Said
  BY <1>2 DEF Said, EventTypes
<1>4. d \in ClientType
  BY <1>1, <1>3, ReceivedType
<1>5. d = [c EXCEPT !.block[b].size = @ + 1]
  BY <1>1, <1>2 DEF Received
<1>6. c.block \in [Block -> BlockType]
  BY DEF ClientType
<1>7. PICK f : f = [c.block EXCEPT ![b].size = @ + 1]
  OBVIOUS
<1>8. d.block = f /\ Counters(d) = Counters(c)
  BY <1>5, <1>7 DEF ClientType, Counters
<1>9. \A x \in Block : /\ f[x].opens = c.block[x].opens
                       /\ f[x].closes = c.block[x].closes /\ f[x].source = c.block[x].source
  BY <1>6, <1>7 DEF BlockType
<1>10. \A x \in Block \ {b} : f[x] = c.block[x]
  BY <1>6, <1>7
<1> QED BY <1>1, <1>3, <1>4, <1>8, <1>9, <1>10 DEF Others, SameStarts, SameStops

LEMMA StopReceived ==
  ASSUME NEW c \in ClientType, NEW b \in Block \cup Raw, NEW d, d = Received(c, Stop(b))
  PROVE  /\ Stop(b) \in Said /\ d \in ClientType
         /\ Counters(d) = Counters(c) /\ Others(c, d, b)
         /\ SameStarts(c, d)
         /\ b \in Block => d.block[b].closes = c.block[b].closes + 1
<1>1. PICK e : e = Stop(b)
  OBVIOUS
<1>2. e = [type |-> "stop", block |-> b, source |-> None, size |-> 0]
  BY <1>1 DEF Stop
<1>3. e \in Said
  BY <1>2 DEF Said, EventTypes
<1>4. d \in ClientType
  BY <1>1, <1>3, ReceivedType
<1>5. d = [c EXCEPT !.block[b].closes = @ + 1]
  BY <1>1, <1>2 DEF Received
<1>6. c.block \in [Block -> BlockType]
  BY DEF ClientType
<1>7. PICK f : f = [c.block EXCEPT ![b].closes = @ + 1]
  OBVIOUS
<1>8. d.block = f /\ Counters(d) = Counters(c)
  BY <1>5, <1>7 DEF ClientType, Counters
<1>9. /\ \A x \in Block : /\ f[x].opens = c.block[x].opens /\ f[x].source = c.block[x].source
      /\ \A x \in Block \ {b} : f[x] = c.block[x]
      /\ b \in Block => f[b].closes = c.block[b].closes + 1
  BY <1>6, <1>7 DEF BlockType
<1> QED BY <1>1, <1>3, <1>4, <1>8, <1>9 DEF Others, SameStarts

LEMMA PlainReceived ==
  ASSUME NEW c \in ClientType, NEW d,
         NEW t \in {"message_start", "message_delta", "message_stop", "error"},
         d = Received(c, Plain(t))
  PROVE  /\ Plain(t) \in Said /\ d \in ClientType /\ d.block = c.block
         /\ d.starts = c.starts + (IF t = "message_start" THEN 1 ELSE 0)
         /\ d.deltas = c.deltas + (IF t = "message_delta" THEN 1 ELSE 0)
         /\ d.stops = c.stops + (IF t = "message_stop" THEN 1 ELSE 0)
         /\ d.errors = c.errors + (IF t = "error" THEN 1 ELSE 0)
<1>1. PICK e : e = Plain(t)
  OBVIOUS
<1>2. e = [type |-> t, block |-> None, source |-> None, size |-> 0]
  BY <1>1 DEF Plain
<1>3. e \in Said
  BY <1>2 DEF Said, EventTypes
<1>4. d \in ClientType
  BY <1>1, <1>3, ReceivedType
<1>5. CASE t = "message_start"
  <2>1. d = [c EXCEPT !.starts = @ + 1]
    BY <1>1, <1>2, <1>5 DEF Received
  <2> QED BY <1>1, <1>3, <1>4, <1>5, <2>1 DEF ClientType
<1>6. CASE t = "message_delta"
  <2>1. d = [c EXCEPT !.deltas = @ + 1]
    BY <1>1, <1>2, <1>6 DEF Received
  <2> QED BY <1>1, <1>3, <1>4, <1>6, <2>1 DEF ClientType
<1>7. CASE t = "message_stop"
  <2>1. d = [c EXCEPT !.stops = @ + 1]
    BY <1>1, <1>2, <1>7 DEF Received
  <2> QED BY <1>1, <1>3, <1>4, <1>7, <2>1 DEF ClientType
<1>8. CASE t = "error"
  <2>1. d = [c EXCEPT !.errors = @ + 1]
    BY <1>1, <1>2, <1>8 DEF Received
  <2> QED BY <1>1, <1>3, <1>4, <1>8, <2>1 DEF ClientType
<1> QED BY <1>5, <1>6, <1>7, <1>8

(***************************************************************************)
(* The invariant of the search loop.                                       *)
(***************************************************************************)
LoopType ==
  [next: Nat, done: Nat, requests: Nat, pre: BOOLEAN, first: BOOLEAN,
   map: [Raw -> Block \cup {None}],
   hit: [raw: Raw \cup {None}, index: Block \cup {None}], asked: BOOLEAN, rounds: Nat]
SegmentType ==
  [begun: BOOLEAN, of: [Raw -> Source \cup {None}], open: SUBSET Raw, next: Nat,
   over: {"no", "delta", "stop"}]

\* How the loop and its segment go together, whatever the upstream does.
Placed(l, g) ==
  /\ ~g.begun => g.open = {} /\ g.next = 0
  /\ g.over # "no" => g.begun /\ g.open = {}
  /\ l.asked => g.begun
  /\ l.pre => l.first /\ ~g.begun /\ l.next = 2 /\ l.rounds = 1
  /\ l.hit.raw = None <=> l.hit.index = None
  /\ l.hit.index # None => l.hit.index + 1 \in Block
  /\ l.requests <= MaxUses

\* A message is started once, and ended only with the stream.
Counted(c, l, g, now) ==
  /\ c.starts = IF l.first /\ ~g.begun THEN 0 ELSE 1
  /\ now = "open" => c.deltas = 0 /\ c.stops = 0 /\ c.errors = 0
  /\ now = "ended" /\ c.errors = 0 => c.starts = 1 /\ c.deltas = 1 /\ c.stops = 1

\* The blocks of the client up to the next index are those it has been told of; the open
\* ones are those that are open in the segment.
Used(l) == IF l.pre THEN 0 ELSE l.next
Going(l, g, b) == \E r \in g.open : l.map[r] = b
SearchesIn(c) == {b \in Block : c.block[b].source = "search" /\ c.block[b].closes = 1}

Opened(c, l, g) ==
  \A b \in Block :
    /\ c.block[b].opens = IF b < Used(l) THEN 1 ELSE 0
    /\ c.block[b].closes = IF b < Used(l) /\ ~Going(l, g, b) THEN 1 ELSE 0
    /\ IsOpen(c, b) => c.block[b].source # "search"

Mapped(l, g) ==
  /\ \A r \in g.open : r # l.hit.raw => l.map[r] \in Block /\ l.map[r] < l.next
  /\ \A r, s \in g.open : l.map[r] = l.map[s] => r = s
  /\ \A r \in Raw : r >= g.next => r \notin g.open /\ l.map[r] = None
  /\ l.asked => g.open = {} /\ l.hit.raw = None
  /\ l.hit.raw # None => /\ g.open = {l.hit.raw} /\ l.map[l.hit.raw] = None /\ ~l.pre
                         /\ l.hit.index = l.next

Reported(c, l) == Cardinality(SearchesIn(c)) = IF l.pre THEN 0 ELSE 2 * l.rounds

Numbered(c, l, g) == Opened(c, l, g) /\ Mapped(l, g) /\ Reported(c, l)

Fits(wild, q, now, c, l, g) ==
  \E d \in ClientType : /\ Leads(wild, c, q, d) /\ Counted(d, l, g, now)
                        /\ wild \/ Numbered(d, l, g)

SearchTypes ==
  /\ loop \in LoopType /\ segment \in SegmentType /\ out \in Seq(Said)
  /\ at \in {"open", "ended"} /\ unhandled \in BOOLEAN

SearchInv ==
  /\ SearchTypes /\ Placed(loop, segment) /\ Fits(unhandled, out, at, client, loop, segment)

\* Between two events nothing is to yield: the client is as it will be.
LEMMA NothingToYield ==
  ASSUME SearchInv, out = <<>>
  PROVE  /\ client \in ClientType /\ Counted(client, loop, segment, at)
         /\ unhandled \/ Numbered(client, loop, segment)
<1>1. PICK d \in ClientType : /\ Leads(unhandled, client, out, d) /\ Counted(d, loop, segment, at)
                              /\ unhandled \/ Numbered(d, loop, segment)
  BY DEF SearchInv, Fits
<1>2. PICK s \in [0..Len(out) -> ClientType] : s[0] = client /\ s[Len(out)] = d
  BY <1>1 DEF Leads
<1>3. Len(out) = 0
  OBVIOUS
<1>4. client = d
  BY <1>2, <1>3
<1> QED BY <1>1, <1>4

\* What remains to be shown of a step that takes an event, or none.
LEMMA SaysNothing ==
  ASSUME NEW wild \in BOOLEAN, NEW c \in ClientType, NEW now, NEW l, NEW g,
         Counted(c, l, g, now), wild \/ Numbered(c, l, g)
  PROVE  Fits(wild, <<>>, now, c, l, g)
BY LeadsNowhere DEF Fits

LEMMA SaysOne ==
  ASSUME NEW wild \in BOOLEAN, NEW c \in ClientType, NEW now, NEW l, NEW g, NEW e \in Said,
         NEW d \in ClientType, d = Received(c, e), wild \/ Legal(c, e),
         Counted(d, l, g, now), wild \/ Numbered(d, l, g)
  PROVE  Fits(wild, <<e>>, now, c, l, g)
<1>1. Leads(wild, c, <<>>, c)
  BY LeadsNowhere
<1>2. PICK q \in Seq(Said) : q = <<>>
  BY Sequences
<1>3. Leads(wild, c, Append(q, e), d)
  BY <1>1, <1>2, LeadsOn
<1>4. Append(q, e) = <<e>>
  BY <1>2
<1> QED BY <1>3, <1>4 DEF Fits

AllSaid(q, e1, e2, e3, e4, e5) ==
  /\ q \in Seq(Said) /\ e1 \in Said /\ e2 \in Said /\ e3 \in Said
  /\ e4 \in Said /\ e5 \in Said
OneByOne(q, e1, e2, e3, e4, e5) ==
  q \o <<e1, e2, e3, e4, e5>> = Append(Append(Append(Append(Append(q, e1), e2), e3), e4), e5)

LEMMA FiveMore ==
  ASSUME NEW q, NEW e1, NEW e2, NEW e3, NEW e4, NEW e5, AllSaid(q, e1, e2, e3, e4, e5)
  PROVE  OneByOne(q, e1, e2, e3, e4, e5)
BY DEF AllSaid, OneByOne

LEMMA TwoMore ==
  ASSUME NEW q \in Seq(Said), NEW a \in Said, NEW b \in Said
  PROVE  Append(Append(q, a), b) = q \o <<a, b>>
OBVIOUS

SearchTold(wild, c, q, d, i, j, f) ==
  /\ q \o SearchBlocks(i) \in Seq(Said)
  /\ Leads(wild, c, q \o SearchBlocks(i), f)
  /\ Counters(f) = Counters(d)
  /\ \A x \in Block \ {i, j} : f.block[x] = d.block[x]
  /\ wild \/ \A x \in {i, j} : /\ f.block[x].opens = 1 /\ f.block[x].closes = 1
                               /\ f.block[x].source = "search"
Unopened(d, i, j) == \A x \in {i, j} : d.block[x].opens = 0 /\ d.block[x].closes = 0

\* The two blocks of a search: one event after the other is lawful, and in the end both
\* are closed.
LEMMA SearchBlocksLead ==
  ASSUME NEW wild \in BOOLEAN, NEW c, NEW q \in Seq(Said), NEW d \in ClientType,
         Leads(wild, c, q, d), NEW i \in Block, NEW j \in Block, j = i + 1,
         d.starts = 1, d.deltas = 0, d.stops = 0, d.errors = 0,
         wild \/ Unopened(d, i, j)
  PROVE  \E f \in ClientType : SearchTold(wild, c, q, d, i, j, f)
<1>1. PICK s \in Source : s = "search"
  BY DEF Source
<1>2. i # j /\ i \in Nat /\ j \in Nat /\ i \in Block \cup Raw /\ j \in Block \cup Raw
  <2>1. i \in Nat /\ j \in Nat
    BY BlocksAreNumbers
  <2> QED BY <2>1
<1>3. PICK e1 : e1 = Start(i, s)
  OBVIOUS
<1>4. PICK d1 : d1 = Received(d, e1)
  OBVIOUS
<1>5. /\ e1 \in Said /\ d1 \in ClientType /\ Counters(d1) = Counters(d) /\ Others(d, d1, i)
      /\ d1.block[i].opens = d.block[i].opens + 1
      /\ d1.block[i].closes = d.block[i].closes /\ d1.block[i].source = s
  BY <1>3, <1>4, StartReceived
<1>6. wild \/ Legal(d, e1)
  BY <1>3 DEF Legal, Start, Unopened
<1>7. PICK q1 : q1 = Append(q, e1)
  OBVIOUS
<1>7a. q1 \in Seq(Said)
  BY <1>5, <1>7, Sequences
<1>8. Leads(wild, c, q1, d1)
  BY <1>4, <1>5, <1>6, <1>7, LeadsOn
<1>9. PICK e2 : e2 = Delta(i, s, 1)
  OBVIOUS
<1>10. PICK d2 : d2 = Received(d1, e2)
  OBVIOUS
<1>11. /\ e2 \in Said /\ d2 \in ClientType /\ Counters(d2) = Counters(d) /\ Others(d1, d2, i)
       /\ SameStarts(d1, d2) /\ SameStops(d1, d2)
  BY <1>2, <1>5, <1>9, <1>10, DeltaReceived
<1>12. d1.errors = 0
  BY <1>5 DEF Counters
<1>13. wild \/ Legal(d1, e2)
  BY <1>5, <1>9, <1>12 DEF Legal, Delta, IsOpen, Unopened
<1>14. PICK q2 : q2 = Append(q1, e2)
  OBVIOUS
<1>14a. q2 \in Seq(Said)
  BY <1>11, <1>14, <1>7a, Sequences
<1>15. Leads(wild, c, q2, d2)
  BY <1>8, <1>10, <1>11, <1>13, <1>14, <1>7a, LeadsOn
<1>16. PICK e3 : e3 = Stop(i)
  OBVIOUS
<1>17. PICK d3 : d3 = Received(d2, e3)
  OBVIOUS
<1>18. /\ e3 \in Said /\ d3 \in ClientType /\ Counters(d3) = Counters(d) /\ Others(d2, d3, i)
       /\ SameStarts(d2, d3)
       /\ d3.block[i].closes = d2.block[i].closes + 1
  BY <1>2, <1>11, <1>16, <1>17, StopReceived
<1>19. d2.errors = 0
  BY <1>11 DEF Counters
<1>20. wild \/ Legal(d2, e3)
  BY <1>5, <1>11, <1>16, <1>19 DEF Legal, Stop, IsOpen, SameStarts, SameStops, Unopened
<1>21. PICK q3 : q3 = Append(q2, e3)
  OBVIOUS
<1>21a. q3 \in Seq(Said)
  BY <1>18, <1>21, <1>14a, Sequences
<1>22. Leads(wild, c, q3, d3)
  BY <1>15, <1>17, <1>18, <1>20, <1>21, <1>14a, LeadsOn
<1>23. PICK e4 : e4 = Start(j, s)
  OBVIOUS
<1>24. PICK d4 : d4 = Received(d3, e4)
  OBVIOUS
<1>25. /\ e4 \in Said /\ d4 \in ClientType /\ Counters(d4) = Counters(d) /\ Others(d3, d4, j)
       /\ d4.block[j].opens = d3.block[j].opens + 1
       /\ d4.block[j].closes = d3.block[j].closes /\ d4.block[j].source = s
  BY <1>18, <1>23, <1>24, StartReceived
<1>26. /\ d3.block[j].opens = d.block[j].opens /\ d3.block[j].closes = d.block[j].closes
       /\ d3.starts = 1 /\ d3.deltas = 0 /\ d3.stops = 0 /\ d3.errors = 0
  <2>1. d3.block[j].opens = d1.block[j].opens /\ d3.block[j].closes = d2.block[j].closes
    BY <1>2, <1>11, <1>18 DEF Others, SameStarts, SameStops
  <2>2. d1.block[j] = d.block[j]
    BY <1>2, <1>5 DEF Others
  <2>3. /\ d3.starts = d.starts /\ d3.deltas = d.deltas /\ d3.stops = d.stops
        /\ d3.errors = d.errors
    BY <1>18 DEF Counters
  <2>4. d3.block[j].closes = d1.block[j].closes
    BY <1>11, <2>1 DEF SameStops
  <2> QED BY <2>1, <2>2, <2>3, <2>4
<1>27. wild \/ Legal(d3, e4)
  BY <1>23, <1>26 DEF Legal, Start, Unopened
<1>28. PICK q4 : q4 = Append(q3, e4)
  OBVIOUS
<1>28a. q4 \in Seq(Said)
  BY <1>25, <1>28, <1>21a, Sequences
<1>29. Leads(wild, c, q4, d4)
  BY <1>22, <1>24, <1>25, <1>27, <1>28, <1>21a, LeadsOn
<1>30. PICK e5 : e5 = Stop(j)
  OBVIOUS
<1>31. PICK d5 : d5 = Received(d4, e5)
  OBVIOUS
<1>32. /\ e5 \in Said /\ d5 \in ClientType /\ Counters(d5) = Counters(d) /\ Others(d4, d5, j)
       /\ SameStarts(d4, d5)
       /\ d5.block[j].closes = d4.block[j].closes + 1
  BY <1>2, <1>25, <1>30, <1>31, StopReceived
<1>33. d4.errors = 0
  BY <1>25 DEF Counters
<1>34. wild \/ Legal(d4, e5)
  BY <1>25, <1>26, <1>30, <1>33 DEF Legal, Stop, IsOpen, Unopened
<1>35. PICK q5 : q5 = Append(q4, e5)
  OBVIOUS
<1>35a. q5 \in Seq(Said)
  BY <1>32, <1>35, <1>28a, Sequences
<1>36. Leads(wild, c, q5, d5)
  BY <1>29, <1>31, <1>32, <1>34, <1>35, <1>28a, LeadsOn
<1>37. q \o SearchBlocks(i) = q5
  <2>1. SearchBlocks(i) = <<e1, e2, e3, e4, e5>>
    BY <1>1, <1>3, <1>9, <1>16, <1>23, <1>30
    DEF SearchBlocks, Start, Delta, Stop, Start, Delta, Stop
  <2>2. AllSaid(q, e1, e2, e3, e4, e5)
    BY <1>5, <1>11, <1>18, <1>25, <1>32 DEF AllSaid
  <2>3. OneByOne(q, e1, e2, e3, e4, e5)
    BY <2>2, FiveMore
  <2> QED BY <1>7, <1>14, <1>21, <1>28, <1>35, <2>1, <2>3 DEF OneByOne
<1>38. \A x \in Block \ {i, j} : d5.block[x] = d.block[x]
  <2> SUFFICES ASSUME NEW x \in Block \ {i, j} PROVE d5.block[x] = d.block[x]
    OBVIOUS
  <2>1. d5.block[x] = d3.block[x] /\ d3.block[x] = d2.block[x] /\ d1.block[x] = d.block[x]
    BY <1>5, <1>18, <1>25, <1>32 DEF Others
  <2>2. d2.block[x] = d1.block[x]
    BY <1>11 DEF Others
  <2> QED BY <2>1, <2>2
<1>39. ~wild => /\ d5.block[i].opens = 1 /\ d5.block[i].closes = 1
                /\ d5.block[i].source = "search"
  <2>1. d5.block[i] = d3.block[i]
    BY <1>2, <1>25, <1>32 DEF Others
  <2> QED BY <1>1, <1>5, <1>11, <1>18, <2>1
    DEF SameStarts, SameStops, Unopened
<1>40. ~wild => /\ d5.block[j].opens = 1 /\ d5.block[j].closes = 1
                /\ d5.block[j].source = "search"
  BY <1>1, <1>25, <1>26, <1>32 DEF SameStarts, Unopened
<1> QED BY <1>32, <1>35a, <1>36, <1>37, <1>38, <1>39, <1>40 DEF SearchTold

(***************************************************************************)
(* What each event does to the numbering of the blocks.                    *)
(***************************************************************************)
WithBlock(g, raw, src) ==
  [g EXCEPT !.of[raw] = src, !.open = @ \cup {raw}, !.next = @ + 1]
WithoutBlock(g, raw) == [g EXCEPT !.open = @ \ {raw}]
WithIndex(l, raw, b) == [l EXCEPT !.map[raw] = b, !.next = @ + 1]
WithHit(l, raw, b) == [l EXCEPT !.hit = [raw |-> raw, index |-> b]]
WithoutHit(l) == [l EXCEPT !.hit = NoHit]

LEMMA SameBlocks ==
  ASSUME NEW c \in ClientType, NEW d \in ClientType, NEW l, NEW g,
         SameStarts(c, d), SameStops(c, d), Numbered(c, l, g)
  PROVE  Numbered(d, l, g)
<1>1. SearchesIn(d) = SearchesIn(c)
  BY DEF SearchesIn, SameStarts, SameStops
<1>2. Opened(d, l, g)
  BY DEF Numbered, Opened, IsOpen, SameStarts, SameStops
<1> QED BY <1>1, <1>2 DEF Numbered, Reported

\* A block of the segment is given the next index.
LEMMA StartNumbers ==
  ASSUME NEW c \in ClientType, NEW d \in ClientType, NEW l \in LoopType, NEW g \in SegmentType,
         NEW src \in Source \ {"search"}, NEW raw \in Raw, NEW b \in Block,
         NEW m \in LoopType, NEW h \in SegmentType,
         Numbered(c, l, g), ~l.pre, ~l.asked, l.hit.raw = None, raw = g.next, b = l.next,
         Others(c, d, b), d.block[b].opens = c.block[b].opens + 1,
         d.block[b].closes = c.block[b].closes, d.block[b].source = src,
         m = WithIndex(l, raw, b), h = WithBlock(g, raw, src)
  PROVE  Numbered(d, m, h)
<1>1. /\ Used(l) = b /\ Used(m) = b + 1 /\ b \in Nat /\ ~m.pre /\ ~m.asked
      /\ m.hit.raw = None /\ m.rounds = l.rounds /\ m.next = b + 1
  BY BlocksAreNumbers DEF Used, LoopType, WithIndex
<1>2. h.open = g.open \cup {raw} /\ h.next = raw + 1 /\ raw \in Nat /\ g.open \subseteq Raw
  BY DEF SegmentType, WithBlock
<1>3. l.map \in [Raw -> Block \cup {None}] /\ m.map = [l.map EXCEPT ![raw] = b]
  BY DEF LoopType, WithIndex
<1>4. raw \notin g.open /\ l.map[raw] = None
  BY <1>2 DEF Numbered, Mapped
<1>5. m.map[raw] = b /\ \A r \in Raw \ {raw} : m.map[r] = l.map[r]
  BY <1>3
<1>6. \A r \in g.open : r # raw /\ r \in Raw /\ l.map[r] \in Block /\ l.map[r] < b
  BY <1>2, <1>4, SearchConstants DEF Numbered, Mapped
<1>7. \A x \in Block : x # b => (Going(m, h, x) <=> Going(l, g, x))
  BY <1>2, <1>5, <1>6 DEF Going
<1>8. Going(m, h, b)
  BY <1>2, <1>5 DEF Going
<1>9. Opened(d, m, h)
  <2> SUFFICES ASSUME NEW x \in Block
               PROVE  /\ d.block[x].opens = IF x < Used(m) THEN 1 ELSE 0
                      /\ d.block[x].closes = IF x < Used(m) /\ ~Going(m, h, x) THEN 1 ELSE 0
                      /\ IsOpen(d, x) => d.block[x].source # "search"
    BY DEF Opened
  <2>1. /\ c.block[x].opens = IF x < b THEN 1 ELSE 0
        /\ c.block[x].closes = IF x < b /\ ~Going(l, g, x) THEN 1 ELSE 0
        /\ IsOpen(c, x) => c.block[x].source # "search"
    BY <1>1 DEF Numbered, Opened
  <2>2. x \in Nat
    BY BlocksAreNumbers
  <2>3. CASE x = b
    BY <1>1, <1>8, <2>1, <2>2, <2>3
  <2>4. CASE x # b
    <3>1. d.block[x] = c.block[x]
      BY <2>4 DEF Others
    <3>2. x < b <=> x < Used(m)
      BY <1>1, <2>2, <2>4
    <3> QED BY <1>7, <2>1, <2>4, <3>1, <3>2 DEF IsOpen
  <2> QED BY <2>3, <2>4
<1>10. Mapped(m, h)
  <2>1. \A r \in h.open : m.map[r] \in Block /\ m.map[r] < m.next
    <3> SUFFICES ASSUME NEW r \in h.open PROVE m.map[r] \in Block /\ m.map[r] < m.next
      OBVIOUS
    <3>1. CASE r = raw
      BY <1>1, <1>5, <3>1
    <3>2. CASE r \in g.open
      <4>1. m.map[r] = l.map[r] /\ l.map[r] \in Block /\ l.map[r] < b
        BY <1>5, <1>6, <3>2
      <4> QED BY <1>1, <4>1, BlocksAreNumbers
    <3> QED BY <1>2, <3>1, <3>2
  <2>2. \A r, t \in h.open : m.map[r] = m.map[t] => r = t
    <3>1. \A r \in g.open : m.map[r] = l.map[r] /\ m.map[r] # b
      <4> SUFFICES ASSUME NEW r \in g.open PROVE m.map[r] = l.map[r] /\ m.map[r] # b
        OBVIOUS
      <4>1. m.map[r] = l.map[r] /\ l.map[r] \in Block /\ l.map[r] < b
        BY <1>5, <1>6
      <4> QED BY <1>1, <4>1, BlocksAreNumbers
    <3>2. \A r, t \in g.open : l.map[r] = l.map[t] => r = t
      BY DEF Numbered, Mapped
    <3> QED BY <1>2, <1>5, <3>1, <3>2
  <2>3. \A r \in Raw : r >= h.next => r \notin h.open /\ m.map[r] = None
    <3> SUFFICES ASSUME NEW r \in Raw, r >= h.next PROVE r \notin h.open /\ m.map[r] = None
      OBVIOUS
    <3>1. r # raw /\ r >= raw
      BY <1>2, SearchConstants
    <3>2. r \notin g.open /\ l.map[r] = None
      BY <3>1 DEF Numbered, Mapped
    <3> QED BY <1>2, <1>5, <3>1, <3>2
  <2> QED BY <1>1, <2>1, <2>2, <2>3 DEF Mapped
<1>11. SearchesIn(d) = SearchesIn(c)
  <2>1. c.block[b].closes = 0
    BY <1>1 DEF Numbered, Opened
  <2> QED BY <2>1 DEF SearchesIn, Others
<1> QED BY <1>1, <1>9, <1>10, <1>11 DEF Numbered, Reported

\* The end of a block: the segment has only one that is numbered like it.
LEMMA StopNumbers ==
  ASSUME NEW c \in ClientType, NEW d \in ClientType, NEW l \in LoopType, NEW g \in SegmentType,
         NEW raw \in Raw, NEW b \in Block, NEW m \in LoopType, NEW h \in SegmentType,
         Numbered(c, l, g), ~l.pre, l.hit.raw = None, raw \in g.open, b = l.map[raw],
         Others(c, d, b), SameStarts(c, d), d.block[b].closes = c.block[b].closes + 1,
         m = WithoutHit(l), h = WithoutBlock(g, raw)
  PROVE  Numbered(d, m, h)
<1>1. /\ m.map = l.map /\ m.next = l.next /\ m.pre = l.pre /\ m.asked = l.asked
      /\ m.rounds = l.rounds /\ m.hit.raw = None /\ Used(m) = Used(l)
  BY DEF LoopType, NoHit, Used, WithoutHit
<1>2. h.open = g.open \ {raw} /\ h.next = g.next
  BY DEF SegmentType, WithoutBlock
<1>3. \A r, t \in g.open : l.map[r] = l.map[t] => r = t
  BY DEF Numbered, Mapped
<1>4. \A x \in Block : x # b => (Going(m, h, x) <=> Going(l, g, x))
  BY <1>1, <1>2 DEF Going
<1>5. Going(l, g, b) /\ ~Going(m, h, b)
  BY <1>1, <1>2, <1>3 DEF Going
<1>6. b < Used(l)
  BY SearchConstants DEF Numbered, Mapped, Used
<1>7. c.block[b].closes = 0 /\ c.block[b].opens = 1 /\ c.block[b].source # "search"
  BY <1>5, <1>6 DEF Numbered, Opened, IsOpen
<1>8. Opened(d, m, h)
  <2> SUFFICES ASSUME NEW x \in Block
               PROVE  /\ d.block[x].opens = IF x < Used(m) THEN 1 ELSE 0
                      /\ d.block[x].closes = IF x < Used(m) /\ ~Going(m, h, x) THEN 1 ELSE 0
                      /\ IsOpen(d, x) => d.block[x].source # "search"
    BY DEF Opened
  <2>1. /\ c.block[x].opens = IF x < Used(l) THEN 1 ELSE 0
        /\ c.block[x].closes = IF x < Used(l) /\ ~Going(l, g, x) THEN 1 ELSE 0
        /\ IsOpen(c, x) => c.block[x].source # "search"
    BY DEF Numbered, Opened
  <2>2. CASE x = b
    BY <1>1, <1>5, <1>6, <1>7, <2>1, <2>2 DEF IsOpen, SameStarts
  <2>3. CASE x # b
    <3>1. d.block[x] = c.block[x]
      BY <2>3 DEF Others
    <3> QED BY <1>1, <1>4, <2>1, <2>3, <3>1 DEF IsOpen
  <2> QED BY <2>2, <2>3
<1>9. Mapped(m, h)
  <2>1. Mapped(l, g)
    BY DEF Numbered
  <2> QED BY <1>1, <1>2, <2>1 DEF Mapped
<1>10. SearchesIn(d) = SearchesIn(c)
  BY <1>7 DEF SearchesIn, Others, SameStarts
<1> QED BY <1>1, <1>8, <1>9, <1>10 DEF Numbered, Reported

\* The call of the search tool is kept back.
LEMMA HitNumbers ==
  ASSUME NEW c \in ClientType, NEW l \in LoopType, NEW g \in SegmentType,
         NEW src, NEW raw \in Raw, NEW b \in Block, NEW m \in LoopType, NEW h \in SegmentType,
         Numbered(c, l, g), ~l.pre, ~l.asked, raw = g.next, g.open = {},
         b = l.next,
         m = WithHit(l, raw, b), h = WithBlock(g, raw, src)
  PROVE  Numbered(c, m, h)
<1>1. /\ m.map = l.map /\ m.next = b /\ ~m.pre /\ ~m.asked /\ m.rounds = l.rounds
      /\ m.hit.raw = raw /\ m.hit.index = b /\ Used(m) = Used(l)
  BY DEF LoopType, Used, WithHit
<1>2. h.open = {raw} /\ h.next = raw + 1 /\ raw \in Nat
  BY DEF SegmentType, WithBlock
<1>3. l.map[raw] = None
  BY <1>2 DEF Numbered, Mapped
<1>4. \A x \in Block : ~Going(l, g, x) /\ ~Going(m, h, x)
  BY <1>1, <1>2, <1>3, ConverterAssumption DEF Going
<1>5. Opened(c, m, h)
  BY <1>1, <1>4 DEF Numbered, Opened
<1>6. Mapped(m, h)
  <2>1. \A r \in Raw : r >= h.next => r \notin h.open /\ m.map[r] = None
    <3> SUFFICES ASSUME NEW r \in Raw, r >= h.next PROVE r \notin h.open /\ m.map[r] = None
      OBVIOUS
    <3>1. r # raw /\ r >= raw
      BY <1>2, SearchConstants
    <3>2. l.map[r] = None
      BY <3>1 DEF Numbered, Mapped
    <3> QED BY <1>1, <1>2, <3>1, <3>2
  <2> QED BY <1>1, <1>2, <1>3, <2>1 DEF Mapped
<1> QED BY <1>1, <1>5, <1>6 DEF Numbered, Reported

\* The two blocks that tell of a search.
LEMMA SearchNumbers ==
  ASSUME NEW c \in ClientType, NEW d \in ClientType, NEW l \in LoopType, NEW g \in SegmentType,
         NEW i \in Block, NEW j \in Block, NEW m \in LoopType, NEW h \in SegmentType,
         Numbered(c, l, g), j = i + 1, Used(l) = i, Used(m) = i + 2, ~m.pre,
         \A x \in Block : ~Going(l, g, x), h.open = {}, m.hit.raw = None,
         m.rounds = IF l.pre THEN 1 ELSE l.rounds + 1,
         \A r \in Raw : r >= h.next => m.map[r] = None,
         \A x \in Block \ {i, j} : d.block[x] = c.block[x],
         \A x \in {i, j} : /\ d.block[x].opens = 1 /\ d.block[x].closes = 1
                           /\ d.block[x].source = "search"
  PROVE  Numbered(d, m, h)
<1>1. i \in Nat /\ j \in Nat /\ i # j
  BY BlocksAreNumbers
<1>2. \A x \in Block : ~Going(m, h, x)
  BY DEF Going
<1>3. Opened(d, m, h)
  <2> SUFFICES ASSUME NEW x \in Block
               PROVE  /\ d.block[x].opens = IF x < Used(m) THEN 1 ELSE 0
                      /\ d.block[x].closes = IF x < Used(m) /\ ~Going(m, h, x) THEN 1 ELSE 0
                      /\ IsOpen(d, x) => d.block[x].source # "search"
    BY DEF Opened
  <2>1. /\ c.block[x].opens = IF x < i THEN 1 ELSE 0
        /\ c.block[x].closes = IF x < i THEN 1 ELSE 0
        /\ IsOpen(c, x) => c.block[x].source # "search"
    BY DEF Numbered, Opened
  <2>2. x \in Nat
    BY BlocksAreNumbers
  <2>3. CASE x \in {i, j}
    <3>1. x < Used(m)
      BY <1>1, <2>3
    <3> QED BY <1>2, <2>3, <3>1 DEF IsOpen
  <2>4. CASE x \notin {i, j}
    <3>1. d.block[x] = c.block[x]
      BY <2>4
    <3>2. x < i <=> x < Used(m)
      BY <1>1, <2>2, <2>4
    <3> QED BY <1>2, <2>1, <3>1, <3>2 DEF IsOpen
  <2> QED BY <2>3, <2>4
<1>4. Mapped(m, h)
  BY DEF Mapped
<1>5. Cardinality(SearchesIn(d)) = Cardinality(SearchesIn(c)) + 2
  <2>1. c.block[i].closes = 0 /\ c.block[j].closes = 0
    BY <1>1 DEF Numbered, Opened
  <2>2. PICK S : S = SearchesIn(c)
    OBVIOUS
  <2>3. S \subseteq Block /\ i \notin S /\ j \notin S
    BY <2>1, <2>2 DEF SearchesIn
  <2>4. SearchesIn(d) = (S \cup {i}) \cup {j}
    BY <2>2 DEF SearchesIn
  <2>5. IsFiniteSet(S)
    BY <2>3, ConverterAssumption, FS_Subset
  <2>6. IsFiniteSet(S \cup {i}) /\ Cardinality(S \cup {i}) = Cardinality(S) + 1
    BY <2>3, <2>5, FS_AddElement
  <2>7. Cardinality((S \cup {i}) \cup {j}) = Cardinality(S \cup {i}) + 1
    BY <1>1, <2>3, <2>6, FS_AddElement
  <2>8. Cardinality(S) \in Nat
    BY <2>5, FS_CardinalityType
  <2> QED BY <2>2, <2>4, <2>6, <2>7, <2>8
<1>6. Reported(d, m)
  <2>1. Cardinality(SearchesIn(c)) = IF l.pre THEN 0 ELSE 2 * l.rounds
    BY DEF Numbered, Reported
  <2>2. l.rounds \in Nat
    BY DEF LoopType
  <2> QED BY <1>5, <2>1, <2>2 DEF Reported
<1> QED BY <1>3, <1>4, <1>6 DEF Numbered

(***************************************************************************)
(* The steps of the loop.                                                  *)
(***************************************************************************)
LEMMA AtRest ==
  ASSUME SearchInv, Polls
  PROVE  \E c \in ClientType, l \in LoopType, g \in SegmentType, w \in BOOLEAN :
           /\ c = client /\ l = loop /\ g = segment /\ w = unhandled /\ at = "open" /\ out = <<>>
           /\ Placed(l, g) /\ Counted(c, l, g, "open") /\ (w \/ Numbered(c, l, g))
<1>1. out = <<>> /\ at = "open"
  BY DEF Polls
<1>2. client \in ClientType /\ Counted(client, loop, segment, "open")
  BY <1>1, NothingToYield
<1>3. unhandled \/ Numbered(client, loop, segment)
  BY <1>1, NothingToYield
<1>4. loop \in LoopType /\ segment \in SegmentType /\ unhandled \in BOOLEAN /\ Placed(loop, segment)
  BY DEF SearchInv, SearchTypes
<1> QED BY <1>1, <1>2, <1>3, <1>4

LEMMA StepKept ==
  ASSUME NEW w \in BOOLEAN, NEW q \in Seq(Said), NEW now \in {"open", "ended"}, NEW c,
         NEW l \in LoopType, NEW g \in SegmentType, Placed(l, g), Fits(w, q, now, c, l, g),
         unhandled' = w, out' = q, at' = now, client' = c, loop' = l, segment' = g
  PROVE  SearchInv'
<1>1. SearchTypes'
  BY DEF SearchTypes
<1>2. Placed(loop', segment')
  OBVIOUS
<1>3. Fits(unhandled', out', at', client', loop', segment')
  OBVIOUS
<1> QED BY <1>1, <1>2, <1>3 DEF SearchInv

\* Steps that yield nothing, and steps that yield one event.
LEMMA SilentStep ==
  ASSUME NEW w \in BOOLEAN, NEW now \in {"open", "ended"}, NEW c \in ClientType,
         NEW l \in LoopType, NEW g \in SegmentType, Placed(l, g),
         Counted(c, l, g, now), w \/ Numbered(c, l, g),
         unhandled' = w, out' = <<>>, at' = now, client' = c, loop' = l, segment' = g
  PROVE  SearchInv'
<1>1. Fits(w, <<>>, now, c, l, g)
  BY SaysNothing
<1>2. PICK q \in Seq(Said) : q = <<>>
  BY Sequences
<1> QED BY <1>1, <1>2, StepKept

LEMMA EventStep ==
  ASSUME NEW w \in BOOLEAN, NEW now \in {"open", "ended"}, NEW c \in ClientType,
         NEW l \in LoopType, NEW g \in SegmentType, NEW e \in Said, NEW d \in ClientType,
         d = Received(c, e), w \/ Legal(c, e), Placed(l, g),
         Counted(d, l, g, now), w \/ Numbered(d, l, g),
         unhandled' = w, out' = <<e>>, at' = now, client' = c, loop' = l, segment' = g
  PROVE  SearchInv'
<1>1. Fits(w, <<e>>, now, c, l, g)
  BY SaysOne
<1>2. <<e>> \in Seq(Said)
  OBVIOUS
<1> QED BY <1>1, <1>2, StepKept

LEMMA MessageStartKeeps ==
  ASSUME SearchInv, TakeMessageStart
  PROVE  SearchInv'
<1>1. Polls /\ ~loop.asked /\ ~segment.begun
  BY DEF TakeMessageStart
<1>2. PICK c \in ClientType, l \in LoopType, g \in SegmentType, w \in BOOLEAN :
        /\ c = client /\ l = loop /\ g = segment /\ w = unhandled /\ at = "open" /\ out = <<>>
        /\ Placed(l, g) /\ Counted(c, l, g, "open") /\ (w \/ Numbered(c, l, g))
  BY <1>1, AtRest
<1>3. PICK h : h = [g EXCEPT !.begun = TRUE]
  OBVIOUS
<1>4. PICK m : m = [l EXCEPT !.pre = IF l.first THEN FALSE ELSE @]
  OBVIOUS
<1>5. /\ segment' = h /\ loop' = m /\ client' = c /\ unhandled' = w /\ at' = "open"
      /\ out' = IF l.first
                THEN <<Plain("message_start")>>
                       \o (IF l.pre THEN SearchBlocks(0) ELSE <<>>)
                ELSE <<>>
  BY <1>2, <1>3, <1>4 DEF TakeMessageStart, Plain
<1>6. /\ h \in SegmentType /\ h.begun /\ h.open = g.open /\ h.next = g.next /\ h.over = g.over
      /\ g.open = {} /\ g.next = 0
  BY <1>1, <1>2, <1>3 DEF SegmentType, Placed
<1>7. /\ m \in LoopType /\ ~m.pre /\ m.first = l.first /\ m.map = l.map /\ m.hit = l.hit
      /\ m.next = l.next /\ m.asked = l.asked /\ m.rounds = l.rounds
      /\ m.requests = l.requests
  BY <1>2, <1>4 DEF LoopType, Placed
<1>8. Placed(m, h)
  BY <1>1, <1>2, <1>6, <1>7 DEF Placed
<1>9. \A x \in Block : ~Going(l, g, x)
  BY <1>6 DEF Going
<1>10. CASE ~l.pre
  <2>1. Numbered(c, l, g) => Numbered(c, m, h)
    BY <1>6, <1>7, <1>10 DEF Numbered, Opened, Mapped, Reported, Used, Going
  <2>2. CASE ~l.first
    <3>1. Counted(c, m, h, "open")
      BY <1>1, <1>2, <1>6, <1>7, <2>2 DEF Counted
    <3> QED BY <1>2, <1>5, <1>6, <1>7, <1>8, <2>1, <2>2, <3>1, SilentStep
  <2>3. CASE l.first
    <3>1. PICK t \in {"message_start", "message_delta", "message_stop", "error"} :
            t = "message_start"
      OBVIOUS
    <3>2. PICK d : d = Received(c, Plain(t))
      OBVIOUS
    <3>3. /\ Plain(t) \in Said /\ d \in ClientType /\ d.block = c.block
          /\ d.starts = c.starts + 1 /\ d.deltas = c.deltas + 0 /\ d.stops = c.stops + 0
          /\ d.errors = c.errors + 0
      BY <3>1, <3>2, PlainReceived
    <3>4. c.starts = 0 /\ c.deltas = 0 /\ c.stops = 0 /\ c.errors = 0
      BY <1>1, <1>2, <2>3 DEF Counted
    <3>5. Counted(d, m, h, "open")
      BY <1>6, <3>3, <3>4 DEF Counted
    <3>6. w \/ Numbered(d, m, h)
      <4>1. SameStarts(c, d) /\ SameStops(c, d)
        BY <3>3 DEF SameStarts, SameStops
      <4> QED BY <1>2, <2>1, <3>3, <4>1, SameBlocks
    <3>7. Legal(c, Plain(t))
      BY <3>1, <3>4 DEF Legal, Plain
    <3>8. out' = <<Plain(t)>>
      <4>1. <<Plain(t)>> \o <<>> = <<Plain(t)>>
        BY <3>3, Sequences
      <4> QED BY <1>5, <1>10, <2>3, <3>1, <4>1
    <3> QED BY <1>2, <1>5, <1>6, <1>7, <1>8, <3>2, <3>3, <3>5, <3>6, <3>7, <3>8, EventStep
  <2> QED BY <2>2, <2>3
<1>11. CASE l.pre
  <2>1. l.first /\ l.next = 2 /\ l.rounds = 1
    BY <1>2, <1>11 DEF Placed
  <2>2. PICK t \in {"message_start", "message_delta", "message_stop", "error"} :
          t = "message_start"
    OBVIOUS
  <2>3. PICK e : e = Plain(t)
    OBVIOUS
  <2>4. PICK d : d = Received(c, e)
    OBVIOUS
  <2>5. /\ e \in Said /\ d \in ClientType /\ d.block = c.block
        /\ d.starts = c.starts + 1 /\ d.deltas = c.deltas + 0 /\ d.stops = c.stops + 0
        /\ d.errors = c.errors + 0
    BY <2>2, <2>3, <2>4, PlainReceived
  <2>6. c.starts = 0 /\ c.deltas = 0 /\ c.stops = 0 /\ c.errors = 0
    BY <1>1, <1>2, <2>1 DEF Counted
  <2>7. Legal(c, e)
    BY <2>2, <2>3, <2>6 DEF Legal, Plain
  <2>8. PICK q : q = <<e>>
    OBVIOUS
  <2>9. q \in Seq(Said) /\ q = Append(<<>>, e)
    BY <2>5, <2>8
  <2>10. Leads(w, c, q, d)
    <3>1. Leads(w, c, <<>>, c)
      BY LeadsNowhere
    <3>2. <<>> \in Seq(Said)
      BY Sequences
    <3> QED BY <2>4, <2>5, <2>7, <2>9, <3>1, <3>2, LeadsOn
  <2>11. PICK i \in Block, j \in Block : i = 0 /\ j = i + 1
    BY SearchConstants
  <2>12. w \/ Unopened(d, i, j)
    <3>1. ~w => \A x \in {i, j} : c.block[x].opens = 0 /\ c.block[x].closes = 0
      BY <1>2, <1>11, BlocksAreNumbers DEF Numbered, Opened, Used
    <3> QED BY <2>5, <3>1 DEF Unopened
  <2>13. d.starts = 1 /\ d.deltas = 0 /\ d.stops = 0 /\ d.errors = 0
    BY <2>5, <2>6
  <2>14a. PICK f \in ClientType : SearchTold(w, c, q, d, i, j, f)
    BY <2>5, <2>9, <2>10, <2>11, <2>12, <2>13, SearchBlocksLead
  <2>14. /\ q \o SearchBlocks(i) \in Seq(Said)
         /\ Leads(w, c, q \o SearchBlocks(i), f)
         /\ Counters(f) = Counters(d)
         /\ \A x \in Block \ {i, j} : f.block[x] = d.block[x]
         /\ w \/ \A x \in {i, j} : /\ f.block[x].opens = 1 /\ f.block[x].closes = 1
                                   /\ f.block[x].source = "search"
    BY <2>14a DEF SearchTold
  <2>15. Counted(f, m, h, "open")
    BY <1>6, <2>13, <2>14 DEF Counted, Counters
  <2>16. w \/ Numbered(f, m, h)
    <3> SUFFICES ASSUME ~w PROVE Numbered(f, m, h)
      OBVIOUS
    <3>1. Numbered(c, l, g)
      BY <1>2
    <3>2. Used(l) = i /\ Used(m) = i + 2
      BY <1>7, <1>11, <2>1, <2>11 DEF Used
    <3>3. \A r \in Raw : r >= h.next => m.map[r] = None
      BY <1>6, <1>7, <3>1 DEF Numbered, Mapped
    <3>4. m.hit.raw = None
      BY <1>7, <1>11, <3>1 DEF Numbered, Mapped
    <3>5. m.rounds = IF l.pre THEN 1 ELSE l.rounds + 1
      BY <1>7, <1>11, <2>1
    <3>6. \A x \in Block \ {i, j} : f.block[x] = c.block[x]
      BY <2>5, <2>14
    <3>7. \A x \in {i, j} : /\ f.block[x].opens = 1 /\ f.block[x].closes = 1
                            /\ f.block[x].source = "search"
      BY <2>14
    <3> QED BY <1>6, <1>7, <1>9, <2>11, <3>1, <3>2, <3>3, <3>4, <3>5, <3>6, <3>7,
               SearchNumbers
  <2>17. out' = q \o SearchBlocks(i)
    BY <1>5, <1>11, <2>1, <2>2, <2>3, <2>8, <2>11
  <2>18. Fits(w, out', "open", c, m, h)
    BY <2>14, <2>15, <2>16, <2>17 DEF Fits
  <2> QED BY <1>5, <1>6, <1>7, <1>8, <2>14, <2>17, <2>18, StepKept
<1> QED BY <1>10, <1>11

\* What the beginning of a block finds, be it the call of the search tool or another.
Begins(c, l, g, w, raw, b, src) ==
  /\ c = client /\ l = loop /\ g = segment /\ w = unhandled /\ at = "open"
  /\ Placed(l, g) /\ Counted(c, l, g, "open") /\ (w \/ Numbered(c, l, g))
  /\ raw = g.next /\ b = l.next /\ b + 1 \in Block
  /\ g.begun /\ g.over = "no" /\ ~l.asked /\ ~l.pre
  /\ c.starts = 1 /\ c.deltas = 0 /\ c.stops = 0 /\ c.errors = 0
  /\ segment' = WithBlock(g, raw, src)
  /\ client' = c /\ at' = "open"

LEMMA Beginning ==
  ASSUME SearchInv, NEW src, StartedBy(src)
  PROVE  \E c \in ClientType, l \in LoopType, g \in SegmentType, w \in BOOLEAN,
           raw \in Raw, b \in Block : Begins(c, l, g, w, raw, b, src)
<1>1. /\ Polls /\ ~loop.asked /\ segment.over = "no" /\ segment.begun /\ segment.next \in Raw
      /\ loop.next + 2 \in Block /\ UNCHANGED <<client, at>>
      /\ segment' = [segment EXCEPT !.of[segment.next] = src, !.open = @ \cup {segment.next},
                            !.next = @ + 1]
  BY DEF StartedBy, Reading, Reads, Polls
<1>2. PICK c \in ClientType, l \in LoopType, g \in SegmentType, w \in BOOLEAN :
        /\ c = client /\ l = loop /\ g = segment /\ w = unhandled /\ at = "open" /\ out = <<>>
        /\ Placed(l, g) /\ Counted(c, l, g, "open") /\ (w \/ Numbered(c, l, g))
  BY <1>1, AtRest
<1>3. PICK raw \in Raw : raw = g.next
  BY <1>1, <1>2
<1>4. PICK b \in Block : b = l.next /\ b + 1 \in Block
  <2>1. l.next \in Nat
    BY DEF LoopType
  <2>2. l.next + 2 \in Block
    BY <1>1, <1>2
  <2>3. IsFiniteSet(Block) /\ Block = 0..(Cardinality(Block) - 1)
    BY ConverterAssumption
  <2>4. PICK n \in Int : n = Cardinality(Block) - 1
    BY <2>3, FS_CardinalityType
  <2> QED BY <2>1, <2>2, <2>3, <2>4
<1>5. ~l.pre
  BY <1>1, <1>2 DEF Placed
<1>6. c.starts = 1 /\ c.deltas = 0 /\ c.stops = 0 /\ c.errors = 0
  BY <1>1, <1>2 DEF Counted
<1>7. segment' = WithBlock(g, raw, src)
  BY <1>1, <1>2, <1>3 DEF WithBlock
<1> QED BY <1>1, <1>2, <1>3, <1>4, <1>5, <1>6, <1>7 DEF Begins

\* The segment and the loop go together after the beginning of a block.
LEMMA BeginningPlaced ==
  ASSUME NEW l \in LoopType, NEW g \in SegmentType, NEW raw \in Raw, NEW src \in Source,
         NEW m \in LoopType, NEW h, Placed(l, g), g.begun, g.over = "no", raw = g.next,
         h = WithBlock(g, raw, src),
         m.asked = l.asked, m.pre = l.pre, ~l.pre, m.requests = l.requests,
         m.hit.raw = None <=> m.hit.index = None,
         m.hit.index # None => m.hit.index + 1 \in Block
  PROVE  h \in SegmentType /\ h.begun /\ Placed(m, h)
<1>1. PICK f : f = [g.of EXCEPT ![raw] = src]
  OBVIOUS
<1>2. f \in [Raw -> Source \cup {None}]
  BY <1>1 DEF SegmentType
<1>3. h = [g EXCEPT !.of = f, !.open = @ \cup {raw}, !.next = @ + 1]
  BY <1>1 DEF SegmentType, WithBlock
<1>4. g.next + 1 \in Nat /\ g.open \cup {raw} \in SUBSET Raw
  BY DEF SegmentType
<1>5. h \in SegmentType /\ h.begun /\ h.over = "no"
  BY <1>2, <1>3, <1>4 DEF SegmentType
<1> QED BY <1>5 DEF Placed

LEMMA BlockStartKeeps ==
  ASSUME SearchInv, NEW src \in Source \ {"search"}, TakeBlockStart(src)
  PROVE  SearchInv'
<1>1. StartedBy(src)
  BY DEF TakeBlockStart
<1>2a. PICK c \in ClientType, l \in LoopType, g \in SegmentType, w \in BOOLEAN,
            raw \in Raw, b \in Block : Begins(c, l, g, w, raw, b, src)
  BY <1>1, Beginning
<1>2. /\ c = client /\ l = loop /\ g = segment /\ w = unhandled /\ at = "open"
      /\ Placed(l, g) /\ Counted(c, l, g, "open") /\ (w \/ Numbered(c, l, g))
      /\ raw = g.next /\ b = l.next /\ b + 1 \in Block
      /\ g.begun /\ g.over = "no" /\ ~l.asked /\ ~l.pre
      /\ c.starts = 1 /\ c.deltas = 0 /\ c.stops = 0 /\ c.errors = 0
      /\ segment' = WithBlock(g, raw, src)
      /\ client' = c /\ at' = "open"
  BY <1>2a DEF Begins
<1>3. PICK h : h = WithBlock(g, raw, src)
  OBVIOUS
<1>4. PICK m : m = WithIndex(l, raw, b)
  OBVIOUS
<1>5. PICK v \in BOOLEAN : v = (w \/ l.hit # NoHit)
  OBVIOUS
<1>6. PICK s \in Source : s = src
  OBVIOUS
<1>7. PICK e : e = Start(b, s)
  OBVIOUS
<1>8. loop' = m /\ out' = <<e>> /\ unhandled' = v
  BY <1>2, <1>4, <1>5, <1>6, <1>7 DEF TakeBlockStart, Start, Start, WithIndex
<1>9. /\ m \in LoopType /\ m.asked = l.asked /\ m.pre = l.pre /\ m.requests = l.requests
      /\ m.hit = l.hit /\ m.first = l.first
  <2>1. PICK f : f = [l.map EXCEPT ![raw] = b]
    OBVIOUS
  <2>2. f \in [Raw -> Block \cup {None}]
    BY <2>1 DEF LoopType
  <2>3. m = [l EXCEPT !.map = f, !.next = @ + 1]
    BY <1>4, <2>1 DEF LoopType, WithIndex
  <2>4. l.next + 1 \in Nat
    BY DEF LoopType
  <2> QED BY <2>2, <2>3, <2>4 DEF LoopType
<1>10. /\ m.hit.raw = None <=> m.hit.index = None
       /\ m.hit.index # None => m.hit.index + 1 \in Block
  BY <1>2, <1>9 DEF Placed
<1>11. h \in SegmentType /\ h.begun /\ Placed(m, h)
  BY <1>2, <1>3, <1>6, <1>9, <1>10, BeginningPlaced
<1>12. PICK d : d = Received(c, e)
  OBVIOUS
<1>13. /\ e \in Said /\ d \in ClientType /\ Counters(d) = Counters(c) /\ Others(c, d, b)
       /\ d.block[b].opens = c.block[b].opens + 1
       /\ d.block[b].closes = c.block[b].closes /\ d.block[b].source = s
  BY <1>7, <1>12, StartReceived
<1>14. Counted(d, m, h, "open")
  BY <1>2, <1>11, <1>13 DEF Counted, Counters
<1>15. CASE v
  BY <1>2, <1>3, <1>8, <1>11, <1>9, <1>12, <1>13, <1>14, <1>15, EventStep
<1>16. CASE ~v
  <2>1. l.hit = [raw |-> None, index |-> None] /\ Numbered(c, l, g)
    BY <1>2, <1>5, <1>16 DEF NoHit
  <2>1a. l.hit.raw = None
    BY <2>1
  <2>2. Numbered(d, m, h)
    BY <1>2, <1>3, <1>4, <1>6, <1>9, <1>11, <1>13, <2>1, <2>1a, StartNumbers
  <2>3. Legal(c, e)
    <3>1. c.block[b].opens = 0
      BY <1>2, <2>1, BlocksAreNumbers DEF Numbered, Opened, Used
    <3> QED BY <1>2, <1>7, <3>1 DEF Legal, Start
  <2> QED BY <1>2, <1>3, <1>8, <1>11, <1>9, <1>12, <1>13, <1>14, <2>2, <2>3, EventStep
<1> QED BY <1>15, <1>16

LEMMA SearchStartKeeps ==
  ASSUME SearchInv, TakeSearchStart
  PROVE  SearchInv'
<1>1. PICK s \in Source : s = "search" /\ StartedBy(s)
  BY DEF TakeSearchStart, Source
<1>2a. PICK c \in ClientType, l \in LoopType, g \in SegmentType, w \in BOOLEAN,
            raw \in Raw, b \in Block : Begins(c, l, g, w, raw, b, s)
  BY <1>1, Beginning
<1>2. /\ c = client /\ l = loop /\ g = segment /\ w = unhandled /\ at = "open"
      /\ Placed(l, g) /\ Counted(c, l, g, "open") /\ (w \/ Numbered(c, l, g))
      /\ raw = g.next /\ b = l.next /\ b + 1 \in Block
      /\ g.begun /\ g.over = "no" /\ ~l.asked /\ ~l.pre
      /\ c.starts = 1 /\ c.deltas = 0 /\ c.stops = 0 /\ c.errors = 0
      /\ segment' = WithBlock(g, raw, s)
      /\ client' = c /\ at' = "open"
  BY <1>2a DEF Begins
<1>3. PICK h : h = WithBlock(g, raw, s)
  OBVIOUS
<1>4. PICK m : m = WithHit(l, raw, b)
  OBVIOUS
<1>5. PICK v \in BOOLEAN : v = (w \/ g.open # {})
  OBVIOUS
<1>6. out = <<>>
  BY <1>1 DEF StartedBy, Reading, Reads, Polls
<1>7. loop' = m /\ out' = <<>> /\ unhandled' = v
  BY <1>2, <1>4, <1>5, <1>6 DEF TakeSearchStart, WithHit
<1>8. /\ m \in LoopType /\ m.asked = l.asked /\ m.pre = l.pre /\ m.requests = l.requests
      /\ m.hit.raw = raw /\ m.hit.index = b /\ m.first = l.first
  BY <1>4 DEF LoopType, WithHit
<1>9. /\ m.hit.raw = None <=> m.hit.index = None
      /\ m.hit.index # None => m.hit.index + 1 \in Block
  BY <1>2, <1>8, SearchConstants, ConverterAssumption
<1>10. h \in SegmentType /\ h.begun /\ Placed(m, h)
  BY <1>2, <1>3, <1>8, <1>9, BeginningPlaced
<1>11. Counted(c, m, h, "open")
  BY <1>2, <1>10 DEF Counted
<1>12. v \/ Numbered(c, m, h)
  <2> SUFFICES ASSUME ~v PROVE Numbered(c, m, h)
    OBVIOUS
  <2>1. g.open = {} /\ Numbered(c, l, g)
    BY <1>2, <1>5
  <2> QED BY <1>2, <1>3, <1>4, <1>8, <1>10, <2>1, HitNumbers
<1> QED BY <1>2, <1>3, <1>7, <1>8, <1>10, <1>11, <1>12, SilentStep

\* What an event within a block finds.
Within(c, l, g, w, raw) ==
  /\ c = client /\ l = loop /\ g = segment /\ w = unhandled /\ at = "open" /\ out = <<>>
  /\ Placed(l, g) /\ Counted(c, l, g, "open") /\ (w \/ Numbered(c, l, g))
  /\ raw \in g.open /\ g.begun /\ g.over = "no" /\ ~l.asked /\ ~l.pre
  /\ c.starts = 1 /\ c.deltas = 0 /\ c.stops = 0 /\ c.errors = 0

LEMMA WithinBlock ==
  ASSUME SearchInv, NEW raw \in Raw, InBlock(raw)
  PROVE  \E c \in ClientType, l \in LoopType, g \in SegmentType, w \in BOOLEAN :
           Within(c, l, g, w, raw)
<1>1. Polls /\ ~loop.asked /\ segment.over = "no" /\ raw \in segment.open
  BY DEF InBlock, Reading, Reads, Polls
<1>2. PICK c \in ClientType, l \in LoopType, g \in SegmentType, w \in BOOLEAN :
        /\ c = client /\ l = loop /\ g = segment /\ w = unhandled /\ at = "open" /\ out = <<>>
        /\ Placed(l, g) /\ Counted(c, l, g, "open") /\ (w \/ Numbered(c, l, g))
  BY <1>1, AtRest
<1>3. g.begun /\ ~l.pre
  <2>1. g.open # {}
    BY <1>1, <1>2
  <2>2. g.begun
    BY <1>2, <2>1 DEF Placed
  <2> QED BY <1>2, <2>2 DEF Placed
<1>4. c.starts = 1 /\ c.deltas = 0 /\ c.stops = 0 /\ c.errors = 0
  BY <1>2, <1>3 DEF Counted
<1> QED BY <1>1, <1>2, <1>3, <1>4 DEF Within

\* A block that is numbered is open at the client.
LEMMA BlockIsOpen ==
  ASSUME NEW c, NEW l, NEW g, NEW raw \in Raw, Numbered(c, l, g), ~l.pre, raw \in g.open,
         l.hit.raw # raw
  PROVE  /\ l.map[raw] \in Block /\ IsOpen(c, l.map[raw]) /\ l.hit.raw = None
<1>1. l.hit.raw = None
  <2>1. l.hit.raw # None => g.open = {l.hit.raw}
    BY DEF Numbered, Mapped
  <2> QED BY <2>1
<1>2. l.map[raw] \in Block /\ l.map[raw] < Used(l)
  BY DEF Numbered, Mapped, Used
<1>3. PICK b \in Block : b = l.map[raw]
  BY <1>2
<1>4. Going(l, g, b)
  BY <1>3 DEF Going
<1>5. c.block[b].opens = 1 /\ c.block[b].closes = 0
  BY <1>2, <1>3, <1>4 DEF Numbered, Opened
<1> QED BY <1>1, <1>3, <1>5 DEF IsOpen

LEMMA DeltaKeeps ==
  ASSUME SearchInv, NEW raw \in Raw, TakeDelta(raw)
  PROVE  SearchInv'
<1>1. InBlock(raw)
  BY DEF TakeDelta
<1>2a. PICK c \in ClientType, l \in LoopType, g \in SegmentType, w \in BOOLEAN :
         Within(c, l, g, w, raw)
  BY <1>1, WithinBlock
<1>2. /\ c = client /\ l = loop /\ g = segment /\ w = unhandled /\ at = "open" /\ out = <<>>
      /\ Placed(l, g) /\ Counted(c, l, g, "open") /\ (w \/ Numbered(c, l, g))
      /\ raw \in g.open /\ ~l.pre /\ c.errors = 0
  BY <1>2a DEF Within
<1>3. loop' = l /\ segment' = g /\ client' = c /\ at' = "open" /\ unhandled' = w
  BY <1>2 DEF TakeDelta
<1>4. CASE l.hit.raw = raw
  <2>1. out' = <<>>
    BY <1>2, <1>4 DEF TakeDelta
  <2> QED BY <1>2, <1>3, <2>1, SilentStep
<1>5. CASE l.hit.raw # raw
  <2>1. PICK b \in Block \cup Raw : b = IF l.map[raw] = None THEN raw ELSE l.map[raw]
    BY DEF LoopType
  <2>2. PICK s \in Source \cup {None} : s = g.of[raw]
    BY DEF SegmentType
  <2>3. PICK e : e = Delta(b, s, 1)
    OBVIOUS
  <2>4. out' = <<e>>
    BY <1>2, <1>5, <2>1, <2>2, <2>3 DEF TakeDelta, Delta, Delta, Index
  <2>5. PICK d : d = Received(c, e)
    OBVIOUS
  <2>6. /\ e \in Said /\ d \in ClientType /\ Counters(d) = Counters(c)
        /\ SameStarts(c, d) /\ SameStops(c, d)
    BY <2>3, <2>5, DeltaReceived
  <2>7. Counted(d, l, g, "open")
    BY <1>2, <2>6 DEF Counted, Counters
  <2>8. w \/ Numbered(d, l, g)
    BY <1>2, <2>6, SameBlocks
  <2>9. w \/ Legal(c, e)
    <3> SUFFICES ASSUME ~w PROVE Legal(c, e)
      OBVIOUS
    <3>1. l.map[raw] \in Block /\ IsOpen(c, l.map[raw])
      BY <1>2, <1>5, BlockIsOpen
    <3>2. b \in Block /\ IsOpen(c, b)
      BY <2>1, <3>1, ConverterAssumption
    <3> QED BY <1>2, <2>3, <3>2 DEF Legal, Delta
  <2> QED BY <1>2, <1>3, <2>4, <2>5, <2>6, <2>7, <2>8, <2>9, EventStep
<1> QED BY <1>4, <1>5

LEMMA StopKeeps ==
  ASSUME SearchInv, NEW raw \in Raw, TakeStop(raw)
  PROVE  SearchInv'
<1>1. InBlock(raw)
  BY DEF TakeStop
<1>2a. PICK c \in ClientType, l \in LoopType, g \in SegmentType, w \in BOOLEAN :
         Within(c, l, g, w, raw)
  BY <1>1, WithinBlock
<1>2. /\ c = client /\ l = loop /\ g = segment /\ w = unhandled /\ at = "open" /\ out = <<>>
      /\ Placed(l, g) /\ Counted(c, l, g, "open") /\ (w \/ Numbered(c, l, g))
      /\ raw \in g.open /\ ~l.pre /\ ~l.asked /\ g.begun /\ g.over = "no" /\ c.errors = 0
  BY <1>2a DEF Within
<1>3. PICK m, h, b : /\ m = WithoutHit(l) /\ h = WithoutBlock(g, raw)
                     /\ b = IF l.map[raw] = None THEN raw ELSE l.map[raw]
  OBVIOUS
<1>4. b \in Block \cup Raw
  BY <1>3 DEF LoopType
<1>5. PICK e : e = Stop(b)
  OBVIOUS
<1>6. /\ loop' = m /\ segment' = h /\ client' = c /\ at' = "open" /\ unhandled' = w
      /\ out' = <<e>> /\ l.hit.raw # raw
  BY <1>2, <1>3, <1>5
  DEF TakeStop, Stop, Stop, Index, WithoutHit, WithoutBlock
<1>7. /\ m \in LoopType /\ m.asked = l.asked /\ m.pre = l.pre /\ m.requests = l.requests
      /\ m.hit.raw = None /\ m.hit.index = None /\ m.first = l.first
  BY <1>3 DEF LoopType, WithoutHit, NoHit
<1>8. h \in SegmentType /\ h.begun /\ h.over = "no"
  BY <1>2, <1>3 DEF SegmentType, WithoutBlock
<1>9. Placed(m, h)
  BY <1>2, <1>7, <1>8 DEF Placed
<1>10. PICK d : d = Received(c, e)
  OBVIOUS
<1>11. /\ e \in Said /\ d \in ClientType /\ Counters(d) = Counters(c)
       /\ Others(c, d, b) /\ SameStarts(c, d)
  BY <1>4, <1>5, <1>10, StopReceived
<1>12. Counted(d, m, h, "open")
  BY <1>2, <1>7, <1>8, <1>11 DEF Counted, Counters
<1>13. w \/ (Legal(c, e) /\ Numbered(d, m, h))
  <2> SUFFICES ASSUME ~w PROVE Legal(c, e) /\ Numbered(d, m, h)
    OBVIOUS
  <2>1. l.map[raw] \in Block /\ IsOpen(c, l.map[raw]) /\ l.hit.raw = None
    BY <1>2, <1>6, BlockIsOpen
  <2>2. b \in Block /\ b = l.map[raw] /\ IsOpen(c, b)
    BY <1>3, <2>1, ConverterAssumption
  <2>3. d.block[b].closes = c.block[b].closes + 1
    BY <1>4, <1>5, <1>10, <2>2, StopReceived
  <2>4. Legal(c, e)
    BY <1>2, <1>5, <2>2 DEF Legal, Stop
  <2>5. Numbered(d, m, h)
    BY <1>2, <1>3, <1>7, <1>8, <1>11, <2>1, <2>2, <2>3, StopNumbers
  <2> QED BY <2>4, <2>5
<1> QED BY <1>6, <1>7, <1>8, <1>9, <1>10, <1>11, <1>12, <1>13, EventStep

LEMMA SearchStopKeeps ==
  ASSUME SearchInv, NEW raw \in Raw, TakeSearchStop(raw)
  PROVE  SearchInv'
<1>1. InBlock(raw)
  BY DEF TakeSearchStop
<1>2a. PICK c \in ClientType, l \in LoopType, g \in SegmentType, w \in BOOLEAN :
         Within(c, l, g, w, raw)
  BY <1>1, WithinBlock
<1>2. /\ c = client /\ l = loop /\ g = segment /\ w = unhandled /\ at = "open" /\ out = <<>>
      /\ Placed(l, g) /\ Counted(c, l, g, "open") /\ (w \/ Numbered(c, l, g))
      /\ raw \in g.open /\ ~l.pre /\ ~l.asked /\ g.begun /\ g.over = "no"
      /\ c.starts = 1 /\ c.deltas = 0 /\ c.stops = 0 /\ c.errors = 0
  BY <1>2a DEF Within
<1>3. l.hit.raw = raw
  BY <1>2 DEF TakeSearchStop
<1>4. PICK i \in Block, j \in Block : i = l.hit.index /\ j = i + 1
  <2>1. l.hit.index \in Block \cup {None} /\ l.hit.raw # None
    BY <1>3, SearchConstants DEF LoopType
  <2> QED BY <1>2, <2>1 DEF Placed
<1>5. PICK h : h = WithoutBlock(g, raw)
  OBVIOUS
<1>6. PICK n, r : /\ loop' = [l EXCEPT !.hit = NoHit, !.next = i + 2, !.asked = TRUE,
                                       !.rounds = @ + 1, !.done = n, !.requests = r]
                  /\ n \in Nat /\ r \in Nat /\ r <= MaxUses
  <2>1. l.done \in Nat /\ l.requests \in Nat /\ l.requests <= MaxUses /\ MaxUses \in Nat
    BY <1>2, SearchConstants DEF LoopType, Placed
  <2>2. PICK found \in BOOLEAN :
          LET refused == l.done >= MaxUses
              answered == ~refused /\ found
          IN  loop' = [l EXCEPT !.hit = NoHit, !.next = l.hit.index + 2, !.asked = TRUE,
                                !.rounds = @ + 1,
                                !.done = IF refused \/ answered THEN @ + 1 ELSE @,
                                !.requests = IF answered THEN l.done + 1 ELSE @]
    BY <1>2, Zenon DEF TakeSearchStop
  <2>2a. PICK refused \in BOOLEAN, answered \in BOOLEAN :
           (refused <=> l.done >= MaxUses) /\ (answered <=> ~refused /\ found)
    <3>1. PICK refused \in BOOLEAN : refused <=> l.done >= MaxUses
      <4>1. CASE l.done >= MaxUses
        <5>1. TRUE <=> l.done >= MaxUses
          BY <4>1
        <5> QED BY <5>1
      <4>2. CASE ~(l.done >= MaxUses)
        <5>1. FALSE <=> l.done >= MaxUses
          BY <4>2
        <5> QED BY <5>1
      <4> QED BY <4>1, <4>2
    <3>2. PICK answered \in BOOLEAN : answered <=> ~refused /\ found
      OBVIOUS
    <3> QED BY <3>1, <3>2
  <2>2b. loop' = [l EXCEPT !.hit = NoHit, !.next = i + 2, !.asked = TRUE,
                           !.rounds = @ + 1,
                           !.done = IF refused \/ answered THEN @ + 1 ELSE @,
                           !.requests = IF answered THEN l.done + 1 ELSE @]
    BY <1>4, <2>2, <2>2a
  <2>3. PICK n : n = IF refused \/ answered THEN l.done + 1 ELSE l.done
    OBVIOUS
  <2>4. PICK r : r = IF answered THEN l.done + 1 ELSE l.requests
    OBVIOUS
  <2>5. n \in Nat /\ r \in Nat /\ r <= MaxUses
    <3>1. n \in Nat
      BY <2>1, <2>3
    <3>2. CASE answered
      <4>1. PICK x \in Nat, y \in Nat : x = l.done /\ y = MaxUses
        BY <2>1
      <4>2. ~(x >= y) /\ r = x + 1
        BY <2>2a, <2>4, <3>2, <4>1
      <4> QED BY <3>1, <4>1, <4>2
    <3>3. CASE ~answered
      BY <2>1, <2>4, <3>1, <3>3
    <3> QED BY <3>2, <3>3
  <2>6. loop' = [l EXCEPT !.hit = NoHit, !.next = i + 2, !.asked = TRUE,
                          !.rounds = @ + 1, !.done = n, !.requests = r]
    <3>1. loop' = [l EXCEPT !.hit = NoHit, !.next = i + 2, !.asked = TRUE,
                            !.rounds = l.rounds + 1,
                            !.done = IF refused \/ answered THEN l.done + 1 ELSE l.done,
                            !.requests = IF answered THEN l.done + 1 ELSE l.requests]
      BY <1>2a, <2>2b DEF LoopType
    <3>2. loop' = [l EXCEPT !.hit = NoHit, !.next = i + 2, !.asked = TRUE,
                            !.rounds = l.rounds + 1, !.done = n, !.requests = r]
      BY <2>3, <2>4, <3>1
    <3> QED BY <1>2a, <3>2 DEF LoopType
  <2> QED BY <2>5, <2>6, Zenon
<1>7. PICK m : m = loop'
  OBVIOUS
<1>8. /\ m \in LoopType /\ m.asked /\ ~m.pre /\ m.requests <= MaxUses
      /\ m.hit.raw = None /\ m.hit.index = None /\ m.first = l.first
      /\ m.next = i + 2 /\ m.rounds = l.rounds + 1 /\ m.map = l.map
  <2>1. i + 2 \in Nat /\ l.rounds + 1 \in Nat
    BY BlocksAreNumbers DEF LoopType
  <2>2. NoHit \in [raw: Raw \cup {None}, index: Block \cup {None}]
    BY DEF NoHit
  <2>3. NoHit.raw = None /\ NoHit.index = None
    BY DEF NoHit
  <2>4. PICK no \in [raw: Raw \cup {None}, index: Block \cup {None}] :
          no = NoHit /\ no.raw = None /\ no.index = None
    BY <2>2, <2>3
  <2>5. m = [l EXCEPT !.hit = no, !.next = i + 2, !.asked = TRUE,
                      !.rounds = @ + 1, !.done = n, !.requests = r]
    BY <1>6, <1>7, <2>4
  <2> QED BY <1>2, <1>6, <2>1, <2>4, <2>5 DEF LoopType
<1>9. /\ segment' = h /\ client' = c /\ at' = "open" /\ unhandled' = w
      /\ out' = SearchBlocks(i)
  BY <1>2, <1>4, <1>5 DEF TakeSearchStop, WithoutBlock
<1>10. h \in SegmentType /\ h.begun /\ h.over = "no" /\ h.open = g.open \ {raw} /\ h.next = g.next
  BY <1>2, <1>5 DEF SegmentType, WithoutBlock
<1>11. Placed(m, h)
  BY <1>8, <1>10 DEF Placed
<1>12. PICK q : q = <<>>
  OBVIOUS
<1>13. q \in Seq(Said) /\ Leads(w, c, q, c)
  BY <1>12, Sequences, LeadsNowhere
<1>14. ~w => /\ Used(l) = i /\ g.open = {raw} /\ l.map[raw] = None
  BY <1>2, <1>3, <1>4, SearchConstants DEF Numbered, Mapped, Used
<1>15. \A x \in Block : w \/ ~Going(l, g, x)
  BY <1>14, ConverterAssumption DEF Going
<1>16. w \/ Unopened(c, i, j)
  <2> SUFFICES ASSUME ~w, NEW x \in {i, j}
               PROVE  c.block[x].opens = 0 /\ c.block[x].closes = 0
    BY DEF Unopened
  <2>1. x \in Block /\ ~(x < Used(l))
    BY <1>4, <1>14, BlocksAreNumbers
  <2> QED BY <1>2, <2>1 DEF Numbered, Opened
<1>17. PICK f \in ClientType : SearchTold(w, c, q, c, i, j, f)
  BY <1>2, <1>4, <1>13, <1>16, SearchBlocksLead
<1>18. /\ q \o SearchBlocks(i) \in Seq(Said)
       /\ Leads(w, c, q \o SearchBlocks(i), f)
       /\ Counters(f) = Counters(c)
       /\ \A x \in Block \ {i, j} : f.block[x] = c.block[x]
       /\ w \/ \A x \in {i, j} : /\ f.block[x].opens = 1 /\ f.block[x].closes = 1
                                 /\ f.block[x].source = "search"
  BY <1>17 DEF SearchTold
<1>19. q \o SearchBlocks(i) = SearchBlocks(i)
  BY <1>12 DEF SearchBlocks
<1>20. Counted(f, m, h, "open")
  BY <1>2, <1>8, <1>10, <1>18 DEF Counted, Counters
<1>21. w \/ Numbered(f, m, h)
  <2> SUFFICES ASSUME ~w PROVE Numbered(f, m, h)
    OBVIOUS
  <2>1. Numbered(c, l, g) /\ Used(l) = i /\ Used(m) = i + 2 /\ h.open = {}
    BY <1>2, <1>8, <1>10, <1>14 DEF Used
  <2>2. \A r1 \in Raw : r1 >= h.next => m.map[r1] = None
    BY <1>8, <1>10, <2>1 DEF Numbered, Mapped
  <2>3. m.rounds = IF l.pre THEN 1 ELSE l.rounds + 1
    BY <1>2, <1>8
  <2>4. \A x \in Block : ~Going(l, g, x)
    BY <1>15
  <2>5. \A x \in {i, j} : /\ f.block[x].opens = 1 /\ f.block[x].closes = 1
                          /\ f.block[x].source = "search"
    BY <1>18
  <2>6. \A x \in Block \ {i, j} : f.block[x] = c.block[x]
    BY <1>18
  <2>7. ~m.pre /\ m.hit.raw = None /\ m \in LoopType /\ h \in SegmentType /\ j = i + 1
    BY <1>4, <1>8, <1>10
  <2> QED BY <2>1, <2>2, <2>3, <2>4, <2>5, <2>6, <2>7, SearchNumbers
<1>22. PICK a : a = SearchBlocks(i)
  OBVIOUS
<1>23. a \in Seq(Said) /\ Leads(w, c, a, f)
  BY <1>18, <1>19, <1>22
<1>24. Fits(w, a, "open", c, m, h)
  BY <1>20, <1>21, <1>23 DEF Fits
<1> QED BY <1>7, <1>8, <1>9, <1>10, <1>11, <1>22, <1>23, <1>24, StepKept

\* The end of a segment, and the next one.
LEMMA SegmentEndKeeps ==
  ASSUME SearchInv, TakeMessageDelta \/ TakeMessageStop
  PROVE  SearchInv'
<1>1. /\ Polls /\ ~loop.asked
      /\ segment.over = "delta" \/ (segment.begun /\ segment.open = {})
  BY DEF TakeMessageDelta, TakeMessageStop, Reading, Reads, Polls
<1>2. PICK c \in ClientType, l \in LoopType, g \in SegmentType, w \in BOOLEAN :
        /\ c = client /\ l = loop /\ g = segment /\ w = unhandled /\ at = "open" /\ out = <<>>
        /\ Placed(l, g) /\ Counted(c, l, g, "open") /\ (w \/ Numbered(c, l, g))
  BY <1>1, AtRest DEF TakeMessageDelta, TakeMessageStop, Reading, Reads,
                      Polls
<1>3. PICK o \in {"delta", "stop"} : segment' = [g EXCEPT !.over = o]
  BY <1>2 DEF TakeMessageDelta, TakeMessageStop
<1>4. PICK h : h = [g EXCEPT !.over = o]
  OBVIOUS
<1>5. segment' = h /\ loop' = l /\ client' = c /\ at' = "open" /\ unhandled' = w /\ out' = <<>>
  BY <1>2, <1>3, <1>4 DEF TakeMessageDelta, TakeMessageStop
<1>6. /\ h \in SegmentType /\ h.begun = g.begun /\ h.open = g.open /\ h.next = g.next
  BY <1>4 DEF SegmentType
<1>7. g.begun /\ g.open = {}
  BY <1>1, <1>2 DEF Placed
<1>8. Placed(l, h)
  BY <1>2, <1>6, <1>7 DEF Placed
<1>9. Counted(c, l, h, "open")
  BY <1>2, <1>6 DEF Counted
<1>10. w \/ Numbered(c, l, h)
  BY <1>2, <1>6 DEF Numbered, Opened, Mapped, Going
<1> QED BY <1>2, <1>5, <1>6, <1>8, <1>9, <1>10, SilentStep

LEMMA ContinueKeeps ==
  ASSUME SearchInv, Continue
  PROVE  SearchInv'
<1>1. Polls /\ loop.asked
  BY DEF Continue
<1>2. PICK c \in ClientType, l \in LoopType, g \in SegmentType, w \in BOOLEAN :
        /\ c = client /\ l = loop /\ g = segment /\ w = unhandled /\ at = "open" /\ out = <<>>
        /\ Placed(l, g) /\ Counted(c, l, g, "open") /\ (w \/ Numbered(c, l, g))
  BY <1>1, AtRest
<1>3. PICK h : h = NewSegment
  OBVIOUS
<1>4. PICK m : m = [l EXCEPT !.asked = FALSE, !.first = FALSE, !.map = NewMap]
  OBVIOUS
<1>5. segment' = h /\ loop' = m /\ client' = c /\ at' = "open" /\ unhandled' = w /\ out' = <<>>
  BY <1>2, <1>3, <1>4 DEF Continue
<1>6. NewMap \in [Raw -> Block \cup {None}] /\ NewMap \in [Raw -> Source \cup {None}]
  BY DEF NewMap
<1>7. h \in SegmentType /\ h.open = {} /\ h.next = 0 /\ h.over = "no" /\ ~h.begun
  BY <1>3, <1>6 DEF NewSegment, SegmentType
<1>8. /\ m \in LoopType /\ ~m.asked /\ ~m.first /\ m.map = NewMap /\ m.pre = l.pre
      /\ m.hit = l.hit /\ m.next = l.next /\ m.rounds = l.rounds /\ m.requests = l.requests
  BY <1>4, <1>6 DEF LoopType
<1>9. g.begun /\ ~l.pre
  BY <1>1, <1>2 DEF Placed
<1>10. Placed(m, h)
  BY <1>2, <1>7, <1>8, <1>9 DEF Placed
<1>11. Counted(c, m, h, "open")
  BY <1>2, <1>8, <1>9 DEF Counted
<1>12. w \/ Numbered(c, m, h)
  <2> SUFFICES ASSUME ~w PROVE Numbered(c, m, h)
    OBVIOUS
  <2>1. Numbered(c, l, g)
    BY <1>2
  <2>2. g.open = {} /\ l.hit.raw = None
    BY <1>1, <1>2, <2>1 DEF Numbered, Mapped
  <2>3. \A x \in Block : ~Going(l, g, x) /\ ~Going(m, h, x)
    BY <1>7, <2>2 DEF Going
  <2>4. Used(m) = Used(l)
    BY <1>8 DEF Used
  <2>5. Opened(c, m, h)
    BY <2>1, <2>3, <2>4 DEF Numbered, Opened
  <2>6. \A r \in Raw : m.map[r] = None
    BY <1>8 DEF NewMap
  <2>7. Mapped(m, h)
    BY <1>7, <1>8, <2>2, <2>6 DEF Mapped
  <2> QED BY <1>8, <2>1, <2>5, <2>7 DEF Numbered, Reported
<1> QED BY <1>2, <1>5, <1>7, <1>8, <1>10, <1>11, <1>12, SilentStep

\* An error ends the stream, be it one of the segment or of the next request.
LEMMA FailureKeeps ==
  ASSUME SearchInv, TakeError \/ ContinueFails
  PROVE  SearchInv'
<1>1. Polls
  BY DEF TakeError, ContinueFails
<1>2. PICK c \in ClientType, l \in LoopType, g \in SegmentType, w \in BOOLEAN :
        /\ c = client /\ l = loop /\ g = segment /\ w = unhandled /\ at = "open" /\ out = <<>>
        /\ Placed(l, g) /\ Counted(c, l, g, "open") /\ (w \/ Numbered(c, l, g))
  BY <1>1, AtRest
<1>3. PICK m : m = [l EXCEPT !.asked = FALSE]
  OBVIOUS
<1>4. PICK t \in {"message_start", "message_delta", "message_stop", "error"} : t = "error"
  OBVIOUS
<1>5. /\ segment' = g /\ loop' = m /\ client' = c /\ at' = "ended" /\ unhandled' = w
      /\ out' = <<Plain(t)>>
  <2>1. CASE TakeError
    <3>1. m = l
      BY <1>2, <1>3, <2>1 DEF TakeError, LoopType
    <3> QED BY <1>2, <1>4, <2>1, <3>1 DEF TakeError, Plain
  <2>2. CASE ContinueFails
    BY <1>2, <1>3, <1>4, <2>2 DEF ContinueFails, Plain
  <2> QED BY <2>1, <2>2
<1>6. /\ m \in LoopType /\ ~m.asked /\ m.pre = l.pre /\ m.first = l.first /\ m.map = l.map
      /\ m.hit = l.hit /\ m.next = l.next /\ m.rounds = l.rounds /\ m.requests = l.requests
  BY <1>3 DEF LoopType
<1>7. Placed(m, g)
  BY <1>2, <1>6 DEF Placed
<1>8. PICK d : d = Received(c, Plain(t))
  OBVIOUS
<1>9. /\ Plain(t) \in Said /\ d \in ClientType /\ d.block = c.block
      /\ d.starts = c.starts + 0 /\ d.errors = c.errors + 1
  BY <1>4, <1>8, PlainReceived
<1>10. Legal(c, Plain(t))
  BY <1>4 DEF Legal, Plain
<1>11. Counted(d, m, g, "ended")
  BY <1>2, <1>6, <1>9 DEF Counted, ClientType
<1>12. w \/ Numbered(d, m, g)
  <2>1. SameStarts(c, d) /\ SameStops(c, d)
    BY <1>9 DEF SameStarts, SameStops
  <2>2. w \/ Numbered(d, l, g)
    BY <1>2, <1>9, <2>1, SameBlocks
  <2> QED BY <1>6, <2>2 DEF Numbered, Opened, Mapped, Reported, Used, Going
<1> QED BY <1>2, <1>5, <1>6, <1>7, <1>8, <1>9, <1>10, <1>11, <1>12, EventStep

\* The end of the last segment is the end of the message.
LEMMA EndKeeps ==
  ASSUME SearchInv, EndOfSegment
  PROVE  SearchInv'
<1>1. Polls /\ segment.over = "stop"
  BY DEF EndOfSegment
<1>2. PICK c \in ClientType, l \in LoopType, g \in SegmentType, w \in BOOLEAN :
        /\ c = client /\ l = loop /\ g = segment /\ w = unhandled /\ at = "open" /\ out = <<>>
        /\ Placed(l, g) /\ Counted(c, l, g, "open") /\ (w \/ Numbered(c, l, g))
  BY <1>1, AtRest
<1>3. g.begun /\ g.open = {}
  BY <1>1, <1>2 DEF Placed
<1>4. c.starts = 1 /\ c.deltas = 0 /\ c.stops = 0 /\ c.errors = 0
  BY <1>2, <1>3 DEF Counted
<1>5. PICK t \in {"message_start", "message_delta", "message_stop", "error"} :
        t = "message_delta"
  OBVIOUS
<1>6. PICK u \in {"message_start", "message_delta", "message_stop", "error"} :
        u = "message_stop"
  OBVIOUS
<1>7. PICK e1, e2 : e1 = Plain(t) /\ e2 = Plain(u)
  OBVIOUS
<1>8. PICK d1 : d1 = Received(c, e1)
  OBVIOUS
<1>9. PICK d2 : d2 = Received(d1, e2)
  OBVIOUS
<1>10. /\ e1 \in Said /\ d1 \in ClientType /\ d1.block = c.block
       /\ d1.starts = c.starts + 0 /\ d1.deltas = c.deltas + 1
       /\ d1.stops = c.stops + 0 /\ d1.errors = c.errors + 0
  BY <1>5, <1>7, <1>8, PlainReceived
<1>11. /\ e2 \in Said /\ d2 \in ClientType /\ d2.block = d1.block
       /\ d2.starts = d1.starts + 0 /\ d2.deltas = d1.deltas + 0
       /\ d2.stops = d1.stops + 1 /\ d2.errors = d1.errors + 0
  BY <1>6, <1>7, <1>9, <1>10, PlainReceived
<1>12. w \/ \A b \in Block : ~IsOpen(c, b)
  BY <1>2, <1>3 DEF Numbered, Opened, Going, IsOpen
<1>13. w \/ Legal(c, e1)
  BY <1>4, <1>5, <1>7, <1>12 DEF Legal, Plain
<1>14. Legal(d1, e2)
  BY <1>4, <1>6, <1>7, <1>10 DEF Legal, Plain
<1>15. PICK q \in Seq(Said) : q = <<>>
  BY Sequences
<1>16. PICK q1 : q1 = Append(q, e1)
  OBVIOUS
<1>17. PICK q2 : q2 = Append(q1, e2)
  OBVIOUS
<1>18. q1 \in Seq(Said)
  BY <1>10, <1>15, <1>16, Sequences
<1>19. q2 \in Seq(Said)
  BY <1>11, <1>17, <1>18, Sequences
<1>20. Leads(w, c, q1, d1)
  <2>1. Leads(w, c, q, c)
    BY <1>15, LeadsNowhere
  <2> QED BY <1>8, <1>10, <1>13, <1>15, <1>16, <2>1, LeadsOn
<1>21. Leads(w, c, q2, d2)
  BY <1>9, <1>11, <1>14, <1>17, <1>18, <1>20, LeadsOn
<1>22. q2 = <<e1, e2>>
  <2>1. q2 = q \o <<e1, e2>>
    BY <1>10, <1>11, <1>15, <1>16, <1>17, TwoMore
  <2>2. <<e1, e2>> \in Seq(Said)
    BY <1>10, <1>11
  <2>3. PICK p \in Seq(Said) : p = <<e1, e2>>
    BY <2>2
  <2>4. q \o p = p
    BY <1>15
  <2> QED BY <2>1, <2>3, <2>4
<1>23. Counted(d2, l, g, "ended")
  BY <1>3, <1>4, <1>10, <1>11 DEF Counted
<1>24. w \/ Numbered(d2, l, g)
  <2>1. SameStarts(c, d2) /\ SameStops(c, d2)
    BY <1>10, <1>11 DEF SameStarts, SameStops
  <2> QED BY <1>2, <1>11, <2>1, SameBlocks
<1>25. Fits(w, q2, "ended", c, l, g)
  BY <1>11, <1>21, <1>23, <1>24 DEF Fits
<1>26. /\ segment' = g /\ loop' = l /\ client' = c /\ at' = "ended" /\ unhandled' = w
       /\ out' = q2
  BY <1>2, <1>5, <1>6, <1>7, <1>22 DEF EndOfSegment, Plain
<1> QED BY <1>2, <1>19, <1>25, <1>26, StepKept

(***************************************************************************)
(* What is yielded.                                                        *)
(***************************************************************************)
LEMMA Yields ==
  ASSUME SearchInv, Yield
  PROVE  \E c \in ClientType, e \in Said, w \in BOOLEAN :
           /\ c = client /\ w = unhandled /\ client' = Received(c, e)
           /\ (w \/ Legal(c, e)) /\ SearchInv'
<1>1. /\ out # <<>> /\ out' = Tail(out) /\ UNCHANGED <<at, unhandled, loop, segment>>
      /\ client' = Received(client, Head(out))
  BY DEF Yield, YieldEvent
<1>2. PICK q \in Seq(Said), w \in BOOLEAN, l \in LoopType, g \in SegmentType,
           now \in {"open", "ended"} :
        q = out /\ w = unhandled /\ l = loop /\ g = segment /\ now = at
  BY DEF SearchInv, SearchTypes
<1>3. PICK c : c = client
  OBVIOUS
<1>4. PICK d \in ClientType : /\ Leads(w, c, q, d) /\ Counted(d, l, g, now)
                              /\ w \/ Numbered(d, l, g)
  BY <1>2, <1>3 DEF SearchInv, Fits
<1>5. PICK e : e = Head(q)
  OBVIOUS
<1>6. e \in Said /\ Tail(q) \in Seq(Said) /\ q # <<>>
  BY <1>1, <1>2, <1>5
<1>7. (w \/ Legal(c, e)) /\ c \in ClientType /\ Leads(w, Received(c, e), Tail(q), d)
  BY <1>4, <1>5, <1>6, LeadsFirst
<1>8. client' = Received(c, e)
  BY <1>1, <1>2, <1>3, <1>5
<1>9. PICK k : k = Received(c, e)
  OBVIOUS
<1>10. PICK r : r = Tail(q)
  OBVIOUS
<1>11. Fits(w, r, now, k, l, g)
  BY <1>4, <1>7, <1>9, <1>10 DEF Fits
<1>12. Placed(l, g)
  BY <1>2 DEF SearchInv
<1>13. /\ unhandled' = w /\ out' = r /\ at' = now /\ client' = k /\ loop' = l /\ segment' = g
  BY <1>1, <1>2, <1>8, <1>9, <1>10
<1>14. SearchInv'
  BY <1>2, <1>6, <1>10, <1>11, <1>12, <1>13, StepKept
<1> QED BY <1>2, <1>3, <1>6, <1>7, <1>8, <1>14

\* An event that a client accepts is a step of the message it is.
LEMMA LegalIsLawful ==
  ASSUME client \in ClientType, NEW e \in Said, client' = Received(client, e),
         Legal(client, e)
  PROVE  M!Next
<1>1. PICK c \in ClientType : c = client
  OBVIOUS
<1>2. PICK d \in ClientType : d = client'
  BY <1>1, ReceivedType
<1>3. d = Received(c, e) /\ Legal(c, e)
  BY <1>1, <1>2
<1>4. c.block \in [Block -> BlockType] /\ d.block \in [Block -> BlockType]
  BY DEF ClientType
<1>5. CASE e.type = "message_start"
  <2>1. d = [c EXCEPT !.starts = @ + 1]
    BY <1>3, <1>5 DEF Received
  <2>2. /\ c.starts = 0 /\ c.errors = 0 /\ d.starts = 1 /\ d.block = c.block
        /\ d.deltas = c.deltas /\ d.stops = c.stops /\ d.errors = c.errors
    BY <1>3, <1>5, <2>1 DEF Legal, ClientType
  <2>3. M!Begin
    BY <1>1, <1>2, <2>2 DEF M!Begin
  <2> QED BY <2>3 DEF M!Next
<1>6. CASE e.type = "message_delta"
  <2>1. d = [c EXCEPT !.deltas = @ + 1]
    BY <1>3, <1>6 DEF Received
  <2>2. /\ c.starts = 1 /\ c.deltas = 0 /\ c.errors = 0 /\ d.deltas = 1
        /\ d.block = c.block /\ \A b \in Block : ~IsOpen(c, b)
        /\ d.starts = c.starts /\ d.stops = c.stops /\ d.errors = c.errors
    BY <1>3, <1>6, <2>1 DEF Legal, ClientType
  <2>3. M!Finish
    BY <1>1, <1>2, <2>2 DEF M!Finish, M!IsOpen, IsOpen
  <2> QED BY <2>3 DEF M!Next
<1>7. CASE e.type = "message_stop"
  <2>1. d = [c EXCEPT !.stops = @ + 1]
    BY <1>3, <1>7 DEF Received
  <2>2. /\ c.deltas = 1 /\ c.stops = 0 /\ c.errors = 0 /\ d.stops = 1
        /\ d.block = c.block /\ d.starts = c.starts /\ d.deltas = c.deltas
        /\ d.errors = c.errors
    BY <1>3, <1>7, <2>1 DEF Legal, ClientType
  <2>3. M!Stop
    BY <1>1, <1>2, <2>2 DEF M!Stop
  <2> QED BY <2>3 DEF M!Next
<1>8. CASE e.type = "error"
  <2>1. d = [c EXCEPT !.errors = @ + 1]
    BY <1>3, <1>8 DEF Received
  <2>2. /\ d.errors = c.errors + 1 /\ d.block = c.block /\ d.starts = c.starts
        /\ d.deltas = c.deltas /\ d.stops = c.stops
    BY <2>1 DEF ClientType
  <2>3. M!Fail
    BY <1>1, <1>2, <2>2 DEF M!Fail
  <2> QED BY <2>3 DEF M!Next
<1>9. CASE e.type = "start"
  <2>1. PICK b \in Block : b = e.block
    BY <1>3, <1>9 DEF Legal
  <2>2. d = [c EXCEPT !.block[b].opens = @ + 1, !.block[b].source = e.source]
    BY <1>3, <1>9, <2>1 DEF Received
  <2>3. PICK f : f = [c.block EXCEPT ![b].opens = @ + 1, ![b].source = e.source]
    OBVIOUS
  <2>4. /\ d.block = f /\ d.starts = c.starts /\ d.deltas = c.deltas
        /\ d.stops = c.stops /\ d.errors = c.errors
    BY <2>2, <2>3 DEF ClientType
  <2>5. /\ c.starts = 1 /\ c.deltas = 0 /\ c.stops = 0 /\ c.errors = 0
        /\ c.block[b].opens = 0
    BY <1>3, <1>9, <2>1 DEF Legal
  <2>6. /\ f[b].opens = 1 /\ \A x \in Block \ {b} : f[x] = c.block[x]
        /\ \A x \in Block : f[x].closes = c.block[x].closes /\ f[x].size = c.block[x].size
    BY <1>4, <2>3, <2>5 DEF BlockType
  <2>7. M!Open(b)
    <3>1. [x \in Block |-> d.block[x].opens] = [[x \in Block |-> c.block[x].opens] EXCEPT ![b] = 1]
      BY <2>4, <2>6
    <3>2. /\ [x \in Block |-> d.block[x].closes] = [x \in Block |-> c.block[x].closes]
          /\ [x \in Block |-> d.block[x].size] = [x \in Block |-> c.block[x].size]
      BY <2>4, <2>6
    <3>3. [x \in Block |-> c.block[x].opens][b] = 0
      BY <2>5
    <3> QED BY <1>1, <1>2, <2>4, <2>5, <3>1, <3>2, <3>3 DEF M!Open
  <2> QED BY <2>7 DEF M!Next
<1>10. CASE e.type = "delta"
  <2>1. PICK b \in Block : b = e.block
    BY <1>3, <1>10 DEF Legal
  <2>2. d = [c EXCEPT !.block[b].size = @ + e.size]
    BY <1>3, <1>10, <2>1 DEF Received
  <2>3. PICK f : f = [c.block EXCEPT ![b].size = @ + e.size]
    OBVIOUS
  <2>4. /\ d.block = f /\ d.starts = c.starts /\ d.deltas = c.deltas
        /\ d.stops = c.stops /\ d.errors = c.errors
    BY <2>2, <2>3 DEF ClientType
  <2>5. PICK n \in Nat : n = e.size /\ n > 0 /\ c.errors = 0 /\ IsOpen(c, b)
    BY <1>3, <1>10, <2>1 DEF Legal, Said
  <2>6. /\ f[b].size > c.block[b].size /\ \A x \in Block \ {b} : f[x] = c.block[x]
        /\ \A x \in Block : f[x].closes = c.block[x].closes /\ f[x].opens = c.block[x].opens
    BY <1>4, <2>3, <2>5 DEF BlockType
  <2>7. M!Extend(b)
    <3>1. [x \in Block |-> d.block[x].size]
            = [[x \in Block |-> c.block[x].size] EXCEPT ![b] = d.block[b].size]
      BY <2>4, <2>6
    <3>2. /\ [x \in Block |-> d.block[x].closes] = [x \in Block |-> c.block[x].closes]
          /\ [x \in Block |-> d.block[x].opens] = [x \in Block |-> c.block[x].opens]
      BY <2>4, <2>6
    <3>3. /\ [x \in Block |-> c.block[x].opens][b] = 1 /\ [x \in Block |-> c.block[x].closes][b] = 0
      BY <2>5 DEF IsOpen
    <3>4. /\ [x \in Block |-> d.block[x].size][b] = d.block[b].size
          /\ [x \in Block |-> c.block[x].size][b] = c.block[b].size
      OBVIOUS
    <3> QED BY <1>1, <1>2, <2>4, <2>5, <2>6, <3>1, <3>2, <3>3, <3>4 DEF M!Extend, M!IsOpen
  <2> QED BY <2>7 DEF M!Next
<1>11. CASE e.type = "stop"
  <2>1. PICK b \in Block : b = e.block
    BY <1>3, <1>11 DEF Legal
  <2>2. d = [c EXCEPT !.block[b].closes = @ + 1]
    BY <1>3, <1>11, <2>1 DEF Received
  <2>3. PICK f : f = [c.block EXCEPT ![b].closes = @ + 1]
    OBVIOUS
  <2>4. /\ d.block = f /\ d.starts = c.starts /\ d.deltas = c.deltas
        /\ d.stops = c.stops /\ d.errors = c.errors
    BY <2>2, <2>3 DEF ClientType
  <2>5. c.errors = 0 /\ c.block[b].opens = 1 /\ c.block[b].closes = 0
    BY <1>3, <1>11, <2>1 DEF Legal, IsOpen
  <2>6. /\ f[b].closes = 1 /\ \A x \in Block \ {b} : f[x] = c.block[x]
        /\ \A x \in Block : f[x].opens = c.block[x].opens /\ f[x].size = c.block[x].size
    BY <1>4, <2>3, <2>5 DEF BlockType
  <2>7. M!Close(b)
    <3>1. [x \in Block |-> d.block[x].closes]
            = [[x \in Block |-> c.block[x].closes] EXCEPT ![b] = 1]
      BY <2>4, <2>6
    <3>2. /\ [x \in Block |-> d.block[x].opens] = [x \in Block |-> c.block[x].opens]
          /\ [x \in Block |-> d.block[x].size] = [x \in Block |-> c.block[x].size]
      BY <2>4, <2>6
    <3>3. /\ [x \in Block |-> c.block[x].opens][b] = 1 /\ [x \in Block |-> c.block[x].closes][b] = 0
      BY <2>5
    <3> QED BY <1>1, <1>2, <2>4, <2>5, <3>1, <3>2, <3>3 DEF M!Close, M!IsOpen
  <2> QED BY <2>7 DEF M!Next
<1> QED BY <1>5, <1>6, <1>7, <1>8, <1>9, <1>10, <1>11 DEF Said, EventTypes

(***************************************************************************)
(* The theorems.                                                           *)
(***************************************************************************)
LEMMA LoopBegins ==
  ASSUME Init
  PROVE  SearchInv /\ M!Init
<1>2. /\ out = <<>> /\ client = NewClient /\ at = "open" /\ unhandled = FALSE
      /\ segment = NewSegment
  BY DEF Init, SharedInit
<1>3. PICK p \in BOOLEAN : loop = NewLoop(p)
  BY DEF Init
<1>4. PICK l : l = loop
  OBVIOUS
<1>5. NewMap \in [Raw -> Block \cup {None}] /\ NewMap \in [Raw -> Source \cup {None}]
  BY DEF NewMap
<1>6. NoHit \in [raw: Raw \cup {None}, index: Block \cup {None}]
  BY DEF NoHit
<1>7. /\ l \in LoopType /\ l.first /\ ~l.asked /\ l.map = NewMap
      /\ l.hit.raw = None /\ l.hit.index = None /\ l.pre = p
      /\ l.next = (IF p THEN 2 ELSE 0) /\ l.rounds = (IF p THEN 1 ELSE 0)
      /\ l.requests <= MaxUses
  <2>1. l = [next |-> IF p THEN 2 ELSE 0, done |-> IF p THEN 1 ELSE 0,
             requests |-> IF p THEN 1 ELSE 0, pre |-> p, first |-> TRUE, map |-> NewMap,
             hit |-> NoHit, asked |-> FALSE, rounds |-> IF p THEN 1 ELSE 0]
    BY <1>3, <1>4 DEF NewLoop
  <2>2. NoHit.raw = None /\ NoHit.index = None
    BY DEF NoHit
  <2>3. l \in LoopType
    BY <1>5, <1>6, <2>1 DEF LoopType
  <2> QED BY <2>1, <2>2, <2>3, SearchConstants
<1>8. PICK g : g = segment
  OBVIOUS
<1>9. g \in SegmentType /\ ~g.begun /\ g.open = {} /\ g.next = 0 /\ g.over = "no"
  BY <1>2, <1>5, <1>8 DEF NewSegment, SegmentType
<1>10. Placed(l, g)
  BY <1>7, <1>9 DEF Placed
<1>11. PICK c : c = client
  OBVIOUS
<1>12. c \in ClientType /\ c.starts = 0 /\ c.deltas = 0 /\ c.stops = 0 /\ c.errors = 0
  BY <1>2, <1>11 DEF NewClient, ClientType, BlockType
<1>13. \A b \in Block : /\ c.block[b].opens = 0 /\ c.block[b].closes = 0
                        /\ c.block[b].size = 0 /\ c.block[b].source = None
  BY <1>2, <1>11 DEF NewClient
<1>14. Counted(c, l, g, "open")
  BY <1>7, <1>9, <1>12 DEF Counted
<1>15. Numbered(c, l, g)
  <2>1. \A b \in Block : ~(b < Used(l))
    BY <1>7, BlocksAreNumbers DEF Used
  <2>2. Opened(c, l, g)
    BY <1>13, <2>1 DEF Opened, IsOpen
  <2>3. Mapped(l, g)
    BY <1>7, <1>9 DEF Mapped, NewMap
  <2>4. SearchesIn(c) = {}
    BY <1>13 DEF SearchesIn
  <2>5. Cardinality({}) = 0
    BY FS_EmptySet
  <2> QED BY <1>7, <2>2, <2>3, <2>4, <2>5 DEF Numbered, Reported
<1>16. Fits(FALSE, <<>>, "open", c, l, g)
  BY <1>12, <1>14, <1>15, SaysNothing
<1>17. out \in Seq(Said)
  BY <1>2, Sequences
<1>18. SearchInv
  BY <1>2, <1>4, <1>7, <1>8, <1>9, <1>10, <1>11, <1>16, <1>17 DEF SearchInv, SearchTypes
<1>19. M!Init
  BY <1>11, <1>12, <1>13 DEF M!Init
<1> QED BY <1>18, <1>19

LEMMA LoopSteps ==
  ASSUME SearchInv, Next
  PROVE  SearchInv' /\ (M!Next \/ unhandled \/ UNCHANGED client)
<1>1. CASE Yield
  <2>1. PICK c \in ClientType, e \in Said, w \in BOOLEAN :
          /\ c = client /\ w = unhandled /\ client' = Received(c, e)
          /\ (w \/ Legal(c, e)) /\ SearchInv'
    BY <1>1, Yields
  <2>2. CASE w
    BY <2>1, <2>2
  <2>3. CASE ~w
    <3>1. client \in ClientType /\ client' = Received(client, e) /\ Legal(client, e)
      BY <2>1, <2>3
    <3> QED BY <2>1, <3>1, LegalIsLawful
  <2> QED BY <2>2, <2>3
<1>2. CASE TakeMessageStart
  BY <1>2, MessageStartKeeps DEF TakeMessageStart
<1>3. CASE TakeSearchStart
  BY <1>3, SearchStartKeeps DEF TakeSearchStart, StartedBy
<1>4. CASE TakeMessageDelta
  BY <1>4, SegmentEndKeeps DEF TakeMessageDelta
<1>5. CASE TakeMessageStop
  BY <1>5, SegmentEndKeeps DEF TakeMessageStop
<1>6. ASSUME NEW src \in Source \ {"search"}, TakeBlockStart(src)
      PROVE  SearchInv' /\ UNCHANGED client
  BY <1>6, BlockStartKeeps, Zenon DEF TakeBlockStart, StartedBy
<1>7. ASSUME NEW raw \in Raw, TakeDelta(raw)
      PROVE  SearchInv' /\ UNCHANGED client
  BY <1>7, DeltaKeeps DEF TakeDelta
<1>8. ASSUME NEW raw \in Raw, TakeStop(raw)
      PROVE  SearchInv' /\ UNCHANGED client
  BY <1>8, StopKeeps DEF TakeStop
<1>9. ASSUME NEW raw \in Raw, TakeSearchStop(raw)
      PROVE  SearchInv' /\ UNCHANGED client
  BY <1>9, SearchStopKeeps, Zenon DEF TakeSearchStop
<1>10. CASE TakeError
  BY <1>10, FailureKeeps DEF TakeError
<1>11. CASE EndOfSegment
  BY <1>11, EndKeeps DEF EndOfSegment
<1>12. CASE Continue
  BY <1>12, ContinueKeeps DEF Continue
<1>13. CASE ContinueFails
  BY <1>13, FailureKeeps DEF ContinueFails
<1> QED BY <1>1, <1>2, <1>3, <1>4, <1>5, <1>6, <1>7, <1>8, <1>9, <1>10, <1>11, <1>12, <1>13
        DEF Next

LEMMA LoopStutters ==
  ASSUME SearchInv, UNCHANGED <<loop, segment, shared>>
  PROVE  SearchInv'
<1>1. UNCHANGED <<loop, segment, out, client, at, unhandled>>
  BY DEF shared
<1>2. PICK q \in Seq(Said), w \in BOOLEAN, l \in LoopType, g \in SegmentType,
           now \in {"open", "ended"} :
        q = out /\ w = unhandled /\ l = loop /\ g = segment /\ now = at
  BY DEF SearchInv, SearchTypes
<1>3. PICK c : c = client
  OBVIOUS
<1>4. Placed(l, g) /\ Fits(w, q, now, c, l, g)
  BY <1>2, <1>3 DEF SearchInv
<1> QED BY <1>1, <1>2, <1>3, <1>4, StepKept

LEMMA LoopKeeps ==
  ASSUME SearchInv, Next \/ UNCHANGED <<loop, segment, shared>>
  PROVE  SearchInv' /\ (M!Next \/ unhandled \/ UNCHANGED client)
<1>1. CASE Next
  BY <1>1, LoopSteps
<1>2. CASE UNCHANGED <<loop, segment, shared>>
  <2>1. UNCHANGED client
    BY <1>2 DEF shared
  <2> QED BY <1>2, <2>1, LoopStutters
<1> QED BY <1>1, <1>2

\* What the invariant says of the searches and of the end of the stream.
LEMMA SearchesInvTold ==
  ASSUME SearchInv
  PROVE  SearchesAreTold
<1> SUFFICES ASSUME ~unhandled, out = <<>>, ~loop.pre
             PROVE  /\ Cardinality(SearchesTold) = 2 * loop.rounds
                    /\ loop.requests <= MaxUses
  BY DEF SearchesAreTold
<1>1. Numbered(client, loop, segment)
  BY NothingToYield
<1>2. Cardinality(SearchesIn(client)) = 2 * loop.rounds
  BY <1>1 DEF Numbered, Reported
<1>3. SearchesTold = SearchesIn(client)
  BY DEF SearchesTold, SearchesIn
<1>4. loop.requests <= MaxUses
  BY DEF SearchInv, Placed
<1> QED BY <1>2, <1>3, <1>4

LEMMA EndInvProper ==
  ASSUME SearchInv
  PROVE  EndsProperly
<1> SUFFICES ASSUME at = "ended", out = <<>>, client.errors = 0
             PROVE  client.starts = 1 /\ client.deltas = 1 /\ client.stops = 1
  BY DEF EndsProperly, Settled
<1>1. Counted(client, loop, segment, at)
  BY NothingToYield
<1> QED BY <1>1 DEF Counted

(***************************************************************************)
(* The theorems.                                                           *)
(***************************************************************************)
\* The locals of the loop, the segment it reads and the client, with what it has yet to
\* be sent, go together as SearchInv says, in every state of every run.
THEOREM SearchIsKept == Spec => []SearchInv
<1>1. Init => SearchInv
  BY LoopBegins
<1>2. SearchInv /\ [Next]_vars => SearchInv'
  BY LoopKeeps DEF vars
<1> QED BY <1>1, <1>2, PTL DEF Spec

\* Every search the continued request carries was told the client in two blocks of its
\* own, closed by now, and no more searches than the request may make found something;
\* but where a search Overlaps another block.
THEOREM EverySearchIsTold == Spec => []SearchesAreTold
<1>1. SearchInv => SearchesAreTold
  BY SearchesInvTold
<1> QED BY <1>1, SearchIsKept, PTL

\* A stream of the loop that is over without an error was one whole message, however many
\* segments it was made of.
THEOREM SearchEndsProperly == Spec => []EndsProperly
<1>1. SearchInv => EndsProperly
  BY EndInvProper
<1> QED BY <1>1, SearchIsKept, PTL

\* What the client of the loop receives is one message in the making: no index is used
\* twice, nothing is said in a block that is not open, and nothing follows the end.  That
\* is for answers of any number of blocks and of calls, side by side or one after the
\* other, but for one case: a search that Overlaps another block (SearchLoop), as parallel
\* calls of a Chat upstream do.  There the code breaks the message (AlwaysLawful).
THEOREM SearchIsLawful == Spec => LawfulMessage
<1>1. Init => M!Init
  BY LoopBegins
<1>2. SearchInv /\ [Next]_vars => [M!Next \/ unhandled]_(M!vars)
  <2> SUFFICES ASSUME SearchInv, [Next]_vars
               PROVE  [M!Next \/ unhandled]_(M!vars)
    OBVIOUS
  <2>1. M!Next \/ unhandled \/ UNCHANGED client
    BY LoopKeeps DEF vars
  <2> QED BY <2>1 DEF M!vars
<1> QED BY <1>1, <1>2, SearchIsKept, PTL DEF Spec, LawfulMessage
================================================================================
