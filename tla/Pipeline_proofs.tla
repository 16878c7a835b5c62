----------------------------- MODULE Pipeline_proofs -----------------------------
(***************************************************************************)
(* Proofs about the pipeline of a streaming attempt, for every number of   *)
(* blocks and every cap and timeout: whatever is withheld, held back or    *)
(* cut off, the client is sent a legal stream that ends once, and it is    *)
(* not shown the thinking that it did not ask for.                         *)
(***************************************************************************)
EXTENDS Pipeline, FiniteSetTheorems, WellFoundedInduction, TLAPS

(***************************************************************************)
(* What is sent, and what is held back, of the events f that came.  All    *)
(* are operators on values, so that they can be said of the next state.    *)
(***************************************************************************)
OneStart(s) ==
  \A i, j \in DOMAIN s :
    s[i].type = "start" /\ s[j].type = "start" /\ s[i].block = s[j].block => i = j

\* What the converters send, as far as it matters here.
Lawful(f) ==
  /\ f \in Seq(Event) /\ OneStart(f)
  /\ Stopped(f) \subseteq Started(f) /\ Started(f) \subseteq Block
  /\ "message_delta" \in Types(f) => Open(f) = {}
  /\ "message_stop" \in Types(f) => "message_delta" \in Types(f)
  /\ Count(f, "message_delta") = IF "message_delta" \in Types(f) THEN 1 ELSE 0
  /\ Count(f, "message_stop") = IF "message_stop" \in Types(f) THEN 1 ELSE 0
  /\ \A b \in Block : Deltas(f, b) # {} => b \in Started(f)

\* The block that is withheld, if any.
Withheld(t) == IF t.block = None THEN {} ELSE {t.block}

Signed(f, b) == \E i \in Deltas(f, b) : f[i].kind = "signature"

\* A withheld block is one of thinking that is open; what is known of it is true.
Thinks(h, f, t) ==
  t.block # None =>
    /\ ~h /\ t.block \in Open(f) /\ KindOf(f, t.block) = "thinking"
    /\ t.size = Cardinality(Deltas(f, t.block)) /\ t.size <= ThinkingCap
    /\ t.signed <=> Signed(f, t.block)

\* Once there is content: s, which is sent, is a legal stream of the blocks that came,
\* but the withheld one.
Mirrors(f, s, t) ==
  /\ f # <<>> /\ s # <<>> /\ BlocksAreLegal(s)
  /\ Started(s) = Started(f) \ Withheld(t) /\ Stopped(s) = Stopped(f)
  /\ Count(s, "message_delta") = Count(f, "message_delta")
  /\ Count(s, "message_stop") = Count(f, "message_stop")
  /\ "error" \in Types(s) => "error" \in Types(f)

\* No thinking in s but of a block that outgrew the cap, nor a false word about one.
Discreet(f, s) ==
  \A i \in DOMAIN s :
    /\ s[i].kind \in {"thinking", "signature"} =>
         Cardinality(Deltas(f, s[i].block)) > ThinkingCap
    /\ s[i].kind \in {"redacted", "unsigned"} =>
         /\ s[i].block \in Stopped(f)
         /\ s[i].kind = "redacted" <=> Signed(f, s[i].block)

\* A block of thinking that is open and not withheld has outgrown the cap.
Outgrown(f, t) ==
  \A b \in Open(f) \ Withheld(t) :
    KindOf(f, b) = "thinking" => Cardinality(Deltas(f, b)) > ThinkingCap

\* Before there is content: s, which is held back, has no blocks.
Holds(f, s, t) ==
  /\ BlocksAreLegal(s) /\ Started(s) = {} /\ Stopped(s) = {} /\ Types(s) \subseteq Types(f)
  /\ \A i \in DOMAIN s : s[i].kind = None
  /\ "error" \notin Types(s)
  /\ "error" \notin Types(f) => (s = <<>> <=> f = <<>>)
  /\ Started(f) = Withheld(t) /\ Stopped(f) = {}
  /\ \A b \in Block : Deltas(f, b) = {}

Thought == [block: Block \cup {None}, signed: BOOLEAN, size: Nat]
PipeType ==
  [pending: Seq(Event), out: Seq(Event), committed: BOOLEAN, stopped: BOOLEAN,
   error: BOOLEAN, thinking: Thought]

\* The pipeline p, with z already sent, holds events back until there is content.
WellMade(z, p) ==
  /\ z \in Seq(Event) /\ p \in PipeType /\ Len(p.pending) <= PendingCap
  /\ p.committed => p.pending = <<>>
  /\ ~p.committed => z = <<>> /\ p.out = <<>>

Flow(z, p) == IF p.committed THEN z \o p.out ELSE p.pending

\* The pipeline after the events f; h is whether thinking shows.
Flows(h, f, s, t) == Mirrors(f, s, t) /\ (~h => Discreet(f, s) /\ Outgrown(f, t))
Piped(h, z, f, p) ==
  /\ WellMade(z, p) /\ p.thinking.size <= ThinkingCap
  /\ Thinks(h, f, p.thinking)
  /\ p.stopped <=> "message_stop" \in Types(f)
  /\ p.committed => Flows(h, f, Flow(z, p), p.thinking)
  /\ ~p.committed => Holds(f, p.pending, p.thinking)

\* The pipeline is where its attempt is.
GateInv ==
  /\ at = "gate" => sent = <<>> /\ (~midChunk => ~pipe.committed)
  /\ at = "streaming" => pipe.committed /\ (~midChunk => pipe.out = <<>>)

PipelineInv ==
  /\ TypeOK
  /\ Lawful(fed)
  /\ GateInv
  /\ at \in Live => Piped(show, sent, fed, pipe)
  /\ BlocksStayLegal
  /\ StreamsEndOnce
  /\ ~show => Discreet(fed, Stream)

(***************************************************************************)
(* Streams of events, and what one event more makes of them.               *)
(***************************************************************************)
\* t is s and then e.
Grown(s, e, t) ==
  /\ s \in Seq(Event) /\ e \in Event /\ t \in Seq(Event) /\ t # <<>>
  /\ Len(s) \in Nat /\ Len(t) = Len(s) + 1 /\ DOMAIN s = 1..Len(s)
  /\ DOMAIN t = DOMAIN s \cup {Len(t)} /\ Len(t) \notin DOMAIN s
  /\ \A i \in DOMAIN s : t[i] = s[i]
  /\ t[Len(t)] = e

LEMMA AppendGrows ==
  ASSUME NEW s \in Seq(Event), NEW e \in Event
  PROVE  Grown(s, e, Append(s, e))
BY DEF Grown

LEMMA Members ==
  ASSUME NEW s
  PROVE  /\ \A x : x \in Types(s) <=> \E i \in DOMAIN s : s[i].type = x
         /\ \A x : x \in Started(s) <=> \E i \in DOMAIN s : s[i].type = "start" /\ s[i].block = x
         /\ \A x : x \in Stopped(s) <=> \E i \in DOMAIN s : s[i].type = "stop" /\ s[i].block = x
BY DEF Types, Started, Stopped

LEMMA GrownShows ==
  ASSUME NEW s, NEW e, NEW t, NEW n, DOMAIN t = DOMAIN s \cup {n},
         \A i \in DOMAIN s : t[i] = s[i], t[n] = e
  PROVE  /\ Types(t) = Types(s) \cup {e.type}
         /\ Started(t) = Started(s) \cup (IF e.type = "start" THEN {e.block} ELSE {})
         /\ Stopped(t) = Stopped(s) \cup (IF e.type = "stop" THEN {e.block} ELSE {})
<1>1. \A x : x \in Types(t) <=> x \in Types(s) \/ x = e.type
  BY Members
<1>2. \A x : x \in Started(t) <=> x \in Started(s) \/ (e.type = "start" /\ x = e.block)
  BY Members
<1>3. \A x : x \in Stopped(t) <=> x \in Stopped(s) \/ (e.type = "stop" /\ x = e.block)
  BY Members
<1> QED BY <1>1, <1>2, <1>3

LEMMA AppendShows ==
  ASSUME NEW s, NEW e, NEW t, Grown(s, e, t)
  PROVE  /\ Types(t) = Types(s) \cup {e.type}
         /\ Started(t) = Started(s) \cup (IF e.type = "start" THEN {e.block} ELSE {})
         /\ Stopped(t) = Stopped(s) \cup (IF e.type = "stop" THEN {e.block} ELSE {})
<1>1. /\ DOMAIN t = DOMAIN s \cup {Len(t)} /\ \A i \in DOMAIN s : t[i] = s[i]
      /\ t[Len(t)] = e
  BY DEF Grown
<1> QED BY <1>1, GrownShows

LEMMA SubsetsOfDomain ==
  ASSUME NEW s \in Seq(Event), NEW T, T \subseteq DOMAIN s
  PROVE  IsFiniteSet(T) /\ Cardinality(T) \in Nat
<1>1. DOMAIN s = 1..Len(s) /\ Len(s) \in Nat
  OBVIOUS
<1>2. IsFiniteSet(1..Len(s))
  BY <1>1, FS_Interval
<1> QED BY <1>1, <1>2, FS_Subset, FS_CardinalityType

LEMMA AppendCounts ==
  ASSUME NEW s, NEW e, NEW t, Grown(s, e, t), NEW x
  PROVE  /\ Count(s, x) \in Nat
         /\ Count(t, x) = Count(s, x) + (IF e.type = x THEN 1 ELSE 0)
<1>1. PICK n : /\ DOMAIN t = DOMAIN s \cup {n} /\ \A i \in DOMAIN s : t[i] = s[i]
               /\ t[n] = e /\ n \notin DOMAIN s
  BY DEF Grown
<1>0. s \in Seq(Event)
  BY DEF Grown
<1>2. PICK T : T = {i \in DOMAIN s : s[i].type = x}
  OBVIOUS
<1>3. IsFiniteSet(T) /\ Cardinality(T) \in Nat
  BY <1>2, <1>0, SubsetsOfDomain
<1>4. Count(s, x) = Cardinality(T)
  BY <1>2 DEF Count
<1>5. CASE e.type = x
  <2>1. {i \in DOMAIN t : t[i].type = x} = T \cup {n} /\ n \notin T
    BY <1>1, <1>2, <1>5
  <2>2. Cardinality(T \cup {n}) = Cardinality(T) + 1
    BY <1>3, <2>1, FS_AddElement
  <2>3. Count(t, x) = Cardinality(T) + 1
    BY <2>1, <2>2 DEF Count
  <2> QED BY <1>3, <1>4, <1>5, <2>3
<1>6. CASE e.type # x
  <2>1. {i \in DOMAIN t : t[i].type = x} = T
    BY <1>1, <1>2, <1>6
  <2>2. Count(t, x) = Cardinality(T)
    BY <2>1 DEF Count
  <2> QED BY <1>3, <1>4, <1>6, <2>2
<1> QED BY <1>5, <1>6

LEMMA AppendDeltas ==
  ASSUME NEW s, NEW e, NEW t, Grown(s, e, t), NEW b
  PROVE  /\ Cardinality(Deltas(s, b)) \in Nat /\ Cardinality(Deltas(t, b)) \in Nat
         /\ e.type = "delta" /\ e.block = b =>
              /\ Cardinality(Deltas(t, b)) = Cardinality(Deltas(s, b)) + 1
              /\ Deltas(t, b) # {}
              /\ Signed(t, b) <=> Signed(s, b) \/ e.kind = "signature"
         /\ ~(e.type = "delta" /\ e.block = b) =>
              Deltas(t, b) = Deltas(s, b) /\ (Signed(t, b) <=> Signed(s, b))
<1>1. PICK n : /\ DOMAIN t = DOMAIN s \cup {n} /\ \A i \in DOMAIN s : t[i] = s[i]
               /\ t[n] = e /\ n \notin DOMAIN s
  BY DEF Grown
<1>0. s \in Seq(Event)
  BY DEF Grown
<1>2. PICK T : T = Deltas(s, b)
  OBVIOUS
<1>3. T \subseteq DOMAIN s /\ IsFiniteSet(T) /\ Cardinality(T) \in Nat
  BY <1>2, <1>0, SubsetsOfDomain DEF Deltas
<1>4. CASE e.type = "delta" /\ e.block = b
  <2>1. Deltas(t, b) = T \cup {n} /\ n \notin T
    BY <1>1, <1>2, <1>4 DEF Deltas
  <2>2. Cardinality(T \cup {n}) = Cardinality(T) + 1
    BY <1>3, <2>1, FS_AddElement
  <2>3. Signed(t, b) <=> Signed(s, b) \/ e.kind = "signature"
    BY <1>1, <1>2, <1>3, <2>1 DEF Signed
  <2> QED BY <1>2, <1>3, <1>4, <2>1, <2>2, <2>3
<1>5. CASE ~(e.type = "delta" /\ e.block = b)
  <2>1. Deltas(t, b) = T
    BY <1>1, <1>2, <1>5 DEF Deltas
  <2>2. Signed(t, b) <=> Signed(s, b)
    BY <1>1, <1>2, <1>3, <2>1 DEF Signed
  <2> QED BY <1>2, <1>3, <1>5, <2>1, <2>2
<1> QED BY <1>4, <1>5

LEMMA KindIs ==
  ASSUME NEW s, OneStart(s), NEW i \in DOMAIN s, s[i].type = "start"
  PROVE  KindOf(s, s[i].block) = s[i].kind
BY DEF KindOf, OneStart

\* A block that is started once keeps its kind.
LEMMA KindsAreKept ==
  ASSUME NEW s, NEW e, NEW t, Grown(s, e, t), OneStart(s),
         e.type = "start" => e.block \notin Started(s)
  PROVE  /\ OneStart(t)
         /\ \A b \in Started(s) : KindOf(t, b) = KindOf(s, b)
         /\ e.type = "start" => KindOf(t, e.block) = e.kind
<1>1. PICK n : /\ DOMAIN t = DOMAIN s \cup {n} /\ \A i \in DOMAIN s : t[i] = s[i]
               /\ t[n] = e /\ n \notin DOMAIN s
  BY DEF Grown
<1>2. \A x : x \in Started(s) <=> \E i \in DOMAIN s : s[i].type = "start" /\ s[i].block = x
  BY Members
<1>3. ASSUME NEW i \in DOMAIN t, NEW j \in DOMAIN t, t[i].type = "start", t[j].type = "start",
             t[i].block = t[j].block
      PROVE  i = j
  BY <1>1, <1>2, <1>3 DEF OneStart
<1>4. OneStart(t)
  BY <1>3 DEF OneStart
<1>5. ASSUME NEW b \in Started(s)
      PROVE  KindOf(t, b) = KindOf(s, b)
  <2>1. PICK i \in DOMAIN s : s[i].type = "start" /\ s[i].block = b
    BY <1>2
  <2>2. i \in DOMAIN t /\ t[i] = s[i]
    BY <1>1
  <2>3. KindOf(s, s[i].block) = s[i].kind /\ KindOf(t, t[i].block) = t[i].kind
    BY <1>4, <2>1, <2>2, KindIs
  <2> QED BY <2>1, <2>2, <2>3
<1>6. ASSUME e.type = "start"
      PROVE  KindOf(t, e.block) = e.kind
  <2>1. n \in DOMAIN t /\ t[n].type = "start"
    BY <1>1, <1>6
  <2>2. KindOf(t, t[n].block) = t[n].kind
    BY <1>4, <2>1, KindIs
  <2> QED BY <1>1, <2>2
<1> QED BY <1>4, <1>5, <1>6

\* A legal stream goes on with a block that was not started, with what is added to one
\* that is open, or with what is no part of a block.
LEMMA LegalGrows ==
  ASSUME NEW s, NEW e, NEW t, Grown(s, e, t), BlocksAreLegal(s),
         e.type = "message_start" <=> s = <<>>,
         e.type = "start" => e.block \notin Started(s),
         e.type \in {"delta", "stop"} => e.block \in Open(s)
  PROVE  BlocksAreLegal(t)
<1> SUFFICES ASSUME NEW i \in DOMAIN t
             PROVE  LET before == SubSeq(t, 1, i - 1) IN
                    /\ t[i].type = "message_start" <=> i = 1
                    /\ t[i].type = "start" => t[i].block \notin Started(before)
                    /\ t[i].type \in {"delta", "stop"} => t[i].block \in Open(before)
  BY DEF BlocksAreLegal
<1>1. /\ s \in Seq(Event) /\ t \in Seq(Event) /\ Len(s) \in Nat /\ Len(t) = Len(s) + 1
      /\ DOMAIN s = 1..Len(s) /\ DOMAIN t = DOMAIN s \cup {Len(t)}
      /\ t[Len(t)] = e /\ \A j \in DOMAIN s : t[j] = s[j]
  BY DEF Grown
<1>2. CASE i \in DOMAIN s
  <2>1. SubSeq(t, 1, i - 1) = SubSeq(s, 1, i - 1)
    BY <1>1, <1>2
  <2>2. t[i] = s[i]
    BY <1>1, <1>2
  <2> QED BY <1>2, <2>1, <2>2 DEF BlocksAreLegal
<1>3. CASE i = Len(t)
  <2>1. SubSeq(t, 1, i - 1) = s
    BY <1>1, <1>3
  <2>2. i = 1 <=> s = <<>>
    BY <1>1, <1>3
  <2>3. t[i] = e
    BY <1>1, <1>3
  <2> QED BY <2>1, <2>2, <2>3
<1> QED BY <1>1, <1>2, <1>3

LEMMA EmptyStream ==
  /\ BlocksAreLegal(<<>>) /\ OneStart(<<>>) /\ <<>> \in Seq(Event)
  /\ Types(<<>>) = {} /\ Started(<<>>) = {} /\ Stopped(<<>>) = {} /\ Open(<<>>) = {}
  /\ \A x : Count(<<>>, x) = 0
  /\ \A b : Deltas(<<>>, b) = {}
<1>1. /\ BlocksAreLegal(<<>>) /\ OneStart(<<>>) /\ <<>> \in Seq(Event)
      /\ Types(<<>>) = {} /\ Started(<<>>) = {} /\ Stopped(<<>>) = {}
      /\ \A b : Deltas(<<>>, b) = {}
  BY DEF BlocksAreLegal, OneStart, Types, Started, Stopped, Deltas
<1>2. ASSUME NEW x
      PROVE  Count(<<>>, x) = 0
  <2>1. {i \in DOMAIN <<>> : <<>>[i].type = x} = {}
    OBVIOUS
  <2> QED BY <2>1, FS_EmptySet DEF Count
<1> QED BY <1>1, <1>2 DEF Open

(***************************************************************************)
(* What the upstream may send next.                                        *)
(***************************************************************************)
LEMMA WhatFollows ==
  ASSUME NEW f, NEW e \in Input, MayFollow(f, e)
  PROVE  /\ e \in Event /\ "error" \notin Types(f)
         /\ e.type = "message_start" => f = <<>>
         /\ e.type \in {"ping", "start", "message_delta"} => f # <<>>
         /\ e.type = "start" =>
              /\ "message_delta" \notin Types(f) /\ OpenThought(f) = {}
              /\ e.block \in Block \ Started(f) /\ e.kind \in {"text", "thinking"}
         /\ e.type = "delta" =>
              /\ e.block \in Block /\ e.block \in Open(f)
              /\ KindOf(f, e.block) = "thinking" => e.kind \in {"thinking", "signature"}
              /\ KindOf(f, e.block) # "thinking" => e.kind = "text"
         /\ e.type = "stop" => e.block \in Block /\ e.block \in Open(f) /\ e.kind = None
         /\ e.type = "message_delta" => Open(f) = {} /\ "message_delta" \notin Types(f)
         /\ e.type = "message_stop" =>
              "message_delta" \in Types(f) /\ "message_stop" \notin Types(f)
         /\ e.type \notin {"start", "delta", "stop"} => e.kind = None /\ e.block = None
<1>1. /\ e \in Event
      /\ e.type \in {"start", "delta", "stop"} => e.block \in Block
      /\ e.type = "stop" => e.kind = None
      /\ e.type \notin {"start", "delta", "stop"} => e.kind = None /\ e.block = None
  BY DEF Input, Event, Plain, Of, Type, Kind
<1>2. "error" \notin Types(f)
  BY DEF MayFollow
<1>3. CASE e.type = "message_start"
  BY <1>1, <1>2, <1>3 DEF MayFollow
<1>4. CASE e.type = "error"
  BY <1>1, <1>2, <1>4 DEF MayFollow
<1>5. CASE e.type = "ping"
  BY <1>1, <1>2, <1>5 DEF MayFollow
<1>6. CASE e.type = "start"
  BY <1>1, <1>2, <1>6 DEF MayFollow
<1>7. CASE e.type = "delta"
  BY <1>1, <1>2, <1>7 DEF MayFollow
<1>8. CASE e.type = "stop"
  BY <1>1, <1>2, <1>8 DEF MayFollow
<1>9. CASE e.type = "message_delta"
  BY <1>1, <1>2, <1>9 DEF MayFollow
<1>10. CASE e.type = "message_stop"
  BY <1>1, <1>2, <1>10 DEF MayFollow
<1> QED BY <1>1, <1>3, <1>4, <1>5, <1>6, <1>7, <1>8, <1>9, <1>10 DEF Event, Type

LEMMA LawfulGrows ==
  ASSUME NEW f, Lawful(f), NEW e \in Input, MayFollow(f, e), NEW g, Grown(f, e, g)
  PROVE  /\ Lawful(g)
         /\ e.type \notin {"message_start", "error"} => f # <<>>
         /\ e.type \in {"start", "delta", "stop"} =>
              /\ "message_delta" \notin Types(f) /\ "message_stop" \notin Types(f)
              /\ "error" \notin Types(f)
         /\ \A b \in Started(f) : KindOf(g, b) = KindOf(f, b)
         /\ e.type = "start" => KindOf(g, e.block) = e.kind
<1>1. /\ e \in Event /\ "error" \notin Types(f)
      /\ e.type \in {"ping", "start", "message_delta"} => f # <<>>
      /\ e.type = "start" => "message_delta" \notin Types(f) /\ e.block \in Block \ Started(f)
      /\ e.type \in {"delta", "stop"} => e.block \in Open(f)
      /\ e.type = "message_delta" => Open(f) = {} /\ "message_delta" \notin Types(f)
      /\ e.type = "message_stop" =>
           "message_delta" \in Types(f) /\ "message_stop" \notin Types(f)
  BY WhatFollows
<1>2. /\ Types(g) = Types(f) \cup {e.type}
      /\ Started(g) = Started(f) \cup (IF e.type = "start" THEN {e.block} ELSE {})
      /\ Stopped(g) = Stopped(f) \cup (IF e.type = "stop" THEN {e.block} ELSE {})
  BY AppendShows
<1>3. /\ f \in Seq(Event) /\ OneStart(f)
      /\ Stopped(f) \subseteq Started(f) /\ Started(f) \subseteq Block
      /\ "message_delta" \in Types(f) => Open(f) = {}
      /\ "message_stop" \in Types(f) => "message_delta" \in Types(f)
      /\ Count(f, "message_delta") = IF "message_delta" \in Types(f) THEN 1 ELSE 0
      /\ Count(f, "message_stop") = IF "message_stop" \in Types(f) THEN 1 ELSE 0
      /\ \A b \in Block : Deltas(f, b) # {} => b \in Started(f)
  BY DEF Lawful
<1>4. /\ OneStart(g) /\ \A b \in Started(f) : KindOf(g, b) = KindOf(f, b)
      /\ e.type = "start" => KindOf(g, e.block) = e.kind
  BY <1>1, <1>3, KindsAreKept
<1>5. /\ Count(g, "message_delta") = Count(f, "message_delta")
                                     + (IF e.type = "message_delta" THEN 1 ELSE 0)
      /\ Count(g, "message_stop") = Count(f, "message_stop")
                                    + (IF e.type = "message_stop" THEN 1 ELSE 0)
  BY AppendCounts
<1>6. ASSUME NEW b \in Block, Deltas(g, b) # {}
      PROVE  b \in Started(g)
  <2>1. CASE e.type = "delta" /\ e.block = b
    BY <1>1, <1>2, <2>1 DEF Open
  <2>2. CASE ~(e.type = "delta" /\ e.block = b)
    BY <1>2, <1>3, <1>6, <2>2, AppendDeltas
  <2> QED BY <2>1, <2>2
<1>7. Stopped(g) \subseteq Started(g) /\ Started(g) \subseteq Block /\ g \in Seq(Event)
  BY <1>1, <1>2, <1>3 DEF Open, Grown
<1>8. "message_delta" \in Types(g) => Open(g) = {}
  BY <1>1, <1>2, <1>3 DEF Open
<1>9. "message_stop" \in Types(g) => "message_delta" \in Types(g)
  BY <1>1, <1>2, <1>3
<1>10. /\ Count(g, "message_delta") = IF "message_delta" \in Types(g) THEN 1 ELSE 0
       /\ Count(g, "message_stop") = IF "message_stop" \in Types(g) THEN 1 ELSE 0
  BY <1>1, <1>2, <1>3, <1>5
<1>11. Lawful(g)
  BY <1>4, <1>6, <1>7, <1>8, <1>9, <1>10 DEF Lawful
<1>12. e.type \notin {"message_start", "error"} => f # <<>>
  <2>1. f = <<>> => Open(f) = {} /\ Types(f) = {}
    BY EmptyStream
  <2> QED BY <1>1, <2>1 DEF Event, Type
<1>13. e.type \in {"start", "delta", "stop"} => "message_delta" \notin Types(f)
  BY <1>1, <1>3
<1> QED BY <1>1, <1>3, <1>4, <1>11, <1>12, <1>13

(***************************************************************************)
(* What goes to the client, while the events come.                         *)
(***************************************************************************)
\* An event is kept back.
LEMMA MirrorsKeep ==
  ASSUME NEW f, NEW s, NEW t, Mirrors(f, s, t), NEW e, NEW g, Grown(f, e, g), NEW u,
         \/ e.type = "delta" /\ Withheld(u) = Withheld(t)
         \/ /\ e.type = "start" /\ e.block \notin Started(f)
            /\ Withheld(t) = {} /\ Withheld(u) = {e.block}
  PROVE  Mirrors(g, s, u)
<1>1. /\ Types(g) = Types(f) \cup {e.type}
      /\ Started(g) = Started(f) \cup (IF e.type = "start" THEN {e.block} ELSE {})
      /\ Stopped(g) = Stopped(f) \cup (IF e.type = "stop" THEN {e.block} ELSE {})
  BY AppendShows
<1>2. /\ Count(f, "message_delta") \in Nat /\ Count(f, "message_stop") \in Nat
      /\ Count(g, "message_delta") = Count(f, "message_delta")
                                     + (IF e.type = "message_delta" THEN 1 ELSE 0)
      /\ Count(g, "message_stop") = Count(f, "message_stop")
                                    + (IF e.type = "message_stop" THEN 1 ELSE 0)
  BY AppendCounts
<1>3. /\ s # <<>> /\ BlocksAreLegal(s)
      /\ Started(s) = Started(f) \ Withheld(t) /\ Stopped(s) = Stopped(f)
      /\ Count(s, "message_delta") = Count(f, "message_delta")
      /\ Count(s, "message_stop") = Count(f, "message_stop")
      /\ "error" \in Types(s) => "error" \in Types(f)
  BY DEF Mirrors
<1>4. Count(g, "message_delta") = Count(f, "message_delta")
      /\ Count(g, "message_stop") = Count(f, "message_stop")
  BY <1>2
<1>5. Started(g) \ Withheld(u) = Started(f) \ Withheld(t) /\ Stopped(g) = Stopped(f)
  BY <1>1
<1>6. g # <<>>
  BY DEF Grown
<1> QED BY <1>1, <1>3, <1>4, <1>5, <1>6 DEF Mirrors

\* An event is sent as it is.
LEMMA MirrorsSend ==
  ASSUME NEW f, NEW s, NEW t, Mirrors(f, s, t), NEW e, NEW g, Grown(f, e, g),
         NEW r, Grown(s, e, r), Withheld(t) \subseteq Open(f), e.type # "message_start",
         e.type = "start" => e.block \notin Started(f),
         e.type \in {"delta", "stop"} => e.block \in Open(f) \ Withheld(t)
  PROVE  Mirrors(g, r, t)
<1>1. /\ Types(g) = Types(f) \cup {e.type} /\ Types(r) = Types(s) \cup {e.type}
      /\ Started(g) = Started(f) \cup (IF e.type = "start" THEN {e.block} ELSE {})
      /\ Started(r) = Started(s) \cup (IF e.type = "start" THEN {e.block} ELSE {})
      /\ Stopped(g) = Stopped(f) \cup (IF e.type = "stop" THEN {e.block} ELSE {})
      /\ Stopped(r) = Stopped(s) \cup (IF e.type = "stop" THEN {e.block} ELSE {})
  BY AppendShows
<1>2. ASSUME NEW x
      PROVE  /\ Count(g, x) = Count(f, x) + (IF e.type = x THEN 1 ELSE 0)
             /\ Count(r, x) = Count(s, x) + (IF e.type = x THEN 1 ELSE 0)
  BY AppendCounts
<1>3. /\ s # <<>> /\ BlocksAreLegal(s)
      /\ Started(s) = Started(f) \ Withheld(t) /\ Stopped(s) = Stopped(f)
      /\ Count(s, "message_delta") = Count(f, "message_delta")
      /\ Count(s, "message_stop") = Count(f, "message_stop")
      /\ "error" \in Types(s) => "error" \in Types(f)
  BY DEF Mirrors
<1>4. BlocksAreLegal(r)
  <2>1. e.type \in {"delta", "stop"} => e.block \in Open(s)
    BY <1>3 DEF Open
  <2>2. e.type = "start" => e.block \notin Started(s)
    BY <1>3
  <2> QED BY <1>3, <2>1, <2>2, LegalGrows
<1>5. Started(r) = Started(g) \ Withheld(t) /\ Stopped(r) = Stopped(g)
  BY <1>1, <1>3 DEF Open
<1>6. /\ Count(r, "message_delta") = Count(g, "message_delta")
      /\ Count(r, "message_stop") = Count(g, "message_stop")
  BY <1>2, <1>3
<1>7. r # <<>> /\ g # <<>>
  BY DEF Grown
<1> QED BY <1>1, <1>3, <1>4, <1>5, <1>6, <1>7 DEF Mirrors

\* The withheld block is begun, with x, and its event e sent.
LEMMA MirrorsReveal ==
  ASSUME NEW f, NEW s, NEW t, Mirrors(f, s, t), NEW e, NEW g, Grown(f, e, g),
         e.type \in {"delta", "stop"}, e.block = t.block, t.block # None,
         t.block \in Open(f),
         NEW x, x.type = "start", x.block = t.block,
         NEW m, Grown(s, x, m), NEW r, Grown(m, e, r), NEW u, Withheld(u) = {}
  PROVE  Mirrors(g, r, u)
<1>1. /\ Types(g) = Types(f) \cup {e.type} /\ Types(r) = Types(m) \cup {e.type}
      /\ Started(g) = Started(f) \cup (IF e.type = "start" THEN {e.block} ELSE {})
      /\ Started(r) = Started(m) \cup (IF e.type = "start" THEN {e.block} ELSE {})
      /\ Stopped(g) = Stopped(f) \cup (IF e.type = "stop" THEN {e.block} ELSE {})
      /\ Stopped(r) = Stopped(m) \cup (IF e.type = "stop" THEN {e.block} ELSE {})
  BY AppendShows
<1>2. /\ Types(m) = Types(s) \cup {x.type}
      /\ Started(m) = Started(s) \cup (IF x.type = "start" THEN {x.block} ELSE {})
      /\ Stopped(m) = Stopped(s) \cup (IF x.type = "stop" THEN {x.block} ELSE {})
  BY AppendShows
<1>3. ASSUME NEW y
      PROVE  /\ Count(g, y) = Count(f, y) + (IF e.type = y THEN 1 ELSE 0)
             /\ Count(r, y) = Count(m, y) + (IF e.type = y THEN 1 ELSE 0)
             /\ Count(m, y) = Count(s, y) + (IF x.type = y THEN 1 ELSE 0)
             /\ Count(s, y) \in Nat
  BY AppendCounts
<1>4. /\ s # <<>> /\ BlocksAreLegal(s)
      /\ Started(s) = Started(f) \ {t.block} /\ Stopped(s) = Stopped(f)
      /\ Count(s, "message_delta") = Count(f, "message_delta")
      /\ Count(s, "message_stop") = Count(f, "message_stop")
      /\ "error" \in Types(s) => "error" \in Types(f)
  BY DEF Mirrors, Withheld
<1>5. BlocksAreLegal(m) /\ m # <<>>
  BY <1>4, LegalGrows DEF Grown
<1>6. e.block \in Open(m)
  BY <1>2, <1>4 DEF Open
<1>7. BlocksAreLegal(r) /\ r # <<>> /\ g # <<>>
  BY <1>5, <1>6, LegalGrows DEF Grown
<1>8. Started(r) = Started(g) \ Withheld(u) /\ Stopped(r) = Stopped(g)
  BY <1>1, <1>2, <1>4 DEF Open
<1>9. /\ Count(r, "message_delta") = Count(g, "message_delta")
      /\ Count(r, "message_stop") = Count(g, "message_stop")
  BY <1>3, <1>4
<1>10. "error" \in Types(r) => "error" \in Types(g)
  BY <1>1, <1>2, <1>4
<1> QED BY <1>7, <1>8, <1>9, <1>10 DEF Mirrors

\* What was sent of hidden thinking stays right while events come ...
LEMMA DiscreetKeep ==
  ASSUME NEW f, NEW s, Discreet(f, s), NEW e, NEW g, Grown(f, e, g), ThinkingCap \in Nat,
         e.type = "delta" => e.block \in Open(f)
  PROVE  Discreet(g, s)
<1>1. Stopped(g) = Stopped(f) \cup (IF e.type = "stop" THEN {e.block} ELSE {})
  BY AppendShows
<1> SUFFICES ASSUME NEW i \in DOMAIN s
             PROVE  /\ s[i].kind \in {"thinking", "signature"} =>
                         Cardinality(Deltas(g, s[i].block)) > ThinkingCap
                    /\ s[i].kind \in {"redacted", "unsigned"} =>
                         /\ s[i].block \in Stopped(g)
                         /\ s[i].kind = "redacted" <=> Signed(g, s[i].block)
  BY DEF Discreet
<1>2. PICK b : b = s[i].block
  OBVIOUS
<1>3. /\ Cardinality(Deltas(f, b)) \in Nat /\ Cardinality(Deltas(g, b)) \in Nat
      /\ e.type = "delta" /\ e.block = b =>
           Cardinality(Deltas(g, b)) = Cardinality(Deltas(f, b)) + 1
      /\ ~(e.type = "delta" /\ e.block = b) =>
           Deltas(g, b) = Deltas(f, b) /\ (Signed(g, b) <=> Signed(f, b))
  BY AppendDeltas
<1>4. /\ s[i].kind \in {"thinking", "signature"} => Cardinality(Deltas(f, b)) > ThinkingCap
      /\ s[i].kind \in {"redacted", "unsigned"} =>
           b \in Stopped(f) /\ (s[i].kind = "redacted" <=> Signed(f, b))
  BY <1>2 DEF Discreet
<1>5. Cardinality(Deltas(g, b)) >= Cardinality(Deltas(f, b))
  BY <1>3
<1>6. b \in Stopped(f) => ~(e.type = "delta" /\ e.block = b)
  BY DEF Open
<1> QED BY <1>1, <1>2, <1>3, <1>4, <1>5, <1>6

\* ... and when one is sent that is right.
LEMMA DiscreetSend ==
  ASSUME NEW g, NEW s, Discreet(g, s), NEW e, NEW r, Grown(s, e, r),
         e.kind \in {"thinking", "signature"} => Cardinality(Deltas(g, e.block)) > ThinkingCap,
         e.kind \in {"redacted", "unsigned"} =>
           e.block \in Stopped(g) /\ (e.kind = "redacted" <=> Signed(g, e.block))
  PROVE  Discreet(g, r)
BY DEF Discreet, Grown

LEMMA ThinksKeep ==
  ASSUME NEW h, NEW f, NEW t, Thinks(h, f, t), NEW e, NEW g, Grown(f, e, g),
         \A b \in Started(f) : KindOf(g, b) = KindOf(f, b),
         ~(e.type \in {"delta", "stop"} /\ e.block = t.block)
  PROVE  Thinks(h, g, t)
<1> SUFFICES ASSUME t.block # None
             PROVE  /\ ~h /\ t.block \in Open(g) /\ KindOf(g, t.block) = "thinking"
                    /\ t.size = Cardinality(Deltas(g, t.block)) /\ t.size <= ThinkingCap
                    /\ t.signed <=> Signed(g, t.block)
  BY DEF Thinks
<1>1. /\ ~h /\ t.block \in Open(f) /\ KindOf(f, t.block) = "thinking"
      /\ t.size = Cardinality(Deltas(f, t.block)) /\ t.size <= ThinkingCap
      /\ t.signed <=> Signed(f, t.block)
  BY DEF Thinks
<1>2. /\ Started(g) = Started(f) \cup (IF e.type = "start" THEN {e.block} ELSE {})
      /\ Stopped(g) = Stopped(f) \cup (IF e.type = "stop" THEN {e.block} ELSE {})
  BY AppendShows
<1>3. Deltas(g, t.block) = Deltas(f, t.block) /\ (Signed(g, t.block) <=> Signed(f, t.block))
  BY AppendDeltas
<1>4. t.block \in Open(g) /\ KindOf(g, t.block) = "thinking"
  BY <1>1, <1>2 DEF Open
<1> QED BY <1>1, <1>3, <1>4

LEMMA OutgrownKeep ==
  ASSUME NEW f, NEW t, Outgrown(f, t), NEW e, NEW g, Grown(f, e, g), NEW u,
         \A b \in Started(f) : KindOf(g, b) = KindOf(f, b), ThinkingCap \in Nat,
         \A b \in Open(g) \ Withheld(u) :
           \/ b \in Open(f) \ Withheld(t)
           \/ KindOf(g, b) # "thinking"
           \/ Cardinality(Deltas(g, b)) > ThinkingCap
  PROVE  Outgrown(g, u)
<1> SUFFICES ASSUME NEW b \in Open(g) \ Withheld(u), KindOf(g, b) = "thinking",
                    b \in Open(f) \ Withheld(t)
             PROVE  Cardinality(Deltas(g, b)) > ThinkingCap
  BY DEF Outgrown
<1>1. Cardinality(Deltas(f, b)) > ThinkingCap
  BY DEF Outgrown, Open
<1>2. /\ Cardinality(Deltas(f, b)) \in Nat /\ Cardinality(Deltas(g, b)) \in Nat
      /\ e.type = "delta" /\ e.block = b =>
           Cardinality(Deltas(g, b)) = Cardinality(Deltas(f, b)) + 1
      /\ ~(e.type = "delta" /\ e.block = b) => Deltas(g, b) = Deltas(f, b)
  BY AppendDeltas
<1> QED BY <1>1, <1>2

(***************************************************************************)
(* The operations of the pipeline.                                         *)
(***************************************************************************)
LEMMA PipeFields ==
  ASSUME NEW p \in PipeType
  PROVE  p = [pending |-> p.pending, out |-> p.out, committed |-> p.committed,
              stopped |-> p.stopped, error |-> p.error, thinking |-> p.thinking]
BY DEF PipeType

LEMMA ConcatEmpty ==
  ASSUME NEW s \in Seq(Event)
  PROVE  s \o <<>> = s /\ <<>> \o s = s
OBVIOUS

\* mark_content() opens the gate: what flows is what was held back.
LEMMA Marked ==
  ASSUME NEW z, NEW p, WellMade(z, p), NEW q, q = MarkContent(p)
  PROVE  /\ WellMade(z, q) /\ q.committed /\ Flow(z, q) = Flow(z, p)
         /\ q.thinking = p.thinking /\ q.stopped = p.stopped
<1>1. /\ p.pending \in Seq(Event) /\ p.out \in Seq(Event) /\ z \in Seq(Event)
      /\ p \in PipeType /\ p.committed \in BOOLEAN /\ PendingCap \in Nat
      /\ p.committed => p.pending = <<>>
      /\ ~p.committed => z = <<>> /\ p.out = <<>>
  BY PipelineAssumption DEF WellMade, PipeType
<1>0. PICK o : o = p.out \o p.pending
  OBVIOUS
<1>2. q = [pending |-> <<>>, out |-> o, committed |-> TRUE,
           stopped |-> p.stopped, error |-> p.error, thinking |-> p.thinking]
  <2>1. p = [pending |-> p.pending, out |-> p.out, committed |-> p.committed,
             stopped |-> p.stopped, error |-> p.error, thinking |-> p.thinking]
    BY <1>1, PipeFields
  <2> QED BY <1>0, <2>1 DEF MarkContent
<1>3. o \in Seq(Event) /\ <<>> \in Seq(Event) /\ Len(<<>>) <= PendingCap
  BY <1>1, <1>0
<1>4. q \in PipeType
  BY <1>1, <1>2, <1>3 DEF PipeType
<1>5. WellMade(z, q) /\ q.committed /\ q.thinking = p.thinking /\ q.stopped = p.stopped
  BY <1>1, <1>2, <1>3, <1>4 DEF WellMade
<1>6. Flow(z, q) = z \o o
  <2>1. q.out = o
    BY <1>2
  <2> QED BY <1>5, <2>1 DEF Flow
<1>7. CASE p.committed
  <2>1. o = p.out
    BY <1>0, <1>1, <1>7, ConcatEmpty
  <2> QED BY <1>5, <1>6, <1>7, <2>1 DEF Flow
<1>8. CASE ~p.committed
  <2>1. o = p.pending
    BY <1>0, <1>1, <1>8, ConcatEmpty
  <2>2. z \o p.pending = p.pending
    BY <1>1, <1>8, ConcatEmpty
  <2> QED BY <1>5, <1>6, <1>8, <2>1, <2>2 DEF Flow
<1> QED BY <1>7, <1>8

\* emit_block() after the gate has opened, ...
LEMMA EmitFlows ==
  ASSUME NEW z, NEW p, WellMade(z, p), p.committed, NEW e \in Event, NEW q, q = Emit(p, e)
  PROVE  /\ WellMade(z, q) /\ q.committed /\ Grown(Flow(z, p), e, Flow(z, q))
         /\ q.thinking = p.thinking /\ q.stopped = p.stopped
<1>1. /\ p.pending \in Seq(Event) /\ p.out \in Seq(Event) /\ z \in Seq(Event)
      /\ p \in PipeType /\ p.pending = <<>> /\ Len(p.pending) <= PendingCap
  BY DEF WellMade, PipeType
<1>2. q = [pending |-> p.pending, out |-> Append(p.out, e), committed |-> p.committed,
           stopped |-> p.stopped, error |-> p.error, thinking |-> p.thinking]
  <2>1. p = [pending |-> p.pending, out |-> p.out, committed |-> p.committed,
             stopped |-> p.stopped, error |-> p.error, thinking |-> p.thinking]
    BY <1>1, PipeFields
  <2> QED BY <2>1 DEF Emit
<1>3. Append(p.out, e) \in Seq(Event)
  BY <1>1
<1>4. q \in PipeType
  BY <1>1, <1>2, <1>3 DEF PipeType
<1>5. WellMade(z, q) /\ q.committed /\ q.thinking = p.thinking /\ q.stopped = p.stopped
  BY <1>1, <1>2, <1>4 DEF WellMade
<1>6. z \o Append(p.out, e) = Append(z \o p.out, e) /\ z \o p.out \in Seq(Event)
  BY <1>1
<1>7. Flow(z, q) = Append(Flow(z, p), e) /\ Flow(z, p) \in Seq(Event)
  BY <1>2, <1>6 DEF Flow
<1> QED BY <1>5, <1>7, AppendGrows

\* ... and before, when the cap may lose it.
LEMMA EmitHeld ==
  ASSUME NEW z, NEW p, WellMade(z, p), ~p.committed, NEW e \in Event, NEW q, q = Emit(p, e)
  PROVE  /\ WellMade(z, q) /\ ~q.committed
         /\ q.thinking = p.thinking /\ q.stopped = p.stopped
         /\ \/ Grown(p.pending, e, q.pending)
            \/ q.pending = p.pending /\ p.pending # <<>>
<1>1. /\ p.pending \in Seq(Event) /\ p.out = <<>> /\ z = <<>>
      /\ p \in PipeType /\ Len(p.pending) <= PendingCap /\ PendingCap \in Nat \ {0}
      /\ z \in Seq(Event) /\ p.out \in Seq(Event)
  BY PipelineAssumption DEF WellMade, PipeType
<1>2. CASE Len(p.pending) < PendingCap
  <2>1. q = [pending |-> Append(p.pending, e), out |-> p.out, committed |-> p.committed,
             stopped |-> p.stopped, error |-> p.error, thinking |-> p.thinking]
    <3>1. p = [pending |-> p.pending, out |-> p.out, committed |-> p.committed,
               stopped |-> p.stopped, error |-> p.error, thinking |-> p.thinking]
      BY <1>1, PipeFields
    <3> QED BY <1>2, <3>1 DEF Emit
  <2>2. Append(p.pending, e) \in Seq(Event) /\ Len(Append(p.pending, e)) <= PendingCap
    BY <1>1, <1>2
  <2>3. q \in PipeType
    BY <1>1, <2>1, <2>2 DEF PipeType
  <2>4. WellMade(z, q) /\ ~q.committed /\ q.thinking = p.thinking /\ q.stopped = p.stopped
    BY <1>1, <2>1, <2>2, <2>3 DEF WellMade
  <2>5. Grown(p.pending, e, q.pending)
    BY <1>1, <2>1, AppendGrows
  <2> QED BY <2>4, <2>5
<1>3. CASE ~(Len(p.pending) < PendingCap)
  <2>1. q = p
    BY <1>3 DEF Emit
  <2>2. p.pending # <<>>
    BY <1>1, <1>3
  <2> QED BY <2>1, <2>2
<1> QED BY <1>2, <1>3

LEMMA ThoughtSet ==
  ASSUME NEW z, NEW p, WellMade(z, p), NEW t \in Thought, NEW q, q = [p EXCEPT !.thinking = t]
  PROVE  /\ WellMade(z, q) /\ q.thinking = t /\ Flow(z, q) = Flow(z, p)
         /\ q.committed = p.committed /\ q.stopped = p.stopped /\ q.pending = p.pending
<1>1. q = [pending |-> p.pending, out |-> p.out, committed |-> p.committed,
           stopped |-> p.stopped, error |-> p.error, thinking |-> t]
  <2>1. p = [pending |-> p.pending, out |-> p.out, committed |-> p.committed,
             stopped |-> p.stopped, error |-> p.error, thinking |-> p.thinking]
    BY PipeFields DEF WellMade
  <2> QED BY <2>1
<1>2. q \in PipeType
  BY <1>1 DEF WellMade, PipeType
<1> QED BY <1>1, <1>2 DEF WellMade, Flow

LEMMA NoneSuch ==
  ASSUME NEW s, NEW x, x \notin Types(s)
  PROVE  Count(s, x) = 0
<1>1. {i \in DOMAIN s : s[i].type = x} = {}
  BY Members
<1> QED BY <1>1, FS_EmptySet DEF Count

(***************************************************************************)
(* What the pipeline makes of an event.                                    *)
(***************************************************************************)
\* With content, what flows is as it should be, whether it is the first or not.
LEMMA Commits ==
  ASSUME NEW h, NEW z, NEW f, NEW p, Lawful(f), Piped(h, z, f, p), f # <<>>,
         "message_delta" \notin Types(f), "message_stop" \notin Types(f),
         "error" \notin Types(f)
  PROVE  Flows(h, f, Flow(z, p), p.thinking)
<1>1. CASE p.committed
  BY <1>1 DEF Piped
<1>2. CASE ~p.committed
  <2>1. PICK s : s = p.pending
    OBVIOUS
  <2>2. Flow(z, p) = s
    BY <1>2, <2>1 DEF Flow
  <2>3. PICK t : t = p.thinking
    OBVIOUS
  <2>4. /\ BlocksAreLegal(s) /\ Started(s) = {} /\ Stopped(s) = {} /\ Types(s) \subseteq Types(f)
        /\ \A i \in DOMAIN s : s[i].kind = None
        /\ s # <<>> /\ Started(f) = Withheld(t) /\ Stopped(f) = {}
    BY <1>2, <2>1, <2>3 DEF Piped, Holds
  <2>5. /\ Count(s, "message_delta") = 0 /\ Count(s, "message_stop") = 0
        /\ Count(f, "message_delta") = 0 /\ Count(f, "message_stop") = 0
    BY <2>4, NoneSuch
  <2>6. Started(s) = Started(f) \ Withheld(t) /\ Stopped(s) = Stopped(f)
    BY <2>4
  <2>7. Mirrors(f, s, t)
    BY <2>4, <2>5, <2>6 DEF Mirrors
  <2>8. Discreet(f, s)
    BY <2>4, PipelineAssumption DEF Discreet
  <2>9. Outgrown(f, t)
    BY <2>4 DEF Outgrown, Open
  <2> QED BY <2>2, <2>3, <2>7, <2>8, <2>9 DEF Flows
<1> QED BY <1>1, <1>2

\* A block whose event has come is sent on, after what was held back.
LEMMA SendsOn ==
  ASSUME NEW h, NEW z, NEW f, NEW p, Lawful(f), Piped(h, z, f, p),
         NEW e \in Input, MayFollow(f, e), NEW g, Grown(f, e, g),
         e.type \in {"start", "delta", "stop"},
         e.type = "start" => h \/ e.kind = "text",
         e.type \in {"delta", "stop"} => e.block # p.thinking.block,
         NEW m, WellMade(z, m), m.committed, Flow(z, m) = Flow(z, p),
         m.thinking = p.thinking, m.stopped = p.stopped,
         NEW q, q = Emit(m, e)
  PROVE  Piped(h, z, g, q) /\ (p.committed => q.committed)
<1>1. PICK s : s = Flow(z, p)
  OBVIOUS
<1>2. PICK t : t = p.thinking
  OBVIOUS
<1>3. PICK r : r = Flow(z, q)
  OBVIOUS
<1>4. e \in Event
  BY WhatFollows
<1>5. /\ WellMade(z, q) /\ q.committed /\ Grown(s, e, r)
      /\ q.thinking = t /\ q.stopped = p.stopped
  BY <1>1, <1>2, <1>3, <1>4, EmitFlows
<1>6. /\ Lawful(g) /\ f # <<>> /\ "message_delta" \notin Types(f)
      /\ "message_stop" \notin Types(f) /\ "error" \notin Types(f)
      /\ \A b \in Started(f) : KindOf(g, b) = KindOf(f, b)
      /\ e.type = "start" => KindOf(g, e.block) = e.kind
  BY LawfulGrows
<1>7. Flows(h, f, s, t)
  BY <1>1, <1>2, <1>6, Commits
<1>8. /\ e.type = "start" => e.block \in Block \ Started(f)
      /\ e.type = "delta" =>
           /\ e.block \in Open(f)
           /\ KindOf(f, e.block) = "thinking" => e.kind \in {"thinking", "signature"}
           /\ KindOf(f, e.block) # "thinking" => e.kind = "text"
      /\ e.type = "stop" => e.block \in Open(f) /\ e.kind = None
      /\ e.block \in Block
  BY WhatFollows
<1>9. Thinks(h, f, t) /\ Withheld(t) \subseteq Open(f) /\ t.size <= ThinkingCap
  BY <1>2 DEF Piped, Thinks, Withheld
<1>10. e.type \in {"delta", "stop"} => e.block \in Open(f) \ Withheld(t)
  BY <1>2, <1>8 DEF Withheld
<1>11. Mirrors(g, r, t)
  BY <1>5, <1>7, <1>8, <1>9, <1>10, MirrorsSend DEF Flows
<1>12. Thinks(h, g, t)
  BY <1>2, <1>6, <1>9, ThinksKeep
<1>13. ThinkingCap \in Nat /\ None \notin {"text", "thinking", "redacted", "signature", "unsigned"}
  BY PipelineAssumption
<1>14. /\ Started(g) = Started(f) \cup (IF e.type = "start" THEN {e.block} ELSE {})
       /\ Stopped(g) = Stopped(f) \cup (IF e.type = "stop" THEN {e.block} ELSE {})
       /\ Types(g) = Types(f) \cup {e.type}
  BY AppendShows
<1>15. ASSUME ~h
       PROVE  Discreet(g, r) /\ Outgrown(g, t)
  <2>1. Discreet(f, s) /\ Outgrown(f, t)
    BY <1>7, <1>15 DEF Flows
  <2>2. ASSUME NEW b \in Open(g) \ Withheld(t)
        PROVE  b \in Open(f) \ Withheld(t) \/ KindOf(g, b) # "thinking"
    BY <1>6, <1>14, <1>15 DEF Open
  <2>3. Outgrown(g, t)
    BY <1>6, <1>13, <2>1, <2>2, OutgrownKeep
  <2>4. Discreet(g, s)
    BY <1>8, <1>13, <2>1, DiscreetKeep
  <2>5. e.kind \in {"thinking", "signature"} => Cardinality(Deltas(g, e.block)) > ThinkingCap
    <3>1. CASE e.type = "delta" /\ e.kind \in {"thinking", "signature"}
      <4>1. e.block \in Open(g) \ Withheld(t) /\ KindOf(g, e.block) = "thinking"
        BY <1>6, <1>8, <1>10, <1>14, <3>1 DEF Open
      <4> QED BY <2>3, <4>1 DEF Outgrown
    <3>2. CASE e.type # "delta"
      BY <1>8, <1>13, <1>15, <3>2
    <3> QED BY <3>1, <3>2
  <2>6. e.kind \notin {"redacted", "unsigned"}
    BY <1>8, <1>13, <1>15
  <2>7. Discreet(g, r)
    BY <1>5, <2>4, <2>5, <2>6, DiscreetSend
  <2> QED BY <2>3, <2>7
<1>16. q.stopped <=> "message_stop" \in Types(g)
  BY <1>5, <1>6, <1>14 DEF Piped
<1> QED BY <1>3, <1>5, <1>9, <1>11, <1>12, <1>15, <1>16 DEF Piped, Flows

\* A block of thinking that is not to be shown is withheld from its start, ...
LEMMA Withholds ==
  ASSUME NEW h, NEW z, NEW f, NEW p, Lawful(f), Piped(h, z, f, p),
         NEW e \in Input, MayFollow(f, e), NEW g, Grown(f, e, g),
         e.type = "start", ~h, e.kind = "thinking",
         NEW q, q = [p EXCEPT !.thinking = [NoThinking EXCEPT !.block = e.block]]
  PROVE  Piped(h, z, g, q) /\ (p.committed => q.committed)
<1>1. PICK t : t = p.thinking
  OBVIOUS
<1>2. PICK u : u = [block |-> e.block, signed |-> FALSE, size |-> 0]
  OBVIOUS
<1>3. /\ e \in Event /\ OpenThought(f) = {} /\ e.block \in Block \ Started(f)
  BY WhatFollows
<1>4. e.block # None /\ ThinkingCap \in Nat
  BY <1>3, PipelineAssumption
<1>5. u \in Thought /\ u = [NoThinking EXCEPT !.block = e.block]
  <2>1. u = [NoThinking EXCEPT !.block = e.block]
    <3>1. PICK zero : zero = 0
      OBVIOUS
    <3>2. PICK no : no = FALSE
      OBVIOUS
    <3>3. NoThinking = [block |-> None, signed |-> no, size |-> zero]
      BY <3>1, <3>2 DEF NoThinking
    <3>4. u = [block |-> e.block, signed |-> no, size |-> zero]
      BY <1>2, <3>1, <3>2
    <3> QED BY <3>3, <3>4
  <2>2. u \in Thought
    BY <1>2, <1>3 DEF Thought
  <2> QED BY <2>1, <2>2
<1>6. /\ WellMade(z, q) /\ q.thinking = u /\ Flow(z, q) = Flow(z, p)
      /\ q.committed = p.committed /\ q.stopped = p.stopped /\ q.pending = p.pending
  BY <1>5, ThoughtSet DEF Piped
<1>7. /\ Lawful(g) /\ KindOf(g, e.block) = "thinking"
      /\ \A b \in Started(f) : KindOf(g, b) = KindOf(f, b)
  BY LawfulGrows
<1>8. /\ Started(g) = Started(f) \cup {e.block} /\ Stopped(g) = Stopped(f)
      /\ Types(g) = Types(f) \cup {e.type}
  BY AppendShows
<1>9. Withheld(t) = {} /\ Withheld(u) = {e.block} /\ u.size <= ThinkingCap
  <2>1. Thinks(h, f, t)
    BY <1>1 DEF Piped
  <2>2. t.block = None
    BY <1>3, <2>1 DEF Thinks, OpenThought
  <2> QED BY <1>2, <1>4, <2>2 DEF Withheld
<1>10. /\ Lawful(f) /\ Stopped(f) \subseteq Started(f)
       /\ \A b \in Block : Deltas(f, b) # {} => b \in Started(f)
  BY DEF Lawful
<1>11. \A b \in Block : Deltas(g, b) = Deltas(f, b)
  BY AppendDeltas
<1>12. Deltas(g, e.block) = {}
  BY <1>3, <1>10, <1>11
<1>13. Thinks(h, g, u)
  <2>1. Cardinality(Deltas(g, e.block)) = 0 /\ ~Signed(g, e.block)
    BY <1>12, FS_EmptySet DEF Signed
  <2>2. e.block \in Open(g)
    BY <1>3, <1>8, <1>10 DEF Open
  <2> QED BY <1>2, <1>4, <1>7, <2>1, <2>2 DEF Thinks
<1>14. ASSUME p.committed
       PROVE  Flows(h, g, Flow(z, p), u)
  <2>1. PICK s : s = Flow(z, p)
    OBVIOUS
  <2>2. Mirrors(f, s, t) /\ Discreet(f, s) /\ Outgrown(f, t)
    BY <1>1, <1>14, <2>1 DEF Piped, Flows
  <2>3. Mirrors(g, s, u)
    BY <1>3, <1>9, <2>2, MirrorsKeep
  <2>4. Discreet(g, s)
    BY <1>4, <2>2, DiscreetKeep
  <2>5. \A b \in Open(g) \ Withheld(u) : b \in Open(f) \ Withheld(t)
    BY <1>8, <1>9 DEF Open
  <2>6. Outgrown(g, u)
    BY <1>4, <1>7, <2>2, <2>5, OutgrownKeep
  <2> QED BY <2>1, <2>3, <2>4, <2>6 DEF Flows
<1>15. ASSUME ~p.committed
       PROVE  Holds(g, p.pending, u)
  <2>1. Holds(f, p.pending, t)
    BY <1>1, <1>15 DEF Piped
  <2>2. Started(g) = Withheld(u) /\ Stopped(g) = {}
    BY <1>8, <1>9, <2>1 DEF Holds
  <2>3. \A b \in Block : Deltas(g, b) = {}
    BY <1>11, <2>1 DEF Holds
  <2>4. "error" \notin Types(g) => (p.pending = <<>> <=> g = <<>>)
    <3>1. f # <<>>
      BY LawfulGrows
    <3>2. g # <<>>
      BY DEF Grown
    <3> QED BY <1>8, <2>1, <3>1, <3>2 DEF Holds
  <2>5. Types(p.pending) \subseteq Types(g)
    BY <1>8, <2>1 DEF Holds
  <2> QED BY <2>1, <2>2, <2>3, <2>4, <2>5 DEF Holds
<1>16. q.stopped <=> "message_stop" \in Types(g)
  BY <1>6, <1>8 DEF Piped
<1> QED BY <1>6, <1>9, <1>13, <1>14, <1>15, <1>16 DEF Piped

\* ... its deltas are counted, ...
LEMMA KeepsBack ==
  ASSUME NEW h, NEW z, NEW f, NEW p, Lawful(f), Piped(h, z, f, p),
         NEW e \in Input, MayFollow(f, e), NEW g, Grown(f, e, g),
         e.type = "delta", e.block = p.thinking.block,
         p.thinking.size + 1 <= ThinkingCap,
         NEW u \in Thought, u.block = e.block, u.size = p.thinking.size + 1,
         u.signed <=> p.thinking.signed \/ e.kind = "signature",
         NEW m, WellMade(z, m), m.thinking = u, Flow(z, m) = Flow(z, p),
         m.stopped = p.stopped, NEW q, q = MarkContent(m)
  PROVE  Piped(h, z, g, q) /\ (p.committed => q.committed)
<1>1. PICK t : t = p.thinking
  OBVIOUS
<1>2. PICK s : s = Flow(z, p)
  OBVIOUS
<1>3. e.block \in Block /\ e.block \in Open(f)
  BY WhatFollows
<1>4. t.block # None /\ ThinkingCap \in Nat
  BY <1>1, <1>3, PipelineAssumption
<1>5. /\ WellMade(z, q) /\ q.committed /\ q.thinking = u /\ Flow(z, q) = s
      /\ q.stopped = p.stopped
  BY <1>2, Marked
<1>6. /\ Lawful(g) /\ f # <<>> /\ "message_delta" \notin Types(f)
      /\ "message_stop" \notin Types(f) /\ "error" \notin Types(f)
      /\ \A b \in Started(f) : KindOf(g, b) = KindOf(f, b)
  BY LawfulGrows
<1>7. Flows(h, f, s, t)
  BY <1>1, <1>2, <1>6, Commits
<1>8. /\ Started(g) = Started(f) /\ Stopped(g) = Stopped(f) /\ Types(g) = Types(f) \cup {e.type}
  <2>1. /\ Started(g) = Started(f) \cup (IF e.type = "start" THEN {e.block} ELSE {})
        /\ Stopped(g) = Stopped(f) \cup (IF e.type = "stop" THEN {e.block} ELSE {})
        /\ Types(g) = Types(f) \cup {e.type}
    BY AppendShows
  <2> QED BY <2>1
<1>9. Withheld(u) = Withheld(t)
  BY <1>1 DEF Withheld
<1>10. /\ ~h /\ KindOf(f, t.block) = "thinking" /\ t.size = Cardinality(Deltas(f, t.block))
       /\ t.signed <=> Signed(f, t.block)
  BY <1>1, <1>4 DEF Piped, Thinks
<1>11. /\ Cardinality(Deltas(g, e.block)) = Cardinality(Deltas(f, e.block)) + 1
       /\ Signed(g, e.block) <=> Signed(f, e.block) \/ e.kind = "signature"
  BY AppendDeltas
<1>12. Thinks(h, g, u)
  <2>1. u.block \in Open(g) /\ KindOf(g, u.block) = "thinking"
    BY <1>1, <1>3, <1>6, <1>8, <1>10 DEF Open
  <2>2. u.size = Cardinality(Deltas(g, u.block)) /\ u.size <= ThinkingCap
    BY <1>1, <1>10, <1>11
  <2>3. u.signed <=> Signed(g, u.block)
    BY <1>1, <1>10, <1>11
  <2> QED BY <1>10, <2>1, <2>2, <2>3 DEF Thinks
<1>13. Mirrors(g, s, u)
  BY <1>7, <1>9, MirrorsKeep DEF Flows
<1>14. Discreet(g, s)
  BY <1>3, <1>4, <1>7, <1>10, DiscreetKeep DEF Flows
<1>15. Outgrown(g, u)
  <2>1. \A b \in Open(g) \ Withheld(u) : b \in Open(f) \ Withheld(t)
    BY <1>8, <1>9 DEF Open
  <2>2. Outgrown(f, t)
    BY <1>7, <1>10 DEF Flows
  <2> QED BY <1>4, <1>6, <2>1, <2>2, OutgrownKeep
<1>16. q.stopped <=> "message_stop" \in Types(g)
  BY <1>5, <1>6, <1>8 DEF Piped
<1>17. q.thinking.size <= ThinkingCap
  BY <1>5
<1> QED BY <1>5, <1>12, <1>13, <1>14, <1>15, <1>16, <1>17 DEF Piped, Flows

\* ... until it outgrows the cap, and is shown, or stops, and is shown as redacted.
LEMMA Reveals ==
  ASSUME NEW h, NEW z, NEW f, NEW p, Lawful(f), Piped(h, z, f, p),
         NEW e \in Input, MayFollow(f, e), NEW g, Grown(f, e, g),
         e.type \in {"delta", "stop"}, e.block = p.thinking.block,
         NEW x \in Event, x.type = "start", x.block = e.block,
         e.type = "delta" => p.thinking.size + 1 > ThinkingCap /\ x.kind = "thinking",
         e.type = "stop" => x.kind = IF p.thinking.signed THEN "redacted" ELSE "unsigned",
         NEW m, WellMade(z, m), m.thinking = NoThinking, Flow(z, m) = Flow(z, p),
         m.stopped = p.stopped,
         NEW n, n = Emit(MarkContent(m), x), NEW q, q = Emit(n, e)
  PROVE  Piped(h, z, g, q) /\ (p.committed => q.committed)
<1>1. PICK t : t = p.thinking
  OBVIOUS
<1>2. PICK s : s = Flow(z, p)
  OBVIOUS
<1>3. PICK v : v = Flow(z, n)
  OBVIOUS
<1>4. PICK r : r = Flow(z, q)
  OBVIOUS
<1>5. PICK u : u = NoThinking
  OBVIOUS
<1>6. /\ u \in Thought /\ u.block = None /\ u.size = 0 /\ Withheld(u) = {}
  BY <1>5 DEF NoThinking, Thought, Withheld
<1>7. /\ e \in Event /\ e.block \in Block /\ e.block \in Open(f)
      /\ e.type = "stop" => e.kind = None
      /\ e.type = "delta" =>
           /\ KindOf(f, e.block) = "thinking" => e.kind \in {"thinking", "signature"}
           /\ KindOf(f, e.block) # "thinking" => e.kind = "text"
  BY WhatFollows
<1>8. /\ t.block # None /\ ThinkingCap \in Nat
      /\ None \notin {"text", "thinking", "redacted", "signature", "unsigned"}
  BY <1>1, <1>7, PipelineAssumption
<1>9. /\ WellMade(z, n) /\ n.committed /\ n.thinking = u /\ n.stopped = p.stopped
      /\ Grown(s, x, v)
  <2>2. PICK k : k = MarkContent(m)
    OBVIOUS
  <2>3. /\ WellMade(z, k) /\ k.committed /\ k.thinking = u /\ Flow(z, k) = s
        /\ k.stopped = p.stopped
    BY <1>2, <1>5, <2>2, Marked
  <2> QED BY <1>3, <2>2, <2>3, EmitFlows
<1>10. /\ WellMade(z, q) /\ q.committed /\ q.thinking = u /\ q.stopped = p.stopped
       /\ Grown(v, e, r)
  BY <1>3, <1>4, <1>7, <1>9, EmitFlows
<1>11. /\ Lawful(g) /\ f # <<>> /\ "message_delta" \notin Types(f)
       /\ "message_stop" \notin Types(f) /\ "error" \notin Types(f)
       /\ \A b \in Started(f) : KindOf(g, b) = KindOf(f, b)
  BY LawfulGrows
<1>12. Flows(h, f, s, t)
  BY <1>1, <1>2, <1>11, Commits
<1>13. /\ Started(g) = Started(f) /\ Types(g) = Types(f) \cup {e.type}
       /\ Stopped(g) = Stopped(f) \cup (IF e.type = "stop" THEN {e.block} ELSE {})
  <2>1. /\ Started(g) = Started(f) \cup (IF e.type = "start" THEN {e.block} ELSE {})
        /\ Stopped(g) = Stopped(f) \cup (IF e.type = "stop" THEN {e.block} ELSE {})
        /\ Types(g) = Types(f) \cup {e.type}
    BY AppendShows
  <2> QED BY <2>1
<1>14. /\ ~h /\ KindOf(f, t.block) = "thinking" /\ t.size = Cardinality(Deltas(f, t.block))
       /\ t.signed <=> Signed(f, t.block)
  BY <1>1, <1>8 DEF Piped, Thinks
<1>15. Mirrors(g, r, u)
  BY <1>1, <1>6, <1>7, <1>8, <1>9, <1>10, <1>12, MirrorsReveal DEF Flows
<1>16. Thinks(h, g, u)
  BY <1>6 DEF Thinks
<1>17. ASSUME e.type = "delta"
       PROVE  Cardinality(Deltas(g, e.block)) > ThinkingCap
  <2>1. Cardinality(Deltas(g, e.block)) = Cardinality(Deltas(f, e.block)) + 1
    BY <1>17, AppendDeltas
  <2> QED BY <1>1, <1>14, <1>17, <2>1
<1>18. ASSUME e.type = "stop"
       PROVE  e.block \in Stopped(g) /\ (Signed(g, e.block) <=> t.signed)
  <2>1. Signed(g, e.block) <=> Signed(f, e.block)
    BY <1>18, AppendDeltas
  <2> QED BY <1>1, <1>13, <1>14, <1>18, <2>1
<1>19. Discreet(g, r)
  <2>1. Discreet(g, s)
    BY <1>7, <1>8, <1>12, <1>14, DiscreetKeep DEF Flows
  <2>2. /\ x.kind \in {"thinking", "signature"} => Cardinality(Deltas(g, x.block)) > ThinkingCap
        /\ x.kind \in {"redacted", "unsigned"} =>
             x.block \in Stopped(g) /\ (x.kind = "redacted" <=> Signed(g, x.block))
    BY <1>1, <1>17, <1>18
  <2>3. Discreet(g, v)
    BY <1>9, <2>1, <2>2, DiscreetSend
  <2>4. /\ e.kind \in {"thinking", "signature"} => Cardinality(Deltas(g, e.block)) > ThinkingCap
        /\ e.kind \notin {"redacted", "unsigned"}
    BY <1>7, <1>8, <1>17
  <2> QED BY <1>10, <2>3, <2>4, DiscreetSend
<1>20. Outgrown(g, u)
  <2>1. ASSUME NEW b \in Open(g) \ Withheld(u)
        PROVE  b \in Open(f) \ Withheld(t) \/ Cardinality(Deltas(g, b)) > ThinkingCap
    BY <1>1, <1>13, <1>17 DEF Open, Withheld
  <2>2. Outgrown(f, t)
    BY <1>12, <1>14 DEF Flows
  <2> QED BY <1>8, <1>11, <2>1, <2>2, OutgrownKeep
<1>21. q.stopped <=> "message_stop" \in Types(g)
  BY <1>10, <1>11, <1>13 DEF Piped
<1>22. q.thinking.size <= ThinkingCap
  BY <1>6, <1>8, <1>10
<1> QED BY <1>4, <1>10, <1>15, <1>16, <1>19, <1>20, <1>21, <1>22 DEF Piped, Flows

\* What is no part of a block goes the way of what came before it.
LEMMA PassesOn ==
  ASSUME NEW h, NEW z, NEW f, NEW p, Lawful(f), Piped(h, z, f, p),
         NEW e \in Input, MayFollow(f, e), NEW g, Grown(f, e, g),
         e.type \notin {"start", "delta", "stop"}, e.type = "error" => p.committed,
         NEW m, WellMade(z, m), m.committed <=> p.committed, m.pending = p.pending,
         Flow(z, m) = Flow(z, p), m.thinking = p.thinking,
         m.stopped <=> p.stopped \/ e.type = "message_stop",
         NEW q, q = Emit(m, e)
  PROVE  Piped(h, z, g, q) /\ (p.committed => q.committed)
<1>1. PICK t : t = p.thinking
  OBVIOUS
<1>2. /\ e \in Event /\ e.kind = None
      /\ e.type = "message_start" => f = <<>>
  BY WhatFollows
<1>3. /\ Lawful(g) /\ \A b \in Started(f) : KindOf(g, b) = KindOf(f, b)
      /\ e.type \notin {"message_start", "error"} => f # <<>>
      /\ f = <<>> => Started(f) = {} /\ Stopped(f) = {}
  BY LawfulGrows, EmptyStream
<1>4. /\ Started(g) = Started(f) /\ Stopped(g) = Stopped(f) /\ Types(g) = Types(f) \cup {e.type}
  <2>1. /\ Started(g) = Started(f) \cup (IF e.type = "start" THEN {e.block} ELSE {})
        /\ Stopped(g) = Stopped(f) \cup (IF e.type = "stop" THEN {e.block} ELSE {})
        /\ Types(g) = Types(f) \cup {e.type}
    BY AppendShows
  <2> QED BY <2>1
<1>5. Thinks(h, f, t) /\ t.size <= ThinkingCap /\ Thinks(h, g, t)
  <2>1. Thinks(h, f, t) /\ t.size <= ThinkingCap
    BY <1>1 DEF Piped
  <2> QED BY <1>3, <2>1, ThinksKeep
<1>6. ThinkingCap \in Nat /\ None \notin {"text", "thinking", "redacted", "signature", "unsigned"}
  BY PipelineAssumption
<1>7. m.stopped <=> "message_stop" \in Types(g)
  BY <1>4 DEF Piped
<1>8. CASE p.committed
  <2>1. PICK s : s = Flow(z, p)
    OBVIOUS
  <2>2. PICK r : r = Flow(z, q)
    OBVIOUS
  <2>3. /\ WellMade(z, q) /\ q.committed /\ Grown(s, e, r)
        /\ q.thinking = t /\ q.stopped = m.stopped
    BY <1>1, <1>2, <1>8, <2>1, <2>2, EmitFlows
  <2>4. Flows(h, f, s, t)
    BY <1>1, <1>8, <2>1 DEF Piped
  <2>5. Withheld(t) \subseteq Open(f) /\ e.type # "message_start"
    BY <1>2, <1>5, <2>4 DEF Thinks, Withheld, Flows, Mirrors
  <2>6. Mirrors(g, r, t)
    BY <2>3, <2>4, <2>5, MirrorsSend DEF Flows
  <2>7. ASSUME ~h
        PROVE  Discreet(g, r) /\ Outgrown(g, t)
    <3>1. Discreet(f, s) /\ Outgrown(f, t)
      BY <2>4, <2>7 DEF Flows
    <3>2. Discreet(g, s)
      BY <1>6, <3>1, DiscreetKeep
    <3>3. Discreet(g, r)
      BY <1>2, <1>6, <2>3, <3>2, DiscreetSend
    <3>4. \A b \in Open(g) \ Withheld(t) : b \in Open(f) \ Withheld(t)
      BY <1>4 DEF Open
    <3>5. Outgrown(g, t)
      BY <1>3, <1>6, <3>1, <3>4, OutgrownKeep
    <3> QED BY <3>3, <3>5
  <2> QED BY <1>5, <1>7, <2>2, <2>3, <2>6, <2>7 DEF Piped, Flows
<1>9. CASE ~p.committed
  <2>1. PICK s : s = p.pending
    OBVIOUS
  <2>2. PICK r : r = q.pending
    OBVIOUS
  <2>3. /\ WellMade(z, q) /\ ~q.committed /\ q.thinking = t /\ q.stopped = m.stopped
        /\ Grown(s, e, r) \/ (r = s /\ s # <<>>)
    BY <1>1, <1>2, <1>9, <2>1, <2>2, EmitHeld
  <2>4. /\ BlocksAreLegal(s) /\ Started(s) = {} /\ Stopped(s) = {} /\ Types(s) \subseteq Types(f)
        /\ \A i \in DOMAIN s : s[i].kind = None
        /\ "error" \notin Types(s)
        /\ "error" \notin Types(f) => (s = <<>> <=> f = <<>>)
        /\ Started(f) = Withheld(t) /\ Stopped(f) = {}
        /\ \A b \in Block : Deltas(f, b) = {}
    BY <1>1, <1>9, <2>1 DEF Piped, Holds
  <2>5. \A b \in Block : Deltas(g, b) = {}
    BY <2>4, AppendDeltas
  <2>6. "error" \notin Types(f) /\ e.type # "error"
    BY <1>9, WhatFollows
  <2>7. g # <<>>
    BY DEF Grown
  <2>8. ASSUME r = s, s # <<>>
        PROVE  Holds(g, r, t)
    BY <1>4, <2>4, <2>5, <2>7, <2>8 DEF Holds
  <2>9. ASSUME Grown(s, e, r)
        PROVE  Holds(g, r, t)
    <3>1. /\ Started(r) = Started(s) \cup (IF e.type = "start" THEN {e.block} ELSE {})
          /\ Stopped(r) = Stopped(s) \cup (IF e.type = "stop" THEN {e.block} ELSE {})
          /\ Types(r) = Types(s) \cup {e.type}
      BY <2>9, AppendShows
    <3>2. e.type = "message_start" <=> s = <<>>
      BY <1>2, <1>3, <2>4, <2>6
    <3>3. BlocksAreLegal(r)
      BY <2>4, <2>9, <3>2, LegalGrows
    <3>4. \A i \in DOMAIN r : r[i].kind = None
      BY <1>2, <2>4, <2>9 DEF Grown
    <3>5. r # <<>>
      BY <2>9 DEF Grown
    <3>6. /\ Started(r) = {} /\ Stopped(r) = {} /\ Types(r) \subseteq Types(g)
          /\ "error" \notin Types(r)
      BY <1>4, <2>4, <2>6, <3>1
    <3> QED BY <1>4, <2>4, <2>5, <2>7, <3>3, <3>4, <3>5, <3>6 DEF Holds
  <2>10. Holds(g, r, t)
    BY <2>3, <2>8, <2>9
  <2> QED BY <1>5, <1>7, <1>9, <2>2, <2>3, <2>10 DEF Piped
<1> QED BY <1>8, <1>9

\* An error before there is content: the attempt fails, with nothing sent.
LEMMA ErrorHolds ==
  ASSUME NEW h, NEW z, NEW f, NEW p, Lawful(f), Piped(h, z, f, p),
         NEW e \in Input, MayFollow(f, e), NEW g, Grown(f, e, g),
         e.type = "error", ~p.committed, NEW q, q = [p EXCEPT !.error = TRUE]
  PROVE  Piped(h, z, g, q) /\ (p.committed => q.committed)
<1>1. /\ WellMade(z, q) /\ q.thinking = p.thinking /\ q.committed = p.committed
      /\ q.stopped = p.stopped /\ q.pending = p.pending
  <2>1. q = [pending |-> p.pending, out |-> p.out, committed |-> p.committed,
             stopped |-> p.stopped, error |-> TRUE, thinking |-> p.thinking]
    <3>1. p = [pending |-> p.pending, out |-> p.out, committed |-> p.committed,
               stopped |-> p.stopped, error |-> p.error, thinking |-> p.thinking]
      BY PipeFields DEF Piped, WellMade
    <3> QED BY <3>1
  <2>2. q \in PipeType
    BY <2>1 DEF Piped, WellMade, PipeType
  <2> QED BY <2>1, <2>2 DEF Piped, WellMade
<1>2. /\ Started(g) = Started(f) /\ Stopped(g) = Stopped(f) /\ Types(g) = Types(f) \cup {e.type}
  <2>1. /\ Started(g) = Started(f) \cup (IF e.type = "start" THEN {e.block} ELSE {})
        /\ Stopped(g) = Stopped(f) \cup (IF e.type = "stop" THEN {e.block} ELSE {})
        /\ Types(g) = Types(f) \cup {e.type}
    BY AppendShows
  <2> QED BY <2>1
<1>3. Thinks(h, g, p.thinking)
  BY LawfulGrows, ThinksKeep DEF Piped
<1>4. \A b \in Block : Deltas(g, b) = Deltas(f, b)
  BY AppendDeltas
<1>5. Holds(g, p.pending, p.thinking)
  BY <1>2, <1>4 DEF Piped, Holds
<1> QED BY <1>1, <1>2, <1>3, <1>5 DEF Piped

\* One delta more of the withheld block.
More(p, e) ==
  [p EXCEPT !.thinking.size = @ + 1, !.thinking.signed = @ \/ e.kind = "signature"]
Unthought(p) == [p EXCEPT !.thinking = NoThinking]

IsMore(z, p, e, m, u) ==
  /\ u \in Thought /\ u.block = p.thinking.block /\ u.size = p.thinking.size + 1
  /\ u.signed <=> p.thinking.signed \/ e.kind = "signature"
  /\ WellMade(z, m) /\ m.thinking = u /\ Flow(z, m) = Flow(z, p)
  /\ m.stopped = p.stopped
  /\ Unthought(m) = Unthought(p)

LEMMA HeldMore ==
  ASSUME NEW z, NEW p, WellMade(z, p), NEW e, NEW m, m = More(p, e)
  PROVE  \E u : IsMore(z, p, e, m, u)
<1>1. PICK t \in Thought : t = p.thinking
  BY DEF WellMade, PipeType
<1>2. PICK says \in BOOLEAN : says <=> t.signed \/ e.kind = "signature"
  OBVIOUS
<1>3. t.signed \in BOOLEAN /\ t.size \in Nat /\ t.block \in Block \cup {None}
  BY DEF Thought
<1>4. PICK more \in Nat : more = t.size + 1
  BY <1>3
<1>5. says = (t.signed \/ e.kind = "signature")
  BY Zenon, <1>2, <1>3
<1>6. PICK u : u = [block |-> t.block, signed |-> says, size |-> more]
  OBVIOUS
<1>7. u \in Thought
  BY <1>3, <1>6 DEF Thought
<1>8. t = [block |-> t.block, signed |-> t.signed, size |-> t.size]
  BY DEF Thought
<1>9. p = [pending |-> p.pending, out |-> p.out, committed |-> p.committed,
           stopped |-> p.stopped, error |-> p.error, thinking |-> t]
  BY <1>1, PipeFields DEF WellMade
<1>10. PICK k : k = [p EXCEPT !.thinking = u]
  OBVIOUS
<1>11. m = k
  <2>1. k = [pending |-> p.pending, out |-> p.out, committed |-> p.committed,
             stopped |-> p.stopped, error |-> p.error, thinking |-> u]
    BY <1>9, <1>10
  <2>2. m = [pending |-> p.pending, out |-> p.out, committed |-> p.committed,
             stopped |-> p.stopped, error |-> p.error, thinking |-> u]
    BY <1>1, <1>4, <1>5, <1>6, <1>8, <1>9 DEF More
  <2> QED BY <2>1, <2>2
<1>12. /\ WellMade(z, k) /\ k.thinking = u /\ Flow(z, k) = Flow(z, p) /\ k.stopped = p.stopped
       /\ Unthought(k) = Unthought(p)
  <2>1. /\ WellMade(z, k) /\ k.thinking = u /\ Flow(z, k) = Flow(z, p)
        /\ k.stopped = p.stopped
    BY <1>7, <1>10, ThoughtSet
  <2>2. Unthought(k) = Unthought(p)
    BY <1>9, <1>10 DEF Unthought
  <2> QED BY <2>1, <2>2
<1>13. /\ u.block = p.thinking.block /\ u.size = p.thinking.size + 1
       /\ u.signed <=> p.thinking.signed \/ e.kind = "signature"
  BY <1>1, <1>2, <1>4, <1>6
<1> QED BY <1>7, <1>11, <1>12, <1>13 DEF IsMore

\* handle_block(): whatever may come next, the pipeline makes of it what it should.
LEMMA FeedPipes ==
  ASSUME NEW z, NEW f, NEW p, Lawful(f), Piped(show, z, f, p), show \in BOOLEAN,
         NEW e \in Input, MayFollow(f, e), NEW g, Grown(f, e, g),
         NEW q, q = Handled(p, e)
  PROVE  Piped(show, z, g, q) /\ (p.committed => q.committed)
<1>1. /\ e \in Event
      /\ e.type = "start" => e.kind \in {"text", "thinking"}
      /\ e.type \in {"delta", "stop"} => e.block \in Block /\ e.block \in Open(f)
  BY WhatFollows
<1>2. WellMade(z, p) /\ p \in PipeType /\ p.committed \in BOOLEAN
  BY DEF Piped, WellMade, PipeType
<1>3. PICK o : o = MarkContent(p)
  OBVIOUS
<1>4. /\ WellMade(z, o) /\ o.committed /\ Flow(z, o) = Flow(z, p)
      /\ o.thinking = p.thinking /\ o.stopped = p.stopped
  BY <1>2, <1>3, Marked
<1>5. CASE e.type = "start"
  <2>1. q = OnStart(p, e)
    BY <1>5 DEF Handled
  <2>2. CASE e.kind = "thinking" /\ ~show
    <3>1. q = [p EXCEPT !.thinking = [NoThinking EXCEPT !.block = e.block]]
      BY <2>1, <2>2 DEF OnStart
    <3> QED BY <1>5, <2>2, <3>1, Withholds
  <2>3. CASE ~(e.kind = "thinking" /\ ~show)
    <3>1. q = Emit(o, e)
      BY <1>3, <2>1, <2>3 DEF OnStart
    <3>2. show \/ e.kind = "text"
      BY <1>1, <1>5, <2>3
    <3> QED BY <1>4, <1>5, <3>1, <3>2, SendsOn
  <2> QED BY <2>2, <2>3
<1>6. CASE e.type = "delta"
  <2>1. q = OnDelta(p, e)
    BY <1>6 DEF Handled
  <2>2. CASE p.thinking.block # e.block
    <3>1. q = Emit(o, e)
      BY <1>3, <2>1, <2>2 DEF OnDelta
    <3> QED BY <1>4, <1>6, <2>2, <3>1, SendsOn
  <2>3. CASE p.thinking.block = e.block
    <3>2. PICK m : m = More(p, e)
      OBVIOUS
    <3>1. PICK u : IsMore(z, p, e, m, u)
      BY <1>2, <3>2, HeldMore
    <3>3. /\ u \in Thought /\ u.block = p.thinking.block /\ u.size = p.thinking.size + 1
          /\ u.signed <=> p.thinking.signed \/ e.kind = "signature"
          /\ WellMade(z, m) /\ m.thinking = u /\ Flow(z, m) = Flow(z, p)
          /\ m.stopped = p.stopped
          /\ Unthought(m) = Unthought(p)
      BY <3>1 DEF IsMore
    <3>4. q = IF m.thinking.size <= ThinkingCap THEN MarkContent(m)
              ELSE Emit(Emit(MarkContent(Unthought(m)),
                             Of("start", e.block, "thinking")), e)
      BY <2>1, <2>3, <3>2 DEF OnDelta, More, Unthought
    <3>5. CASE m.thinking.size <= ThinkingCap
      <4>1. q = MarkContent(m)
        BY <3>4, <3>5
      <4>2. u.signed <=> p.thinking.signed \/ e.kind = "signature"
        BY <3>3
      <4>3. u.block = e.block /\ p.thinking.size + 1 <= ThinkingCap
        BY <2>3, <3>3, <3>5
      <4> QED BY <1>6, <2>3, <3>3, <4>1, <4>2, <4>3, KeepsBack
    <3>6. CASE ~(m.thinking.size <= ThinkingCap)
      <4>1. PICK k : k = Unthought(p)
        OBVIOUS
      <4>2. PICK x : x = Of("start", e.block, "thinking")
        OBVIOUS
      <4>3. PICK n : n = Emit(MarkContent(k), x)
        OBVIOUS
      <4>4. q = Emit(n, e)
        BY <3>3, <3>4, <3>6, <4>1, <4>2, <4>3
      <4>5. /\ x \in Event /\ x.type = "start" /\ x.block = e.block /\ x.kind = "thinking"
        BY <1>1, <1>6, <4>2 DEF Of, Event, Type, Kind
      <4>6. NoThinking \in Thought
        BY DEF NoThinking, Thought
      <4>7. /\ WellMade(z, k) /\ k.thinking = NoThinking /\ Flow(z, k) = Flow(z, p)
            /\ k.stopped = p.stopped
        BY <1>2, <4>1, <4>6, ThoughtSet DEF Unthought
      <4>8. p.thinking.size + 1 > ThinkingCap
        <5>1. p.thinking.size \in Nat /\ ThinkingCap \in Nat
          BY <1>2, PipelineAssumption DEF PipeType, Thought
        <5> QED BY <3>3, <3>6, <5>1
      <4> QED BY <1>6, <2>3, <4>3, <4>4, <4>5, <4>7, <4>8, Reveals
    <3> QED BY <3>5, <3>6
  <2> QED BY <2>2, <2>3
<1>7. CASE e.type = "stop"
  <2>1. q = OnStop(p, e)
    BY <1>7 DEF Handled
  <2>2. CASE p.thinking.block # e.block
    <3>1. q = Emit(p, e)
      BY <2>1, <2>2 DEF OnStop
    <3>2. p.committed
      <4>1. ASSUME ~p.committed
            PROVE  FALSE
        <5>1. Started(f) = Withheld(p.thinking)
          BY <4>1 DEF Piped, Holds
        <5> QED BY <1>1, <1>7, <2>2, <5>1 DEF Withheld, Open
      <4> QED BY <4>1
    <3> QED BY <1>2, <1>7, <2>2, <3>1, <3>2, SendsOn
  <2>3. CASE p.thinking.block = e.block
    <3>1. PICK k : k = [p EXCEPT !.thinking = NoThinking]
      OBVIOUS
    <3>2. PICK x : x = Redacted(p.thinking)
      OBVIOUS
    <3>3. PICK n : n = Emit(MarkContent(k), x)
      OBVIOUS
    <3>4. q = Emit(n, e)
      BY <2>1, <2>3, <3>1, <3>2, <3>3 DEF OnStop
    <3>5. /\ x \in Event /\ x.type = "start" /\ x.block = e.block
          /\ x.kind = IF p.thinking.signed THEN "redacted" ELSE "unsigned"
      BY <1>1, <1>7, <2>3, <3>2 DEF Redacted, Of, Event, Type, Kind
    <3>6. NoThinking \in Thought
      BY DEF NoThinking, Thought
    <3>7. /\ WellMade(z, k) /\ k.thinking = NoThinking /\ Flow(z, k) = Flow(z, p)
          /\ k.stopped = p.stopped
      BY <1>2, <3>1, <3>6, ThoughtSet
    <3> QED BY <1>7, <2>3, <3>3, <3>4, <3>5, <3>7, Reveals
  <2> QED BY <2>2, <2>3
<1>8. CASE e.type = "message_stop"
  <2>1. PICK m : m = [p EXCEPT !.stopped = TRUE]
    OBVIOUS
  <2>2. q = Emit(m, e)
    BY <1>8, <2>1 DEF Handled
  <2>3. m = [pending |-> p.pending, out |-> p.out, committed |-> p.committed,
             stopped |-> TRUE, error |-> p.error, thinking |-> p.thinking]
    <3>1. p = [pending |-> p.pending, out |-> p.out, committed |-> p.committed,
               stopped |-> p.stopped, error |-> p.error, thinking |-> p.thinking]
      BY <1>2, PipeFields
    <3> QED BY <2>1, <3>1
  <2>4. m \in PipeType
    BY <1>2, <2>3 DEF PipeType
  <2>5. /\ m.pending = p.pending /\ m.out = p.out /\ m.committed = p.committed
        /\ m.thinking = p.thinking /\ m.stopped
    BY <2>3
  <2>6. WellMade(z, m) /\ Flow(z, m) = Flow(z, p)
    BY <1>2, <2>4, <2>5 DEF WellMade, Flow
  <2> QED BY <1>8, <2>2, <2>5, <2>6, PassesOn
<1>9. CASE e.type = "error" /\ ~p.committed
  <2>1. q = [p EXCEPT !.error = TRUE]
    BY <1>9 DEF Handled
  <2> QED BY <1>9, <2>1, ErrorHolds
<1>10. CASE \/ e.type \notin {"start", "delta", "stop", "message_stop", "error"}
            \/ e.type = "error" /\ p.committed
  <2>1. q = Emit(p, e)
    BY <1>10 DEF Handled
  <2> QED BY <1>2, <1>10, <2>1, PassesOn
<1> QED BY <1>5, <1>6, <1>7, <1>8, <1>9, <1>10

(***************************************************************************)
(* The steps of an attempt.                                                *)
(***************************************************************************)
Clocks ==
  /\ midChunk \in BOOLEAN /\ stalled \in BOOLEAN
  /\ waited \in 0..FirstContent /\ quiet \in 0..Idle /\ silent \in 0..PingEvery

EndsOnce(f, s) == Count(s, "message_stop") = 1 /\ (Whole(f) => Whole(s))

PartsOK ==
  /\ Clocks /\ show \in BOOLEAN
  /\ at \in Live \cup {"done", "idle", "broken", "gone", "empty", "failed"}
  /\ fed \in Seq(Event) /\ Len(fed) <= MaxEvents
  /\ pipe \in PipeType /\ Len(pipe.pending) <= PendingCap
  /\ pipe.committed => pipe.pending = <<>>
  /\ pipe.thinking.size <= ThinkingCap
  /\ sent \in Seq(Event)
  /\ row \in {"none", "clean", "error"} /\ (row = "none" <=> at \in Live)

LEMMA TypeParts == (TypeOK <=> PartsOK) /\ (TypeOK' <=> PartsOK')
BY DEF TypeOK, PartsOK, Clocks, PipeType, Thought, Live

\* While the attempt goes on, the rest follows from the state of the pipeline.
LEMMA LiveStream ==
  ASSUME NEW h, NEW z, NEW f, NEW p, Piped(h, z, f, p)
  PROVE  BlocksAreLegal(z \o p.out) /\ (~h => Discreet(f, z \o p.out))
<1>1. CASE p.committed
  BY <1>1 DEF Piped, Flows, Flow, Mirrors
<1>2. CASE ~p.committed
  <2>1. z \o p.out = <<>>
    <3>1. z = <<>> /\ p.out = <<>> /\ z \in Seq(Event)
      BY <1>2 DEF Piped, WellMade
    <3> QED BY <3>1, ConcatEmpty
  <2> QED BY <2>1, EmptyStream DEF Discreet
<1> QED BY <1>1, <1>2

LEMMA GoesOn ==
  ASSUME PipelineInv, at \in Live, at' \in Live, UNCHANGED <<show, row>>, Clocks',
         Lawful(fed'), Len(fed') <= MaxEvents, Piped(show, sent', fed', pipe'), GateInv'
  PROVE  PipelineInv'
<1>1. PICK y : y = sent'
  OBVIOUS
<1>2. PICK q : q = pipe'
  OBVIOUS
<1>3. PICK g : g = fed'
  OBVIOUS
<1>4. Piped(show, y, g, q)
  BY <1>1, <1>2, <1>3
<1>5. BlocksAreLegal(y \o q.out) /\ (~show => Discreet(g, y \o q.out))
  BY <1>4, LiveStream
<1>6. TypeOK'
  <2>1. /\ show' \in BOOLEAN /\ row' \in {"none", "clean", "error"}
        /\ row' = "none" <=> at' \in Live
    BY TypeParts DEF PipelineInv, PartsOK
  <2>2. /\ y \in Seq(Event) /\ q \in PipeType /\ Len(q.pending) <= PendingCap
        /\ q.committed => q.pending = <<>>
        /\ q.thinking.size <= ThinkingCap
    BY <1>4 DEF Piped, WellMade
  <2>3. fed' \in Seq(Event)
    BY DEF Lawful
  <2> QED BY <1>1, <1>2, <2>1, <2>2, <2>3, TypeParts DEF PartsOK
<1>7. BlocksStayLegal'
  BY <1>1, <1>2, <1>5 DEF BlocksStayLegal, Stream
<1>8. ~show' => Discreet(fed', Stream')
  BY <1>1, <1>2, <1>3, <1>5 DEF Stream
<1>9. StreamsEndOnce'
  BY DEF StreamsEndOnce, Live
<1>10. at' \in Live => Piped(show', sent', fed', pipe')
  OBVIOUS
<1> QED BY <1>6, <1>7, <1>8, <1>9, <1>10 DEF PipelineInv

LEMMA ComesToEnd ==
  ASSUME PipelineInv,
         NEW how \in {"done", "idle", "broken", "gone", "empty", "failed"},
         NEW says \in {"clean", "error"}, End(how, says), UNCHANGED pipe,
         NEW y \in Seq(Event), sent' = y,
         NEW r, r = y \o pipe.out, BlocksAreLegal(r), ~show => Discreet(fed, r),
         how = "done" => EndsOnce(fed, y)
  PROVE  PipelineInv'
<1>1. /\ at' = how /\ row' = says /\ UNCHANGED <<show, fed, pipe>>
      /\ midChunk' = FALSE /\ stalled' = FALSE /\ waited' = 0 /\ quiet' = 0 /\ silent' = 0
  BY DEF End
<1>2. at' \notin Live /\ at' # "gate" /\ at' # "streaming"
  BY <1>1 DEF Live
<1>3. Clocks'
  <2>1. 0 \in 0..FirstContent /\ 0 \in 0..Idle /\ 0 \in 0..PingEvery
    BY PipelineAssumption
  <2> QED BY <1>1, <2>1 DEF Clocks
<1>4. TypeOK'
  <2>1. /\ show \in BOOLEAN /\ fed \in Seq(Event) /\ Len(fed) <= MaxEvents
        /\ pipe \in PipeType /\ Len(pipe.pending) <= PendingCap
        /\ pipe.committed => pipe.pending = <<>>
        /\ pipe.thinking.size <= ThinkingCap
    BY TypeParts DEF PipelineInv, PartsOK
  <2>2. row' \in {"none", "clean", "error"} /\ row' # "none"
    BY <1>1
  <2> QED BY <1>1, <1>2, <1>3, <2>1, <2>2, TypeParts DEF PartsOK
<1>5. Stream' = r
  BY <1>1 DEF Stream
<1>6. BlocksStayLegal' /\ (~show' => Discreet(fed', Stream'))
  BY <1>1, <1>5 DEF BlocksStayLegal
<1>7. StreamsEndOnce'
  BY <1>1 DEF StreamsEndOnce, EndsOnce
<1>8. Lawful(fed') /\ GateInv'
  BY <1>1, <1>2 DEF PipelineInv, GateInv
<1> QED BY <1>2, <1>4, <1>6, <1>7, <1>8 DEF PipelineInv

LEMMA InvParts ==
  ASSUME PipelineInv
  PROVE  /\ Clocks /\ show \in BOOLEAN /\ Lawful(fed) /\ fed \in Seq(Event)
         /\ Len(fed) <= MaxEvents /\ sent \in Seq(Event) /\ GateInv
         /\ at \in Live => Piped(show, sent, fed, pipe)
         /\ BlocksAreLegal(Stream) /\ (~show => Discreet(fed, Stream))
BY TypeParts DEF PipelineInv, PartsOK, BlocksStayLegal

LEMMA FeedKeepsInv ==
  ASSUME PipelineInv, NEW e \in Input, Feed(e)
  PROVE  PipelineInv'
<1>1. /\ at \in Live /\ MayFollow(fed, e) /\ Len(fed) < MaxEvents /\ midChunk' = TRUE
      /\ fed' = Append(fed, e) /\ pipe' = Handled(pipe, e) /\ quiet' = 0
      /\ UNCHANGED <<show, at, sent, row, waited, silent, stalled>>
  BY DEF Feed
<1>2. e \in Event
  BY <1>1, WhatFollows
<1>3. PICK g : g = Append(fed, e)
  OBVIOUS
<1>4. Grown(fed, e, g) /\ Lawful(fed)
  BY <1>2, <1>3, AppendGrows, InvParts
<1>5. Lawful(g)
  BY <1>1, <1>4, LawfulGrows
<1>6. Len(g) <= MaxEvents
  BY <1>1, <1>4, PipelineAssumption DEF Grown
<1>7. Clocks'
  <2>1. 0 \in 0..Idle
    BY PipelineAssumption
  <2> QED BY <1>1, <2>1, InvParts DEF Clocks
<1>8. PICK q : q = Handled(pipe, e)
  OBVIOUS
<1>9. Piped(show, sent, g, q) /\ (pipe.committed => q.committed)
  BY <1>1, <1>4, <1>8, InvParts, FeedPipes
<1>10. GateInv'
  BY <1>1, <1>8, <1>9, InvParts DEF GateInv
<1> QED BY <1>1, <1>3, <1>5, <1>6, <1>7, <1>8, <1>9, <1>10, GoesOn

\* The steps that leave the stream alone.
LEMMA RestKeepsInv ==
  ASSUME PipelineInv, UNCHANGED <<show, at, fed, pipe, sent, row>>, Clocks', GateInv'
  PROVE  PipelineInv'
<1>1. UNCHANGED <<Stream, BlocksStayLegal, StreamsEndOnce>>
  BY DEF Stream, BlocksStayLegal, StreamsEndOnce
<1>2. TypeOK'
  BY TypeParts DEF PartsOK, PipelineInv
<1>3. Lawful(fed') /\ (at' \in Live => Piped(show', sent', fed', pipe'))
  BY DEF PipelineInv
<1>4. ~show' => Discreet(fed', Stream')
  BY <1>1 DEF PipelineInv
<1> QED BY <1>1, <1>2, <1>3, <1>4 DEF PipelineInv

LEMMA WaitsKeepInv ==
  ASSUME PipelineInv, GateWaits \/ Drip \/ Ping \/ Stall \/ Tick
  PROVE  PipelineInv'
<1>1. UNCHANGED <<show, at, fed, pipe, sent, row>>
  BY DEF GateWaits, Drip, Ping, Stall, Tick, Timers
<1>2. Clocks'
  <2>1. 0 \in 0..Idle /\ 0 \in 0..PingEvery
    BY PipelineAssumption
  <2>2. CASE GateWaits
    BY <2>2, InvParts DEF GateWaits, Clocks, Timers
  <2>3. CASE Drip
    BY <2>1, <2>3, InvParts DEF Drip, Clocks
  <2>4. CASE Ping
    BY <2>1, <2>4, InvParts DEF Ping, Clocks
  <2>5. CASE Stall
    BY <2>5, InvParts DEF Stall, Clocks, Timers
  <2>6. CASE Tick
    <3>1. ASSUME NEW n \in Nat, NEW cap \in Nat, n <= cap
          PROVE  UpTo(n, cap) \in 0..cap
      BY <3>1 DEF UpTo
    <3>2. /\ waited \in 0..FirstContent /\ quiet \in 0..Idle /\ silent \in 0..PingEvery
          /\ FirstContent \in Nat /\ Idle \in Nat /\ PingEvery \in Nat
      BY InvParts, PipelineAssumption DEF Clocks
    <3>3. UpTo(quiet, Idle) \in 0..Idle /\ UpTo(silent, PingEvery) \in 0..PingEvery
      BY <3>1, <3>2
    <3> QED BY <2>6, <3>2, <3>3, InvParts DEF Tick, Clocks
  <2> QED BY <2>2, <2>3, <2>4, <2>5, <2>6
<1>3. GateInv'
  BY <1>1, InvParts DEF GateWaits, Drip, Ping, Stall, Tick, GateInv
<1> QED BY <1>1, <1>2, <1>3, RestKeepsInv

\* What has come out of the pipeline goes on its way.
LEMMA Drained ==
  ASSUME NEW h, NEW z, NEW f, NEW p, Piped(h, z, f, p), p.committed,
         NEW y, y = z \o p.out, NEW q, q = [p EXCEPT !.out = <<>>]
  PROVE  Piped(h, y, f, q) /\ q.committed /\ q.out = <<>>
<1>1. /\ z \in Seq(Event) /\ p \in PipeType /\ p.pending \in Seq(Event)
      /\ p.out \in Seq(Event) /\ p.pending = <<>> /\ Len(p.pending) <= PendingCap
  BY DEF Piped, WellMade, PipeType
<1>2. q = [pending |-> p.pending, out |-> <<>>, committed |-> p.committed,
           stopped |-> p.stopped, error |-> p.error, thinking |-> p.thinking]
  <2>1. p = [pending |-> p.pending, out |-> p.out, committed |-> p.committed,
             stopped |-> p.stopped, error |-> p.error, thinking |-> p.thinking]
    BY <1>1, PipeFields
  <2> QED BY <2>1
<1>3. <<>> \in Seq(Event) /\ y \in Seq(Event)
  BY <1>1
<1>4. q \in PipeType
  BY <1>1, <1>2, <1>3 DEF PipeType
<1>5. /\ q.committed /\ q.out = <<>> /\ q.pending = p.pending
      /\ q.thinking = p.thinking /\ q.stopped = p.stopped
  BY <1>2
<1>6. WellMade(y, q)
  BY <1>1, <1>3, <1>4, <1>5 DEF WellMade
<1>7. Flow(y, q) = Flow(z, p)
  <2>1. Flow(z, p) = y
    BY DEF Flow
  <2>2. Flow(y, q) = y \o <<>>
    BY <1>5 DEF Flow
  <2> QED BY <1>3, <2>1, <2>2, ConcatEmpty
<1> QED BY <1>5, <1>6, <1>7 DEF Piped

LEMMA ChunkKeepsInv ==
  ASSUME PipelineInv, GateOpens \/ Forward
  PROVE  PipelineInv'
<1>1. PICK y : y = sent \o pipe.out
  OBVIOUS
<1>2. PICK q : q = [pipe EXCEPT !.out = <<>>]
  OBVIOUS
<1>3. at \in Live /\ pipe.committed /\ at' = "streaming" /\ pipe' = q
      /\ UNCHANGED <<show, fed, row>>
  BY <1>2, InvParts DEF GateOpens, Forward, GateInv, Live
<1>4. sent' = y
  <2>1. CASE GateOpens
    <3>1. sent = <<>> /\ pipe.out \in Seq(Event)
      BY <1>3, <2>1, InvParts DEF GateOpens, GateInv, Piped, WellMade, PipeType
    <3>2. y = pipe.out
      BY <1>1, <3>1, ConcatEmpty
    <3> QED BY <2>1, <3>2 DEF GateOpens
  <2>2. CASE Forward
    BY <1>1, <2>2 DEF Forward
  <2> QED BY <2>1, <2>2
<1>5. Piped(show, y, fed, q) /\ q.committed /\ q.out = <<>>
  BY <1>1, <1>2, <1>3, InvParts, Drained
<1>6. Clocks'
  <2>1. 0 \in 0..FirstContent /\ 0 \in 0..Idle /\ 0 \in 0..PingEvery
    BY PipelineAssumption
  <2> QED BY <2>1, InvParts DEF Clocks, GateOpens, Forward
<1>7. GateInv'
  BY <1>3, <1>5 DEF GateInv
<1>8. at' \in Live
  BY <1>3 DEF Live
<1> QED BY <1>3, <1>4, <1>5, <1>6, <1>7, <1>8, InvParts, GoesOn

\* What belongs to no block may always be added to a stream.
LEMMA PlainAdds ==
  ASSUME NEW h, NEW f, NEW s, s # <<>>, BlocksAreLegal(s), ~h => Discreet(f, s),
         NEW e, e.type \in {"error", "message_delta", "message_stop"}, e.kind = None,
         NEW r, Grown(s, e, r)
  PROVE  BlocksAreLegal(r) /\ (~h => Discreet(f, r)) /\ r # <<>> /\ r \in Seq(Event)
<1>1. BlocksAreLegal(r)
  BY LegalGrows
<1>2. DOMAIN r = DOMAIN s \cup {Len(r)} /\ (\A i \in DOMAIN s : r[i] = s[i]) /\ r[Len(r)] = e
      /\ r # <<>> /\ r \in Seq(Event)
  BY DEF Grown
<1>3. None \notin {"thinking", "signature", "redacted", "unsigned"}
  BY PipelineAssumption
<1>4. Discreet(f, s) => Discreet(f, r)
  BY <1>2, <1>3, Zenon DEF Discreet
<1> QED BY <1>1, <1>2, <1>4

LEMMA PlainEvents ==
  ASSUME NEW x \in {"error", "message_delta", "message_stop"}
  PROVE  Plain(x) \in Event /\ Plain(x).type = x /\ Plain(x).kind = None
BY DEF Plain, Event, Type, Kind

\* An end that leaves the stream as it is.
LEMMA CutsKeepInv ==
  ASSUME PipelineInv, GateFails \/ Depart \/ (at = "gate" /\ Break)
  PROVE  PipelineInv'
<1>1. DropSays \in {"clean", "error"}
  BY DEF DropSays
<1>2. PICK how \in {"failed", "gone"} : End(how, DropSays)
  BY DEF GateFails, Depart, Break
<1>3. UNCHANGED <<pipe, sent>>
  BY DEF GateFails, Depart, Break
<1>4. sent \in Seq(Event) /\ BlocksAreLegal(Stream) /\ (~show => Discreet(fed, Stream))
  BY InvParts
<1>5. Stream = sent \o pipe.out
  BY DEF Stream
<1> QED BY <1>1, <1>2, <1>3, <1>4, <1>5, ComesToEnd

\* Between two chunks of an open stream, all that came out has been sent.
LEMMA AllIsSent ==
  ASSUME PipelineInv, at = "streaming", ~midChunk
  PROVE  /\ pipe.committed /\ pipe.out = <<>> /\ Stream = sent
         /\ Mirrors(fed, sent, pipe.thinking) /\ WellMade(sent, pipe)
         /\ pipe.stopped <=> "message_stop" \in Types(fed)
<1>1. pipe.committed /\ pipe.out = <<>> /\ Piped(show, sent, fed, pipe) /\ sent \in Seq(Event)
  BY InvParts DEF GateInv, Live
<1>2. sent \o pipe.out = sent
  BY <1>1, ConcatEmpty
<1>3. Mirrors(fed, sent, pipe.thinking)
  BY <1>1, <1>2 DEF Piped, Flows, Flow
<1>4. pipe.stopped <=> "message_stop" \in Types(fed)
  BY <1>1 DEF Piped
<1>5. WellMade(sent, pipe)
  BY <1>1 DEF Piped
<1> QED BY <1>1, <1>2, <1>3, <1>4, <1>5 DEF Stream

\* An end that is told to the client.
LEMMA ErrorsKeepInv ==
  ASSUME PipelineInv, at = "streaming", Break \/ IdleTimeout
  PROVE  PipelineInv'
<1>1. /\ ~midChunk /\ UNCHANGED pipe /\ sent' = Append(sent, Plain("error"))
      /\ \E how \in {"broken", "idle"} : End(how, "error")
  BY DEF Break, IdleTimeout
<1>2. PICK e : e = Plain("error")
  OBVIOUS
<1>3. e \in Event /\ e.type = "error" /\ e.kind = None
  BY <1>2, PlainEvents
<1>4. PICK y : y = Append(sent, e)
  OBVIOUS
<1>5. sent \in Seq(Event) /\ Grown(sent, e, y)
  BY <1>3, <1>4, InvParts, AppendGrows
<1>6. pipe.out = <<>> /\ Stream = sent /\ sent # <<>>
  BY <1>1, AllIsSent DEF Mirrors
<1>7. BlocksAreLegal(sent) /\ (~show => Discreet(fed, sent))
  BY <1>6, InvParts
<1>8. BlocksAreLegal(y) /\ (~show => Discreet(fed, y)) /\ y \in Seq(Event)
  BY <1>3, <1>5, <1>6, <1>7, PlainAdds
<1>9. y \o pipe.out = y
  BY <1>6, <1>8, ConcatEmpty
<1>10. sent' = y
  BY <1>1, <1>2, <1>4
<1>11. PICK how \in {"broken", "idle"} : End(how, "error")
  BY <1>1
<1>12. how \in {"done", "idle", "broken", "gone", "empty", "failed"} /\ how # "done"
  BY <1>11
<1> QED BY <1>1, <1>8, <1>9, <1>10, <1>11, <1>12, ComesToEnd

\* message_delta and message_stop.
LEMMA TwoMore ==
  ASSUME NEW s \in Seq(Event), NEW a \in Event, NEW b \in Event
  PROVE  s \o <<a, b>> = Append(Append(s, a), b)
OBVIOUS

\* What an attempt that never had content leaves: what was held back, and an end.
LEMMA EmptyKeepsInv ==
  ASSUME PipelineInv, Empty
  PROVE  PipelineInv'
<1>1. /\ at = "gate" /\ ~midChunk /\ End("empty", "error") /\ UNCHANGED pipe
      /\ sent' = Replay(pipe)
  BY DEF Empty
<1>2. ~pipe.committed /\ Piped(show, sent, fed, pipe)
  BY <1>1, InvParts DEF GateInv, Live
<1>3. pipe.out = <<>> /\ pipe.pending \in Seq(Event)
  BY <1>2 DEF Piped, WellMade, PipeType
<1>4. BlocksAreLegal(pipe.pending) /\ \A i \in DOMAIN pipe.pending : pipe.pending[i].kind = None
  BY <1>2 DEF Piped, Holds
<1>5. PICK y : y = Replay(pipe)
  OBVIOUS
<1>6. BlocksAreLegal(y) /\ (~show => Discreet(fed, y)) /\ y \in Seq(Event)
  <2>1. CASE pipe.pending = <<>>
    <3>1. y = <<>>
      BY <1>5, <2>1 DEF Replay
    <3> QED BY <3>1, EmptyStream DEF Discreet
  <2>2. CASE pipe.pending # <<>>
    <3>1. PICK a : a = Plain("message_delta")
      OBVIOUS
    <3>2. PICK b : b = Plain("message_stop")
      OBVIOUS
    <3>3. a \in Event /\ a.type = "message_delta" /\ a.kind = None
      BY <3>1, PlainEvents
    <3>4. b \in Event /\ b.type = "message_stop" /\ b.kind = None
      BY <3>2, PlainEvents
    <3>5. PICK m : m = Append(pipe.pending, a)
      OBVIOUS
    <3>6. y = Append(m, b)
      BY <1>3, <1>5, <2>2, <3>1, <3>2, <3>3, <3>4, <3>5, TwoMore DEF Replay
    <3>7. None \notin {"thinking", "signature", "redacted", "unsigned"}
      BY PipelineAssumption
    <3>8. Discreet(fed, pipe.pending)
      BY <1>4, <3>7 DEF Discreet
    <3>9. BlocksAreLegal(m) /\ (~show => Discreet(fed, m)) /\ m # <<>> /\ m \in Seq(Event)
      <4>1. Grown(pipe.pending, a, m)
        BY <1>3, <3>3, <3>5, AppendGrows
      <4> QED BY <1>4, <2>2, <3>3, <3>8, <4>1, PlainAdds
    <3>10. BlocksAreLegal(y) /\ (~show => Discreet(fed, y)) /\ y \in Seq(Event)
      <4>1. Grown(m, b, y)
        BY <3>4, <3>6, <3>9, AppendGrows
      <4>2. BlocksAreLegal(m) /\ m # <<>> /\ (~show => Discreet(fed, m))
        BY <3>9
      <4>3. b.type \in {"error", "message_delta", "message_stop"} /\ b.kind = None
        BY <3>4
      <4> QED BY <4>1, <4>2, <4>3, PlainAdds
    <3> QED BY <3>10
  <2> QED BY <2>1, <2>2
<1>7. y \o pipe.out = y
  BY <1>3, <1>6, ConcatEmpty
<1> QED BY <1>1, <1>5, <1>6, <1>7, ComesToEnd

\* finalize() of a stream all of which has been sent.
LEMMA FinalOut ==
  ASSUME NEW p \in PipeType, p.committed, p.out = <<>>
  PROVE  /\ p.stopped => Finalized(p).out = <<>>
         /\ ~p.stopped => Finalized(p).out = <<Plain("message_delta"), Plain("message_stop")>>
<1>1. p = [pending |-> p.pending, out |-> p.out, committed |-> p.committed,
           stopped |-> p.stopped, error |-> p.error, thinking |-> p.thinking]
  BY PipeFields
<1>2. p.stopped => Finalized(p).out = <<>>
  BY DEF Finalized
<1>3. ASSUME ~p.stopped
      PROVE  Finalized(p).out = <<Plain("message_delta"), Plain("message_stop")>>
  <2>1. PICK a : a = Plain("message_delta")
    OBVIOUS
  <2>2. PICK b : b = Plain("message_stop")
    OBVIOUS
  <2>3. PICK m : m = Emit(p, a)
    OBVIOUS
  <2>4. m.committed /\ m.out = Append(p.out, a)
    BY <1>1, <2>3 DEF Emit
  <2>5. m = [pending |-> p.pending, out |-> m.out, committed |-> p.committed,
             stopped |-> p.stopped, error |-> p.error, thinking |-> p.thinking]
    BY <1>1, <2>3 DEF Emit
  <2>6. Emit(m, b).out = Append(m.out, b)
    BY <2>4, <2>5 DEF Emit
  <2>7. Finalized(p).out = Append(Append(<<>>, a), b)
    BY <1>3, <2>1, <2>2, <2>3, <2>4, <2>6 DEF Finalized
  <2>8. Append(Append(<<>>, a), b) = <<a, b>>
    <3>1. a \in Event /\ b \in Event
      BY <2>1, <2>2, PlainEvents
    <3>2. <<>> \in Seq(Event) /\ <<a, b>> \in Seq(Event)
      BY <3>1
    <3>3. <<>> \o <<a, b>> = Append(Append(<<>>, a), b)
      BY <3>1, <3>2, TwoMore
    <3>4. <<>> \o <<a, b>> = <<a, b>>
      BY <3>2, ConcatEmpty
    <3> QED BY <3>3, <3>4
  <2> QED BY <2>1, <2>2, <2>7, <2>8
<1> QED BY <1>2, <1>3

\* One that is whole when it came is whole when it leaves.
LEMMA WholeLeaves ==
  ASSUME NEW f, NEW s, NEW t, Lawful(f), Mirrors(f, s, t), Whole(f)
  PROVE  Whole(s)
<1>1. /\ BlocksAreLegal(s) /\ Started(s) \subseteq Started(f) /\ Stopped(s) = Stopped(f)
      /\ Count(s, "message_delta") = Count(f, "message_delta")
      /\ Count(s, "message_stop") = Count(f, "message_stop")
      /\ "error" \in Types(s) => "error" \in Types(f)
  BY DEF Mirrors
<1>2. Open(s) = {}
  BY <1>1 DEF Whole, Open
<1> QED BY <1>1, <1>2 DEF Whole

LEMMA CloseKeepsInv ==
  ASSUME PipelineInv, Close
  PROVE  PipelineInv'
<1>1. /\ at = "streaming" /\ ~midChunk /\ End("done", "clean") /\ UNCHANGED pipe
      /\ sent' = sent \o Finalized(pipe).out
  BY DEF Close
<1>2. /\ pipe.committed /\ pipe.out = <<>> /\ Stream = sent
      /\ Mirrors(fed, sent, pipe.thinking) /\ pipe \in PipeType
      /\ pipe.stopped <=> "message_stop" \in Types(fed)
  BY <1>1, AllIsSent DEF WellMade
<1>3. /\ Lawful(fed) /\ sent \in Seq(Event) /\ sent # <<>>
      /\ BlocksAreLegal(sent) /\ (~show => Discreet(fed, sent))
  BY <1>2, InvParts DEF Mirrors
<1>4. /\ Count(fed, "message_stop") = IF "message_stop" \in Types(fed) THEN 1 ELSE 0
      /\ Count(sent, "message_stop") = Count(fed, "message_stop")
  BY <1>2, <1>3 DEF Lawful, Mirrors
<1>5. PICK y : y = sent \o Finalized(pipe).out
  OBVIOUS
<1>6. BlocksAreLegal(y) /\ (~show => Discreet(fed, y)) /\ y \in Seq(Event) /\ EndsOnce(fed, y)
  <2>1. CASE pipe.stopped
    <3>1. y = sent
      BY <1>2, <1>3, <1>5, <2>1, FinalOut, ConcatEmpty
    <3>2. EndsOnce(fed, sent)
      BY <1>2, <1>3, <1>4, <2>1, WholeLeaves DEF EndsOnce
    <3> QED BY <1>3, <3>1, <3>2
  <2>2. CASE ~pipe.stopped
    <3>1. PICK a : a = Plain("message_delta")
      OBVIOUS
    <3>2. PICK b : b = Plain("message_stop")
      OBVIOUS
    <3>3. /\ a \in Event /\ a.type = "message_delta" /\ a.kind = None
          /\ b \in Event /\ b.type = "message_stop" /\ b.kind = None
      BY <3>1, <3>2, PlainEvents
    <3>4. PICK m : m = Append(sent, a)
      OBVIOUS
    <3>5. y = Append(m, b)
      <4>1. Finalized(pipe).out = <<a, b>>
        BY <1>2, <2>2, <3>1, <3>2, FinalOut
      <4> QED BY <1>3, <1>5, <3>3, <3>4, <4>1, TwoMore
    <3>6. Grown(sent, a, m)
      BY <1>3, <3>3, <3>4, AppendGrows
    <3>7. BlocksAreLegal(m) /\ (~show => Discreet(fed, m)) /\ m # <<>>
      BY <1>3, <3>3, <3>6, PlainAdds
    <3>8. Grown(m, b, y)
      BY <3>3, <3>5, <3>6, AppendGrows DEF Grown
    <3>9. BlocksAreLegal(y) /\ (~show => Discreet(fed, y)) /\ y \in Seq(Event)
      BY <3>3, <3>7, <3>8, PlainAdds
    <3>10. Count(y, "message_stop") = 1
      <4>1. Count(m, "message_stop") = Count(sent, "message_stop")
        BY <3>3, <3>6, AppendCounts
      <4>2. Count(y, "message_stop") = Count(m, "message_stop") + 1
        BY <3>3, <3>8, AppendCounts
      <4> QED BY <1>2, <1>4, <2>2, <4>1, <4>2
    <3>11. ~Whole(fed)
      BY <1>2, <1>4, <2>2 DEF Whole
    <3> QED BY <3>9, <3>10, <3>11 DEF EndsOnce
  <2> QED BY <2>1, <2>2
<1>7. y \o pipe.out = y
  BY <1>2, <1>6, ConcatEmpty
<1> QED BY <1>1, <1>5, <1>6, <1>7, ComesToEnd

(***************************************************************************)
(* What the client sees: f is the part of s that is seen up to each place. *)
(***************************************************************************)
IsSeen(f, s, hidden) ==
  f = [n \in 0..Len(s) |->
         IF n = 0 THEN <<>>
         ELSE IF Visible(hidden, s[n]) THEN Append(f[n - 1], s[n]) ELSE f[n - 1]]

\* What is true of 0 and passes on is true of the numbers up to n.
LEMMA UpToHolds ==
  ASSUME NEW n \in Nat, NEW X, 0 \in X,
         \A m \in 1..n : m - 1 \in X => m \in X
  PROVE  0..n \subseteq X
<1> SUFFICES ASSUME (0..n) \ X # {}
             PROVE  FALSE
  OBVIOUS
<1>1. PICK Y : Y = (0..n) \ X
  OBVIOUS
<1>2. Y \subseteq Nat /\ Y # {}
  BY <1>1
<1>3. PICK x \in Y : \A y \in Y : ~(<<y, x>> \in OpToRel(<, Nat))
  BY <1>2, NatLessThanWellFounded, WFMin, Zenon
<1>4. x \in 1..n /\ x \notin X
  BY <1>1
<1>5. x - 1 \in Nat /\ x \in Nat /\ x - 1 < x /\ x - 1 \in 0..n
  BY <1>4
<1>6. <<x - 1, x>> \in OpToRel(<, Nat)
  BY <1>5 DEF OpToRel
<1>7. x - 1 \in X
  BY <1>1, <1>3, <1>5, <1>6
<1> QED BY <1>4, <1>7

LEMMA SeenSteps ==
  ASSUME NEW f, NEW s \in Seq(Event), NEW hidden, IsSeen(f, s, hidden)
  PROVE  /\ f[0] = <<>> /\ DOMAIN f = 0..Len(s)
         /\ \A n \in 1..Len(s) :
              f[n] = IF Visible(hidden, s[n]) THEN Append(f[n - 1], s[n]) ELSE f[n - 1]
<1>1. DOMAIN f = 0..Len(s)
  BY DEF IsSeen
<1>2. \A n \in 0..Len(s) :
        f[n] = IF n = 0 THEN <<>>
               ELSE IF Visible(hidden, s[n]) THEN Append(f[n - 1], s[n]) ELSE f[n - 1]
  BY Zenon DEF IsSeen
<1>3. Len(s) \in Nat /\ 0 \in 0..Len(s)
  OBVIOUS
<1>4. ASSUME NEW n \in 1..Len(s)
      PROVE  f[n] = IF Visible(hidden, s[n]) THEN Append(f[n - 1], s[n]) ELSE f[n - 1]
  <2>1. n \in 0..Len(s) /\ n # 0
    BY <1>3
  <2> QED BY <1>2, <2>1, Zenon
<1>5. f[0] = <<>>
  BY <1>2, <1>3, Zenon
<1> QED BY <1>1, <1>4, <1>5

\* Two streams of which as much is seen for as long as they are the same.
LEMMA SeenAgree ==
  ASSUME NEW s \in Seq(Event), NEW t \in Seq(Event), NEW V, NEW W, Len(s) <= Len(t),
         \A n \in 1..Len(s) : t[n] = s[n] /\ (Visible(V, s[n]) <=> Visible(W, s[n])),
         NEW f, IsSeen(f, s, V), NEW g, IsSeen(g, t, W)
  PROVE  \A n \in 0..Len(s) : f[n] = g[n]
<1>1. PICK X : X = {n \in 0..Len(s) : f[n] = g[n]}
  OBVIOUS
<1>2. Len(s) \in Nat /\ Len(t) \in Nat /\ 1..Len(s) \subseteq 1..Len(t)
  OBVIOUS
<1>3. f[0] = <<>> /\ g[0] = <<>>
  BY SeenSteps
<1>4. 0 \in X
  BY <1>1, <1>2, <1>3
<1>5. ASSUME NEW n \in 1..Len(s), n - 1 \in X
      PROVE  n \in X
  <2>1. f[n - 1] = g[n - 1] /\ n \in 0..Len(s) /\ n \in 1..Len(t)
    BY <1>1, <1>2, <1>5
  <2>2. f[n] = IF Visible(V, s[n]) THEN Append(f[n - 1], s[n]) ELSE f[n - 1]
    BY SeenSteps
  <2>3. g[n] = IF Visible(W, t[n]) THEN Append(g[n - 1], t[n]) ELSE g[n - 1]
    BY <2>1, SeenSteps
  <2>4. f[n] = g[n]
    BY <2>1, <2>2, <2>3
  <2> QED BY <1>1, <2>1, <2>4
<1>6. 0..Len(s) \subseteq X
  BY <1>2, <1>4, <1>5, UpToHolds
<1> QED BY <1>1, <1>6

LEMMA SeenGrows ==
  ASSUME NEW s, NEW e, NEW t, Grown(s, e, t), NEW hidden, NEW f, IsSeen(f, s, hidden)
  PROVE  \E g : IsSeen(g, t, hidden)
<1>1. /\ s \in Seq(Event) /\ t \in Seq(Event) /\ Len(s) \in Nat /\ Len(t) = Len(s) + 1
      /\ \A n \in 1..Len(s) : t[n] = s[n]
  BY DEF Grown
<1>2. PICK m : m = Len(s) + 1
  OBVIOUS
<1>3. PICK last : last = IF Visible(hidden, t[m]) THEN Append(f[m - 1], t[m]) ELSE f[m - 1]
  OBVIOUS
<1>4. PICK g : g = [n \in 0..m |-> IF n = m THEN last ELSE f[n]]
  OBVIOUS
<1>5. PICK k : k = [n \in 0..m |->
        IF n = 0 THEN <<>>
        ELSE IF Visible(hidden, t[n]) THEN Append(g[n - 1], t[n]) ELSE g[n - 1]]
  OBVIOUS
<1>6. ASSUME NEW n \in 0..m
      PROVE  g[n] = k[n]
  <2>1. CASE n = 0
    <3>1. g[n] = f[0] /\ k[n] = <<>>
      BY <1>1, <1>2, <1>4, <1>5, <2>1
    <3> QED BY <1>1, <3>1, SeenSteps
  <2>2. CASE n \in 1..Len(s)
    <3>1. n # m /\ n - 1 \in 0..m /\ n - 1 # m /\ n # 0 /\ t[n] = s[n]
      BY <1>1, <1>2, <2>2
    <3>2. g[n] = f[n] /\ g[n - 1] = f[n - 1]
      BY <1>4, <3>1
    <3>3. f[n] = IF Visible(hidden, s[n]) THEN Append(f[n - 1], s[n]) ELSE f[n - 1]
      BY <1>1, <2>2, SeenSteps
    <3>4. k[n] = IF Visible(hidden, t[n]) THEN Append(g[n - 1], t[n]) ELSE g[n - 1]
      BY <1>5, <3>1
    <3> QED BY <3>1, <3>2, <3>3, <3>4
  <2>3. CASE n = m
    <3>1. n # 0 /\ m - 1 \in 0..m /\ m - 1 # m
      BY <1>1, <1>2, <2>3
    <3>2. g[m - 1] = f[m - 1] /\ g[m] = last
      BY <1>4, <2>3, <3>1
    <3>3. k[m] = IF Visible(hidden, t[m]) THEN Append(g[m - 1], t[m]) ELSE g[m - 1]
      BY <1>5, <2>3, <3>1
    <3> QED BY <1>3, <2>3, <3>2, <3>3
  <2> QED BY <1>1, <1>2, <2>1, <2>2, <2>3
<1>7. g = k
  BY <1>4, <1>5, <1>6
<1>8. Len(t) = m
  BY <1>1, <1>2
<1>9. IsSeen(g, t, hidden)
  BY <1>5, <1>7, <1>8 DEF IsSeen
<1> QED BY <1>9

LEMMA SeenExists ==
  ASSUME NEW s \in Seq(Event), NEW hidden
  PROVE  \E f : IsSeen(f, s, hidden)
<1>1. PICK X : X = {n \in 0..Len(s) : \E f : IsSeen(f, SubSeq(s, 1, n), hidden)}
  OBVIOUS
<1>2. Len(s) \in Nat /\ \A n \in 1..Len(s) : s[n] \in Event
  OBVIOUS
<1>3. 0 \in X
  <2>1. PICK f : f = [n \in 0..0 |-> <<>>]
    OBVIOUS
  <2>2. SubSeq(s, 1, 0) = <<>> /\ Len(<<>>) = 0
    OBVIOUS
  <2>3. f = [n \in 0..0 |->
              IF n = 0 THEN <<>>
              ELSE IF Visible(hidden, <<>>[n]) THEN Append(f[n - 1], <<>>[n]) ELSE f[n - 1]]
    BY <2>1
  <2>4. IsSeen(f, <<>>, hidden)
    BY <2>2, <2>3 DEF IsSeen
  <2>5. \E g : IsSeen(g, SubSeq(s, 1, 0), hidden)
    BY <2>2, <2>4, Zenon
  <2> QED BY <1>1, <1>2, <2>5
<1>4. ASSUME NEW n \in 1..Len(s), n - 1 \in X
      PROVE  n \in X
  <2>1. PICK f : IsSeen(f, SubSeq(s, 1, n - 1), hidden)
    BY <1>1, <1>4
  <2>2. PICK a : a = SubSeq(s, 1, n - 1)
    OBVIOUS
  <2>3. PICK b : b = SubSeq(s, 1, n)
    OBVIOUS
  <2>4. a \in Seq(Event) /\ b = Append(a, s[n]) /\ s[n] \in Event
    BY <1>2, <2>2, <2>3
  <2>5. Grown(a, s[n], b)
    BY <2>4, AppendGrows
  <2>6. \E g : IsSeen(g, b, hidden)
    BY <2>1, <2>2, <2>5, SeenGrows
  <2> QED BY <1>1, <1>2, <2>3, <2>6
<1>5. Len(s) \in X
  <2>1. 0..Len(s) \subseteq X
    BY <1>2, <1>3, <1>4, UpToHolds
  <2> QED BY <1>2, <2>1
<1>6. SubSeq(s, 1, Len(s)) = s
  OBVIOUS
<1> QED BY <1>1, <1>5, <1>6

LEMMA SeenIs ==
  ASSUME NEW s \in Seq(Event), NEW hidden
  PROVE  \E f : IsSeen(f, s, hidden) /\ Seen(s, hidden) = f[Len(s)]
<1>1. PICK f : f = CHOOSE g : IsSeen(g, s, hidden)
  OBVIOUS
<1>2. IsSeen(f, s, hidden)
  BY <1>1, SeenExists
<1>3. Seen(s, hidden) = f[Len(s)]
  BY <1>1 DEF Seen, IsSeen
<1> QED BY <1>2, <1>3

LEMMA SeenSame ==
  ASSUME NEW s \in Seq(Event), NEW V, NEW W,
         \A n \in DOMAIN s : Visible(V, s[n]) <=> Visible(W, s[n])
  PROVE  Seen(s, V) = Seen(s, W)
<1>1. PICK f : IsSeen(f, s, V) /\ Seen(s, V) = f[Len(s)]
  BY SeenIs
<1>2. PICK g : IsSeen(g, s, W) /\ Seen(s, W) = g[Len(s)]
  BY SeenIs
<1>3. \A n \in 0..Len(s) : f[n] = g[n]
  BY <1>1, <1>2, SeenAgree
<1>4. Len(s) \in 0..Len(s)
  OBVIOUS
<1> QED BY <1>1, <1>2, <1>3, <1>4

LEMMA SeenAdds ==
  ASSUME NEW s, NEW e, NEW t, Grown(s, e, t), NEW hidden
  PROVE  Seen(t, hidden) =
           IF Visible(hidden, e) THEN Append(Seen(s, hidden), e) ELSE Seen(s, hidden)
<1>1. /\ s \in Seq(Event) /\ t \in Seq(Event) /\ Len(s) \in Nat /\ Len(t) = Len(s) + 1
      /\ (\A n \in 1..Len(s) : t[n] = s[n]) /\ t[Len(t)] = e
  BY DEF Grown
<1>2. PICK f : IsSeen(f, s, hidden) /\ Seen(s, hidden) = f[Len(s)]
  BY <1>1, SeenIs
<1>3. PICK g : IsSeen(g, t, hidden) /\ Seen(t, hidden) = g[Len(t)]
  BY <1>1, SeenIs
<1>4. f[Len(s)] = g[Len(s)]
  <2>1. \A n \in 0..Len(s) : f[n] = g[n]
    <3>1. Len(s) <= Len(t) /\ \A n \in 1..Len(s) :
            t[n] = s[n] /\ (Visible(hidden, s[n]) <=> Visible(hidden, s[n]))
      BY <1>1
    <3> QED BY <1>1, <1>2, <1>3, <3>1, SeenAgree
  <2>2. Len(s) \in 0..Len(s)
    BY <1>1
  <2> QED BY <2>1, <2>2
<1>5. g[Len(t)] = IF Visible(hidden, t[Len(t)]) THEN Append(g[Len(t) - 1], t[Len(t)])
                  ELSE g[Len(t) - 1]
  <2>1. Len(t) \in 1..Len(t)
    BY <1>1
  <2> QED BY <1>1, <1>3, <2>1, SeenSteps
<1>6. Len(t) - 1 = Len(s)
  BY <1>1
<1> QED BY <1>1, <1>2, <1>3, <1>4, <1>5, <1>6

(***************************************************************************)
(* The theorems.                                                           *)
(***************************************************************************)
LEMMA InitInv == Init => PipelineInv
<1> SUFFICES ASSUME Init
             PROVE  PipelineInv
  OBVIOUS
<1>1. /\ at = "gate" /\ ~midChunk /\ fed = <<>> /\ sent = <<>> /\ show \in BOOLEAN
      /\ pipe = [pending |-> <<>>, out |-> <<>>, committed |-> FALSE, stopped |-> FALSE,
                 error |-> FALSE, thinking |-> NoThinking]
  BY DEF Init, NewPipe
<1>2. /\ pipe.pending = <<>> /\ pipe.out = <<>> /\ ~pipe.committed /\ ~pipe.stopped
      /\ pipe.thinking = NoThinking
  BY <1>1
<1>3. NoThinking \in Thought /\ NoThinking.block = None /\ NoThinking.size <= ThinkingCap
  BY PipelineAssumption DEF NoThinking, Thought
<1>4. <<>> \in Seq(Event) /\ Len(<<>>) = 0
  OBVIOUS
<1>5. pipe \in PipeType
  BY <1>1, <1>3, <1>4 DEF PipeType
<1>6. WellMade(sent, pipe)
  BY <1>1, <1>2, <1>4, <1>5, PipelineAssumption DEF WellMade
<1>7. Lawful(fed)
  BY <1>1, EmptyStream DEF Lawful
<1>8. Piped(show, sent, fed, pipe)
  <2>1. Thinks(show, fed, pipe.thinking)
    BY <1>2, <1>3 DEF Thinks
  <2>2. Holds(fed, pipe.pending, pipe.thinking)
    BY <1>1, <1>2, <1>3, EmptyStream DEF Holds, Withheld
  <2>3. "message_stop" \notin Types(fed)
    BY <1>1, EmptyStream
  <2> QED BY <1>2, <1>3, <1>6, <2>1, <2>2, <2>3 DEF Piped
<1>9. BlocksAreLegal(Stream) /\ (~show => Discreet(fed, Stream))
  BY <1>8, LiveStream DEF Stream
<1>10. TypeOK
  <2>1. Clocks
    <3>1. /\ midChunk = FALSE /\ stalled = FALSE /\ waited = 0 /\ quiet = 0 /\ silent = 0
      BY DEF Init
    <3>2. 0 \in 0..FirstContent /\ 0 \in 0..Idle /\ 0 \in 0..PingEvery
      BY PipelineAssumption
    <3> QED BY <3>1, <3>2 DEF Clocks
  <2>2. row = "none" /\ at \in Live
    BY DEF Init, Live
  <2>3. Len(fed) <= MaxEvents /\ Len(pipe.pending) <= PendingCap
    BY <1>1, <1>2, <1>4, PipelineAssumption
  <2> QED BY <1>1, <1>2, <1>3, <1>4, <1>5, <2>1, <2>2, <2>3, TypeParts DEF PartsOK
<1>11. GateInv /\ StreamsEndOnce
  BY <1>1, <1>2 DEF GateInv, StreamsEndOnce
<1> QED BY <1>7, <1>8, <1>9, <1>10, <1>11 DEF PipelineInv, BlocksStayLegal

LEMMA NextKeepsInv == PipelineInv /\ [Next]_vars => PipelineInv'
<1> SUFFICES ASSUME PipelineInv, [Next]_vars
             PROVE  PipelineInv'
  OBVIOUS
<1>1. CASE \E e \in Input : Feed(e)
  BY <1>1, FeedKeepsInv
<1>2. CASE GateWaits \/ Drip \/ Ping \/ Stall \/ Tick
  BY <1>2, WaitsKeepInv
<1>3. CASE GateOpens \/ Forward
  BY <1>3, ChunkKeepsInv
<1>4. CASE GateFails \/ Depart
  BY <1>4, CutsKeepInv
<1>5. CASE Break
  <2>1. at = "gate" \/ at = "streaming"
    BY <1>5 DEF Break, Live
  <2> QED BY <1>5, <2>1, CutsKeepInv, ErrorsKeepInv
<1>6. CASE IdleTimeout
  <2>1. at = "streaming"
    BY <1>6 DEF IdleTimeout
  <2> QED BY <1>6, <2>1, ErrorsKeepInv
<1>7. CASE Empty
  BY <1>7, EmptyKeepsInv
<1>8. CASE Close
  BY <1>8, CloseKeepsInv
<1>9. CASE UNCHANGED vars
  <2>1. /\ UNCHANGED <<show, at, fed, pipe, sent, row>>
        /\ UNCHANGED <<midChunk, waited, quiet, silent, stalled>>
    BY <1>9 DEF vars
  <2>2. Clocks' /\ GateInv'
    BY <2>1, InvParts DEF Clocks, GateInv
  <2> QED BY <2>1, <2>2, RestKeepsInv
<1> QED BY <1>1, <1>2, <1>3, <1>4, <1>5, <1>6, <1>7, <1>8, <1>9 DEF Next, Leave

\* What has come, what is held back, withheld and sent agree with each other, in every
\* state of the attempt.
THEOREM PipelineIsKept == Spec => []PipelineInv
<1> QED BY InitInv, NextKeepsInv, PTL DEF Spec

\* mod.rs:6 and :13: whatever is withheld, redacted, given up on or cut off, the client
\* can accumulate the blocks it is sent; a stream that was opened and closed ends once,
\* and is whole if it came whole.
THEOREM ClientGetsLegalStream == Spec => []ClientStreamIsLegal
<1>1. PipelineInv => ClientStreamIsLegal
  BY DEF PipelineInv, ClientStreamIsLegal
<1> QED BY <1>1, PipelineIsKept, PTL

\* mod.rs:10: thinking that is not to be shown is redacted, and the word that is sent for
\* it says truly whether it was signed; the one block that is shown outgrew the cap.
THEOREM ThinkingIsWithheld == Spec => []ThinkingStaysHidden
<1>1. PipelineInv => ThinkingStaysHidden
  BY DEF PipelineInv, ThinkingStaysHidden, Discreet, Signed
<1> QED BY <1>1, PipelineIsKept, PTL

(***************************************************************************)
(* What the client sees is what came.                                      *)
(***************************************************************************)
\* The events of the blocks of s belong to the blocks that came.
Begun(f, s) ==
  \A i \in DOMAIN s : s[i].type \in {"start", "delta", "stop"} => s[i].block \in Started(f)

\* As much is seen of s, which is sent or held back, as of the events that came.
Faithful(h, f, s) == Seen(s, Hidden(h, f)) = Seen(f, Hidden(h, f))

ContentInv ==
  /\ Begun(fed, fed)
  /\ at \in Live => Faithful(show, fed, Flow(sent, pipe))
  /\ at \notin Live => (pipe.committed => Faithful(show, fed, Stream))

LEMMA BegunGrows ==
  ASSUME NEW f, Begun(f, f), NEW e \in Input, MayFollow(f, e), NEW g, Grown(f, e, g)
  PROVE  Begun(g, g)
<1>1. DOMAIN g = DOMAIN f \cup {Len(g)} /\ (\A i \in DOMAIN f : g[i] = f[i]) /\ g[Len(g)] = e
  BY DEF Grown
<1>2. Started(g) = Started(f) \cup (IF e.type = "start" THEN {e.block} ELSE {})
  BY AppendShows
<1>3. e.type \in {"delta", "stop"} => e.block \in Started(f)
  BY WhatFollows DEF Open
<1> QED BY <1>1, <1>2, <1>3 DEF Begun

LEMMA LegalIsBegun ==
  ASSUME NEW f, NEW s \in Seq(Event), BlocksAreLegal(s), Started(s) \subseteq Started(f)
  PROVE  Begun(f, s)
<1> SUFFICES ASSUME NEW i \in DOMAIN s, s[i].type \in {"start", "delta", "stop"}
             PROVE  s[i].block \in Started(s)
  BY DEF Begun
<1>1. CASE s[i].type = "start"
  BY <1>1, Members
<1>2. CASE s[i].type \in {"delta", "stop"}
  <2>1. PICK a : a = SubSeq(s, 1, i - 1)
    OBVIOUS
  <2>2. s[i].block \in Started(a)
    BY <1>2, <2>1 DEF BlocksAreLegal, Open
  <2>3. PICK j \in DOMAIN a : a[j].type = "start" /\ a[j].block = s[i].block
    BY <2>2, Members
  <2>4. j \in DOMAIN s /\ s[j] = a[j]
    BY <2>1
  <2> QED BY <2>3, <2>4, Members
<1> QED BY <1>1, <1>2

\* What flows is of the blocks that came.
LEMMA FlowIsBegun ==
  ASSUME NEW h, NEW z, NEW f, NEW p, Piped(h, z, f, p)
  PROVE  Flow(z, p) \in Seq(Event) /\ Begun(f, Flow(z, p))
<1>1. Flow(z, p) \in Seq(Event)
  BY DEF Piped, WellMade, PipeType, Flow
<1>2. CASE p.committed
  <2>1. BlocksAreLegal(Flow(z, p)) /\ Started(Flow(z, p)) \subseteq Started(f)
    BY <1>2 DEF Piped, Flows, Mirrors
  <2> QED BY <1>1, <2>1, LegalIsBegun
<1>3. CASE ~p.committed
  <2>1. BlocksAreLegal(p.pending) /\ Started(p.pending) = {} /\ Flow(z, p) = p.pending
    BY <1>3 DEF Piped, Holds, Flow
  <2> QED BY <1>1, <2>1, LegalIsBegun
<1> QED BY <1>2, <1>3

\* What was seen of the blocks that came does not depend on what comes.
LEMMA SeenStays ==
  ASSUME NEW h, NEW f, Lawful(f), NEW e \in Input, MayFollow(f, e), NEW g, Grown(f, e, g),
         NEW s \in Seq(Event), Begun(f, s)
  PROVE  Seen(s, Hidden(h, g)) = Seen(s, Hidden(h, f))
<1>1. e.type = "start" => e.block \notin Started(f)
  BY WhatFollows
<1>2. \A b \in Started(f) : KindOf(g, b) = KindOf(f, b)
  BY <1>1, KindsAreKept DEF Lawful
<1>3. Started(f) \subseteq Started(g)
  BY AppendShows
<1>4. \A b \in Started(f) : b \in Hidden(h, g) <=> b \in Hidden(h, f)
  BY <1>2, <1>3 DEF Hidden
<1>5. \A i \in DOMAIN s : Visible(Hidden(h, g), s[i]) <=> Visible(Hidden(h, f), s[i])
  BY <1>4 DEF Visible, Begun
<1> QED BY <1>5, SeenSame

\* handle_block(): an event flows on; or it is lost, or kept back, and is not to be seen;
\* or it releases the block that was withheld, which is not to be seen either.
Released(s, e, r, hidden) ==
  \E m, x : /\ Grown(s, x, m) /\ Grown(m, e, r)
            /\ ~Visible(hidden, x) /\ ~Visible(hidden, e)
Carries(s, e, r, hidden) ==
  Grown(s, e, r) \/ (r = s /\ ~Visible(hidden, e)) \/ Released(s, e, r, hidden)

LEMMA EmitReleases ==
  ASSUME NEW z, NEW p, WellMade(z, p), NEW k, k = [p EXCEPT !.thinking = NoThinking],
         NEW x \in Event, NEW e \in Event,
         NEW n, n = Emit(MarkContent(k), x), NEW q, q = Emit(n, e),
         NEW hidden, ~Visible(hidden, x), ~Visible(hidden, e)
  PROVE  Carries(Flow(z, p), e, Flow(z, q), hidden)
<1>1. NoThinking \in Thought
  BY DEF NoThinking, Thought
<1>2. WellMade(z, k) /\ Flow(z, k) = Flow(z, p)
  BY <1>1, ThoughtSet
<1>3. PICK o : o = MarkContent(k)
  OBVIOUS
<1>4. WellMade(z, o) /\ o.committed /\ Flow(z, o) = Flow(z, p)
  BY <1>2, <1>3, Marked
<1>5. WellMade(z, n) /\ n.committed /\ Grown(Flow(z, o), x, Flow(z, n))
  BY <1>3, <1>4, EmitFlows
<1>6. Grown(Flow(z, n), e, Flow(z, q))
  BY <1>5, EmitFlows
<1> QED BY <1>4, <1>5, <1>6 DEF Carries, Released

\* An event of no block may be held back, or lost, but the first.
LEMMA PlainCarries ==
  ASSUME NEW z, NEW p, WellMade(z, p), NEW e \in Event,
         e.type \notin {"start", "delta", "stop"},
         e.type = "message_start" => Flow(z, p) = <<>>,
         NEW q, q = Emit(p, e), NEW hidden
  PROVE  Carries(Flow(z, p), e, Flow(z, q), hidden)
<1>1. CASE p.committed
  BY <1>1, EmitFlows DEF Carries
<1>2. CASE ~p.committed
  <2>1. /\ ~q.committed
        /\ \/ Grown(p.pending, e, q.pending)
           \/ q.pending = p.pending /\ p.pending # <<>>
    BY <1>2, EmitHeld
  <2>2. Flow(z, p) = p.pending /\ Flow(z, q) = q.pending
    BY <1>2, <2>1 DEF Flow
  <2>3. ~Visible(hidden, e) \/ p.pending = <<>>
    BY <2>2 DEF Visible
  <2> QED BY <2>1, <2>2, <2>3 DEF Carries
<1> QED BY <1>1, <1>2

LEMMA HandledCarries ==
  ASSUME NEW z, NEW f, NEW p, Lawful(f), Piped(show, z, f, p), show \in BOOLEAN,
         NEW e \in Input, MayFollow(f, e), NEW g, Grown(f, e, g),
         NEW q, q = Handled(p, e)
  PROVE  Carries(Flow(z, p), e, Flow(z, q), Hidden(show, g))
<1>1. /\ e \in Event
      /\ e.type = "start" => e.block \notin Started(f)
      /\ e.type \in {"delta", "stop"} => e.block \in Block /\ e.block \in Open(f)
      /\ e.type = "message_start" => f = <<>>
  BY WhatFollows
<1>2. WellMade(z, p) /\ p \in PipeType /\ p.committed \in BOOLEAN
  BY DEF Piped, WellMade, PipeType
<1>3. PICK o : o = MarkContent(p)
  OBVIOUS
<1>4. WellMade(z, o) /\ o.committed /\ Flow(z, o) = Flow(z, p)
  BY <1>2, <1>3, Marked
<1>5. /\ Started(g) = Started(f) \cup (IF e.type = "start" THEN {e.block} ELSE {})
      /\ \A b \in Started(f) : KindOf(g, b) = KindOf(f, b)
      /\ e.type = "start" => KindOf(g, e.block) = e.kind
  BY <1>1, AppendShows, KindsAreKept DEF Lawful
<1>6. ASSUME e.type \in {"delta", "stop"}, p.thinking.block = e.block,
             NEW x, x.type = "start", x.block = e.block
      PROVE  ~Visible(Hidden(show, g), e) /\ ~Visible(Hidden(show, g), x)
  <2>1. p.thinking.block # None
    BY <1>1, <1>6, PipelineAssumption
  <2>2. ~show /\ e.block \in Started(f) /\ KindOf(f, e.block) = "thinking"
    BY <1>6, <2>1 DEF Piped, Thinks, Open
  <2>3. e.block \in Hidden(show, g)
    BY <1>5, <2>2 DEF Hidden
  <2> QED BY <1>6, <2>3 DEF Visible
<1>7. CASE e.type = "start"
  <2>1. q = OnStart(p, e)
    BY <1>7 DEF Handled
  <2>2. CASE e.kind = "thinking" /\ ~show
    <3>1. PICK t : t = [NoThinking EXCEPT !.block = e.block]
      OBVIOUS
    <3>2. t \in Thought
      BY <1>1, <3>1 DEF Thought, NoThinking, Event
    <3>3. q = [p EXCEPT !.thinking = t]
      BY <2>1, <2>2, <3>1 DEF OnStart
    <3>4. Flow(z, q) = Flow(z, p)
      BY <1>2, <3>2, <3>3, ThoughtSet
    <3>5. ~Visible(Hidden(show, g), e)
      BY <1>5, <1>7, <2>2 DEF Visible, Hidden
    <3> QED BY <3>4, <3>5 DEF Carries
  <2>3. CASE ~(e.kind = "thinking" /\ ~show)
    <3>1. q = Emit(o, e)
      BY <1>3, <2>1, <2>3 DEF OnStart
    <3> QED BY <1>1, <1>4, <3>1, EmitFlows DEF Carries
  <2> QED BY <2>2, <2>3
<1>8. CASE e.type = "delta"
  <2>1. q = OnDelta(p, e)
    BY <1>8 DEF Handled
  <2>2. CASE p.thinking.block # e.block
    <3>1. q = Emit(o, e)
      BY <1>3, <2>1, <2>2 DEF OnDelta
    <3> QED BY <1>1, <1>4, <3>1, EmitFlows DEF Carries
  <2>3. CASE p.thinking.block = e.block
    <3>1. PICK m : m = More(p, e)
      OBVIOUS
    <3>2. PICK u : IsMore(z, p, e, m, u)
      BY <1>2, <3>1, HeldMore
    <3>3. WellMade(z, m) /\ Flow(z, m) = Flow(z, p) /\ Unthought(m) = Unthought(p)
      BY <3>2 DEF IsMore
    <3>4. PICK x : x = Of("start", e.block, "thinking")
      OBVIOUS
    <3>5. x \in Event /\ x.type = "start" /\ x.block = e.block
      BY <1>1, <1>8, <3>4 DEF Of, Event, Type, Kind
    <3>6. ~Visible(Hidden(show, g), e) /\ ~Visible(Hidden(show, g), x)
      BY <1>6, <1>8, <2>3, <3>5
    <3>7. q = IF m.thinking.size <= ThinkingCap THEN MarkContent(m)
              ELSE Emit(Emit(MarkContent(Unthought(m)), x), e)
      BY <2>1, <2>3, <3>1, <3>4 DEF OnDelta, More, Unthought
    <3>8. CASE m.thinking.size <= ThinkingCap
      <4>1. q = MarkContent(m)
        BY <3>7, <3>8
      <4>2. Flow(z, q) = Flow(z, p)
        BY <3>3, <4>1, Marked
      <4> QED BY <3>6, <4>2 DEF Carries
    <3>9. CASE ~(m.thinking.size <= ThinkingCap)
      <4>1. PICK k : k = [p EXCEPT !.thinking = NoThinking]
        OBVIOUS
      <4>2. PICK n : n = Emit(MarkContent(k), x)
        OBVIOUS
      <4>3. q = Emit(n, e)
        BY <3>3, <3>7, <3>9, <4>1, <4>2 DEF Unthought
      <4> QED BY <1>1, <1>2, <3>5, <3>6, <4>1, <4>2, <4>3, EmitReleases
    <3> QED BY <3>8, <3>9
  <2> QED BY <2>2, <2>3
<1>9. CASE e.type = "stop"
  <2>1. q = OnStop(p, e)
    BY <1>9 DEF Handled
  <2>2. CASE p.thinking.block # e.block
    <3>1. q = Emit(p, e)
      BY <2>1, <2>2 DEF OnStop
    <3>2. p.committed
      <4>1. ASSUME ~p.committed
            PROVE  FALSE
        <5>1. Started(f) = Withheld(p.thinking)
          BY <4>1 DEF Piped, Holds
        <5> QED BY <1>1, <1>9, <2>2, <5>1 DEF Withheld, Open
      <4> QED BY <4>1
    <3> QED BY <1>1, <1>2, <3>1, <3>2, EmitFlows DEF Carries
  <2>3. CASE p.thinking.block = e.block
    <3>1. PICK k : k = [p EXCEPT !.thinking = NoThinking]
      OBVIOUS
    <3>2. PICK x : x = Redacted(p.thinking)
      OBVIOUS
    <3>3. PICK n : n = Emit(MarkContent(k), x)
      OBVIOUS
    <3>4. q = Emit(n, e)
      BY <2>1, <2>3, <3>1, <3>2, <3>3 DEF OnStop
    <3>5. x \in Event /\ x.type = "start" /\ x.block = e.block
      BY <1>1, <1>9, <2>3, <3>2 DEF Redacted, Of, Event, Type, Kind
    <3>6. ~Visible(Hidden(show, g), e) /\ ~Visible(Hidden(show, g), x)
      BY <1>6, <1>9, <2>3, <3>5
    <3> QED BY <1>1, <1>2, <3>1, <3>3, <3>4, <3>5, <3>6, EmitReleases
  <2> QED BY <2>2, <2>3
<1>10. CASE e.type = "message_stop"
  <2>1. PICK m : m = [p EXCEPT !.stopped = TRUE]
    OBVIOUS
  <2>2. q = Emit(m, e)
    BY <1>10, <2>1 DEF Handled
  <2>3. m = [pending |-> p.pending, out |-> p.out, committed |-> p.committed,
             stopped |-> TRUE, error |-> p.error, thinking |-> p.thinking]
    <3>1. p = [pending |-> p.pending, out |-> p.out, committed |-> p.committed,
               stopped |-> p.stopped, error |-> p.error, thinking |-> p.thinking]
      BY <1>2, PipeFields
    <3> QED BY <2>1, <3>1
  <2>4. m \in PipeType
    BY <1>2, <2>3 DEF PipeType
  <2>5. m.pending = p.pending /\ m.out = p.out /\ m.committed = p.committed
    BY <2>3
  <2>6. WellMade(z, m) /\ Flow(z, m) = Flow(z, p)
    BY <1>2, <2>4, <2>5 DEF WellMade, Flow
  <2>7. e.type \notin {"start", "delta", "stop", "message_start"}
    BY <1>10
  <2>8. Carries(Flow(z, m), e, Flow(z, q), Hidden(show, g))
    BY <1>1, <2>2, <2>6, <2>7, PlainCarries
  <2> QED BY <2>6, <2>8
<1>11. CASE e.type = "error" /\ ~p.committed
  <2>1. q = [p EXCEPT !.error = TRUE]
    BY <1>11 DEF Handled
  <2>2. p = [pending |-> p.pending, out |-> p.out, committed |-> p.committed,
             stopped |-> p.stopped, error |-> p.error, thinking |-> p.thinking]
    BY <1>2, PipeFields
  <2>3. q.pending = p.pending /\ q.committed = p.committed
    BY <2>1, <2>2
  <2>4. Flow(z, q) = Flow(z, p)
    BY <1>11, <2>3 DEF Flow
  <2>5. ~Visible(Hidden(show, g), e)
    BY <1>11 DEF Visible
  <2> QED BY <2>4, <2>5 DEF Carries
<1>12. CASE \/ e.type \notin {"start", "delta", "stop", "message_stop", "error"}
            \/ e.type = "error" /\ p.committed
  <2>1. q = Emit(p, e)
    BY <1>12 DEF Handled
  <2>2. e.type \notin {"start", "delta", "stop"}
    BY <1>12
  <2>3. e.type = "message_start" => Flow(z, p) = <<>>
    <3>1. ASSUME f = <<>>
          PROVE  Flow(z, p) = <<>>
      <4>1. ~p.committed
        BY <3>1 DEF Piped, Flows, Mirrors
      <4>2. "error" \notin Types(f)
        BY <3>1, EmptyStream
      <4> QED BY <3>1, <4>1, <4>2 DEF Piped, Holds, Flow
    <3> QED BY <1>1, <3>1
  <2> QED BY <1>1, <1>2, <2>1, <2>2, <2>3, PlainCarries
<1> QED BY <1>7, <1>8, <1>9, <1>10, <1>11, <1>12

LEMMA CarriesIsFaithful ==
  ASSUME NEW f, NEW e, NEW g, Grown(f, e, g), NEW hidden, NEW s, NEW r,
         Seen(s, hidden) = Seen(f, hidden), Carries(s, e, r, hidden)
  PROVE  Seen(r, hidden) = Seen(g, hidden)
<1>1. Seen(g, hidden) = IF Visible(hidden, e) THEN Append(Seen(f, hidden), e)
                        ELSE Seen(f, hidden)
  BY SeenAdds
<1>2. CASE Grown(s, e, r)
  <2>1. Seen(r, hidden) = IF Visible(hidden, e) THEN Append(Seen(s, hidden), e)
                          ELSE Seen(s, hidden)
    BY <1>2, SeenAdds
  <2> QED BY <1>1, <2>1
<1>3. CASE r = s /\ ~Visible(hidden, e)
  BY <1>1, <1>3
<1>4. CASE Released(s, e, r, hidden)
  <2>1. PICK m, x : /\ Grown(s, x, m) /\ Grown(m, e, r)
                    /\ ~Visible(hidden, x) /\ ~Visible(hidden, e)
    BY <1>4 DEF Released
  <2>2. Seen(m, hidden) = Seen(s, hidden)
    BY <2>1, SeenAdds
  <2>3. Seen(r, hidden) = Seen(m, hidden)
    BY <2>1, SeenAdds
  <2> QED BY <1>1, <2>1, <2>2, <2>3
<1> QED BY <1>2, <1>3, <1>4 DEF Carries

LEMMA FeedKeepsContent ==
  ASSUME PipelineInv, ContentInv, NEW e \in Input, Feed(e)
  PROVE  ContentInv'
<1>1. /\ at \in Live /\ MayFollow(fed, e) /\ fed' = Append(fed, e)
      /\ pipe' = Handled(pipe, e) /\ UNCHANGED <<show, at, sent>>
  BY DEF Feed
<1>2. e \in Event /\ Lawful(fed) /\ fed \in Seq(Event) /\ show \in BOOLEAN
  BY <1>1, WhatFollows, InvParts
<1>3. PICK g : g = Append(fed, e)
  OBVIOUS
<1>4. Grown(fed, e, g)
  BY <1>2, <1>3, AppendGrows
<1>5. PICK q : q = Handled(pipe, e)
  OBVIOUS
<1>6. Piped(show, sent, fed, pipe)
  BY <1>1, InvParts
<1>7. PICK s : s = Flow(sent, pipe)
  OBVIOUS
<1>8. s \in Seq(Event) /\ Begun(fed, s) /\ Begun(fed, fed)
  BY <1>6, <1>7, FlowIsBegun DEF ContentInv
<1>9. Seen(s, Hidden(show, fed)) = Seen(fed, Hidden(show, fed))
  BY <1>1, <1>7 DEF ContentInv, Faithful
<1>10. Seen(s, Hidden(show, g)) = Seen(fed, Hidden(show, g))
  <2>1. Seen(s, Hidden(show, g)) = Seen(s, Hidden(show, fed))
    BY <1>1, <1>2, <1>4, <1>8, SeenStays
  <2>2. Seen(fed, Hidden(show, g)) = Seen(fed, Hidden(show, fed))
    BY <1>1, <1>2, <1>4, <1>8, SeenStays
  <2> QED BY <1>9, <2>1, <2>2
<1>11. PICK r : r = Flow(sent, q)
  OBVIOUS
<1>12. Carries(s, e, r, Hidden(show, g))
  BY <1>1, <1>2, <1>4, <1>5, <1>6, <1>7, <1>11, HandledCarries
<1>13. Seen(r, Hidden(show, g)) = Seen(g, Hidden(show, g))
  BY <1>4, <1>10, <1>12, CarriesIsFaithful
<1>14. Begun(g, g)
  BY <1>1, <1>4, <1>8, BegunGrows
<1>15. fed' = g /\ pipe' = q /\ sent' = sent /\ show' = show /\ at' = at
  BY <1>1, <1>3, <1>5
<1>16. Faithful(show, g, Flow(sent, q))
  BY <1>11, <1>13 DEF Faithful
<1> QED BY <1>1, <1>14, <1>15, <1>16 DEF ContentInv

\* What is sent on flows as it did.
LEMMA ChunkKeepsContent ==
  ASSUME PipelineInv, ContentInv, GateOpens \/ Forward
  PROVE  ContentInv'
<1>1. PICK y : y = sent \o pipe.out
  OBVIOUS
<1>2. PICK q : q = [pipe EXCEPT !.out = <<>>]
  OBVIOUS
<1>3. at \in Live /\ pipe.committed /\ at' = "streaming" /\ pipe' = q /\ UNCHANGED <<show, fed>>
  BY <1>2, InvParts DEF GateOpens, Forward, GateInv, Live
<1>4. Piped(show, sent, fed, pipe)
  BY <1>3, InvParts
<1>5. sent' = y
  <2>1. CASE GateOpens
    <3>1. sent = <<>> /\ pipe.out \in Seq(Event)
      BY <1>3, <1>4, <2>1, InvParts DEF GateOpens, GateInv, Piped, WellMade, PipeType
    <3>2. y = pipe.out
      BY <1>1, <3>1, ConcatEmpty
    <3> QED BY <2>1, <3>2 DEF GateOpens
  <2>2. CASE Forward
    BY <1>1, <2>2 DEF Forward
  <2> QED BY <2>1, <2>2
<1>6. Piped(show, y, fed, q) /\ q.committed /\ q.out = <<>>
  BY <1>1, <1>2, <1>3, <1>4, Drained
<1>7. Flow(y, q) = Flow(sent, pipe)
  <2>1. Flow(sent, pipe) = y
    BY <1>1, <1>3 DEF Flow
  <2>2. Flow(y, q) = y \o <<>> /\ y \in Seq(Event)
    BY <1>6 DEF Flow, Piped, WellMade
  <2> QED BY <2>1, <2>2, ConcatEmpty
<1>8. Faithful(show, fed, Flow(y, q)) /\ Begun(fed, fed)
  BY <1>3, <1>7 DEF ContentInv
<1>9. at' \in Live
  BY <1>3 DEF Live
<1> QED BY <1>3, <1>5, <1>8, <1>9 DEF ContentInv

LEMMA CutsKeepContent ==
  ASSUME PipelineInv, ContentInv, GateFails \/ Depart \/ (at = "gate" /\ Break)
  PROVE  ContentInv'
<1>1. at \in Live /\ UNCHANGED <<show, fed, pipe, sent>> /\ at' \in {"failed", "gone"}
  BY DEF GateFails, Depart, Break, End, Live
<1>2. Faithful(show, fed, Flow(sent, pipe)) /\ Begun(fed, fed)
  BY <1>1 DEF ContentInv
<1>3. pipe.committed => Faithful(show, fed, sent \o pipe.out)
  BY <1>2 DEF Flow
<1>4. at' \notin Live
  BY <1>1 DEF Live
<1> QED BY <1>1, <1>2, <1>3, <1>4 DEF ContentInv, Stream

\* What an end adds to a stream is no part of what its client sees.
LEMMA PlainIsUnseen ==
  ASSUME NEW s, NEW e, e.type \in {"error", "message_delta", "message_stop"},
         NEW r, Grown(s, e, r), NEW hidden
  PROVE  Seen(r, hidden) = Seen(s, hidden)
<1>1. ~Visible(hidden, e)
  BY DEF Visible
<1> QED BY <1>1, SeenAdds

LEMMA ErrorsKeepContent ==
  ASSUME PipelineInv, ContentInv, at = "streaming", Break \/ IdleTimeout
  PROVE  ContentInv'
<1>1. /\ ~midChunk /\ UNCHANGED <<show, fed, pipe>> /\ sent' = Append(sent, Plain("error"))
      /\ at' \in {"broken", "idle"}
  BY DEF Break, IdleTimeout, End
<1>2. PICK e : e = Plain("error")
  OBVIOUS
<1>3. e \in Event /\ e.type = "error"
  BY <1>2, PlainEvents
<1>4. PICK y : y = Append(sent, e)
  OBVIOUS
<1>5. Grown(sent, e, y) /\ y \in Seq(Event)
  BY <1>3, <1>4, InvParts, AppendGrows DEF Grown
<1>6. pipe.committed /\ pipe.out = <<>> /\ Stream = sent
  BY <1>1, AllIsSent
<1>7. Seen(y, Hidden(show, fed)) = Seen(sent, Hidden(show, fed))
  BY <1>3, <1>5, PlainIsUnseen
<1>8. Faithful(show, fed, sent) /\ Begun(fed, fed)
  BY <1>6 DEF ContentInv, Flow, Stream, Live
<1>9. y \o pipe.out = y
  BY <1>5, <1>6, ConcatEmpty
<1>10. Stream' = y
  BY <1>1, <1>2, <1>4, <1>9 DEF Stream
<1>11. Faithful(show, fed, y)
  BY <1>7, <1>8 DEF Faithful
<1>12. at' \notin Live
  BY <1>1 DEF Live
<1> QED BY <1>1, <1>8, <1>10, <1>11, <1>12 DEF ContentInv

LEMMA CloseKeepsContent ==
  ASSUME PipelineInv, ContentInv, Close
  PROVE  ContentInv'
<1>1. /\ at = "streaming" /\ ~midChunk /\ UNCHANGED <<show, fed, pipe>> /\ at' = "done"
      /\ sent' = sent \o Finalized(pipe).out
  BY DEF Close, End
<1>2. /\ pipe.committed /\ pipe.out = <<>> /\ Stream = sent /\ pipe \in PipeType
      /\ sent \in Seq(Event)
  BY <1>1, AllIsSent, InvParts DEF WellMade
<1>3. PICK y : y = sent \o Finalized(pipe).out
  OBVIOUS
<1>4. Seen(y, Hidden(show, fed)) = Seen(sent, Hidden(show, fed)) /\ y \in Seq(Event)
  <2>1. CASE pipe.stopped
    <3>1. y = sent
      BY <1>2, <1>3, <2>1, FinalOut, ConcatEmpty
    <3> QED BY <1>2, <3>1
  <2>2. CASE ~pipe.stopped
    <3>1. PICK a : a = Plain("message_delta")
      OBVIOUS
    <3>2. PICK b : b = Plain("message_stop")
      OBVIOUS
    <3>3. /\ a \in Event /\ a.type = "message_delta" /\ b \in Event /\ b.type = "message_stop"
      BY <3>1, <3>2, PlainEvents
    <3>4. PICK m : m = Append(sent, a)
      OBVIOUS
    <3>5. y = Append(m, b)
      <4>1. Finalized(pipe).out = <<a, b>>
        BY <1>2, <2>2, <3>1, <3>2, FinalOut
      <4> QED BY <1>2, <1>3, <3>3, <3>4, <4>1, TwoMore
    <3>6. Grown(sent, a, m)
      BY <1>2, <3>3, <3>4, AppendGrows
    <3>7. Grown(m, b, y) /\ y \in Seq(Event)
      BY <3>3, <3>5, <3>6, AppendGrows DEF Grown
    <3>8. Seen(m, Hidden(show, fed)) = Seen(sent, Hidden(show, fed))
      BY <3>3, <3>6, PlainIsUnseen
    <3>9. Seen(y, Hidden(show, fed)) = Seen(m, Hidden(show, fed))
      BY <3>3, <3>7, PlainIsUnseen
    <3> QED BY <3>7, <3>8, <3>9
  <2> QED BY <2>1, <2>2
<1>5. Faithful(show, fed, sent) /\ Begun(fed, fed)
  BY <1>1, <1>2 DEF ContentInv, Flow, Stream, Live
<1>6. y \o pipe.out = y
  BY <1>2, <1>4, ConcatEmpty
<1>7. Stream' = y
  BY <1>1, <1>3, <1>6 DEF Stream
<1>8. Faithful(show, fed, y)
  BY <1>4, <1>5 DEF Faithful
<1>9. at' \notin Live
  BY <1>1 DEF Live
<1> QED BY <1>1, <1>5, <1>7, <1>8, <1>9 DEF ContentInv

LEMMA InitContent == Init => ContentInv
<1> SUFFICES ASSUME Init
             PROVE  ContentInv
  OBVIOUS
<1>1. /\ fed = <<>> /\ sent = <<>> /\ at \in Live
      /\ ~pipe.committed /\ pipe.pending = <<>>
  BY DEF Init, NewPipe, Live
<1>2. Flow(sent, pipe) = fed
  BY <1>1 DEF Flow
<1>3. Begun(fed, fed)
  BY <1>1 DEF Begun
<1> QED BY <1>1, <1>2, <1>3 DEF ContentInv, Faithful

LEMMA NextKeepsContent == PipelineInv /\ ContentInv /\ [Next]_vars => ContentInv'
<1> SUFFICES ASSUME PipelineInv, ContentInv, [Next]_vars
             PROVE  ContentInv'
  OBVIOUS
<1>1. CASE \E e \in Input : Feed(e)
  BY <1>1, FeedKeepsContent
<1>2. CASE GateWaits \/ Drip \/ Ping \/ Stall \/ Tick \/ UNCHANGED vars
  <2>1. UNCHANGED <<show, at, fed, pipe, sent>>
    BY <1>2 DEF GateWaits, Drip, Ping, Stall, Tick, vars
  <2> QED BY <2>1 DEF ContentInv, Stream
<1>3. CASE GateOpens \/ Forward
  BY <1>3, ChunkKeepsContent
<1>4. CASE GateFails \/ Depart
  BY <1>4, CutsKeepContent
<1>5. CASE Break
  <2>1. at = "gate" \/ at = "streaming"
    BY <1>5 DEF Break, Live
  <2> QED BY <1>5, <2>1, CutsKeepContent, ErrorsKeepContent
<1>6. CASE IdleTimeout
  <2>1. at = "streaming"
    BY <1>6 DEF IdleTimeout
  <2> QED BY <1>6, <2>1, ErrorsKeepContent
<1>7. CASE Empty
  <2>1. at' \notin Live /\ UNCHANGED <<fed, pipe>> /\ ~pipe.committed
    BY <1>7, InvParts DEF Empty, End, Live, GateInv
  <2> QED BY <2>1 DEF ContentInv
<1>8. CASE Close
  BY <1>8, CloseKeepsContent
<1> QED BY <1>1, <1>2, <1>3, <1>4, <1>5, <1>6, <1>7, <1>8 DEF Next, Leave

\* mod.rs:6 and :10: whatever is held back, withheld, lost to the cap or cut off, the
\* client sees what it asked for, all of it, in its order and nothing else.
THEOREM ContentIsKept == Spec => []ContentSurvives
<1>1. PipelineInv /\ ContentInv => ContentSurvives
  BY DEF PipelineInv, ContentInv, ContentSurvives, Faithful, Flow, Stream
<1>2. Spec => [](PipelineInv /\ ContentInv)
  BY InitInv, InitContent, NextKeepsInv, NextKeepsContent, PTL DEF Spec
<1> QED BY <1>1, <1>2, PTL
================================================================================
