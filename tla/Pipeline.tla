-------------------------------- MODULE Pipeline --------------------------------
(***************************************************************************)
(* pipeline/mod.rs: what a streaming attempt makes of the events of its    *)
(* upstream.  forward::attempt_stream feeds the pipeline until there is    *)
(* content, an error or a timeout; until then the events are held back, so *)
(* that another candidate may be tried.  After it into_client_stream sends *)
(* them on, with pings, an idle timeout and a proper end.                  *)
(*                                                                         *)
(* A chunk of the upstream may hold several events: they are handled with  *)
(* no await between them, and the caller looks at the pipeline after the   *)
(* last.  Time passes between chunks only.  An event is its type, the      *)
(* block it is about and the kind of content; its size is 1.               *)
(***************************************************************************)
EXTENDS Integers, Sequences, FiniteSets

CONSTANTS
  Block,        \* indices of content blocks
  None,         \* no block, no kind
  PendingCap,   \* PENDING_CAP, in events
  ThinkingCap,  \* THINKING_CAP, in deltas
  FirstContent, \* Settings::first_content_timeout_ms, in ticks
  Idle,         \* Settings::idle_timeout_ms, in ticks
  PingEvery,    \* Settings::ping_interval_ms, in ticks
  MaxPings,     \* bound on the pings of an upstream
  MaxDeltas,    \* bound on the deltas of a block
  MaxEvents     \* bound on what it sends in all

ASSUME PipelineAssumption ==
  /\ Block \subseteq Nat
  /\ None \notin Block /\ None \notin {"text", "thinking", "redacted", "signature", "unsigned"}
  /\ PendingCap \in Nat \ {0} /\ ThinkingCap \in Nat
  /\ FirstContent \in Nat \ {0} /\ Idle \in Nat \ {0} /\ PingEvery \in Nat \ {0}
  /\ MaxPings \in Nat /\ MaxDeltas \in Nat /\ MaxEvents \in Nat

VARIABLES
  show,     \* PipelineCfg::show_thinking
  at,       \* where the attempt is: at the gate, streaming, or how it ended
  fed,      \* history: the events of the upstream
  midChunk, \* some events of a chunk are handled, others perhaps not
  pipe,     \* struct Pipeline
  sent,     \* what the client got, or is to be given for want of anything better
  row,      \* the row of request_logs
  waited,   \* ticks since the attempt began
  quiet,    \* ticks since the upstream was last heard (last_activity)
  silent,   \* ticks since the client was last sent anything (last_emit)
  stalled   \* the client does not read: the stream is not polled

vars == <<show, at, fed, midChunk, pipe, sent, row, waited, quiet, silent, stalled>>

Type == {"message_start", "start", "delta", "stop", "message_delta", "message_stop",
         "ping", "error"}
Kind == {"text", "thinking", "redacted", "signature", "unsigned"}
Event == [type: Type, block: Block \cup {None}, kind: Kind \cup {None}]
Plain(type) == [type |-> type, block |-> None, kind |-> None]
Of(type, b, kind) == [type |-> type, block |-> b, kind |-> kind]

NoThinking == [block |-> None, signed |-> FALSE, size |-> 0]
NewPipe == [pending |-> <<>>, out |-> <<>>, committed |-> FALSE, stopped |-> FALSE,
            error |-> FALSE, thinking |-> NoThinking]

Live == {"gate", "streaming"}

TypeOK ==
  /\ show \in BOOLEAN /\ midChunk \in BOOLEAN /\ stalled \in BOOLEAN
  /\ at \in Live \cup {"done", "idle", "broken", "gone", "empty", "failed"}
  /\ fed \in Seq(Event) /\ Len(fed) <= MaxEvents
  /\ pipe \in [pending: Seq(Event), out: Seq(Event), committed: BOOLEAN, stopped: BOOLEAN,
               error: BOOLEAN, thinking: [block: Block \cup {None}, signed: BOOLEAN, size: Nat]]
  /\ Len(pipe.pending) <= PendingCap
  /\ pipe.committed => pipe.pending = <<>>
  /\ pipe.thinking.size <= ThinkingCap
  /\ sent \in Seq(Event)
  /\ row \in {"none", "clean", "error"} /\ (row = "none" <=> at \in Live)
  /\ waited \in 0..FirstContent /\ quiet \in 0..Idle /\ silent \in 0..PingEvery

Init ==
  /\ show \in BOOLEAN
  /\ at = "gate" /\ midChunk = FALSE /\ stalled = FALSE
  /\ fed = <<>> /\ pipe = NewPipe /\ sent = <<>> /\ row = "none"
  /\ waited = 0 /\ quiet = 0 /\ silent = 0

-------------------------------------------------------------------------------
\* What the converters send: message_start; blocks, of which several may be
\* open, but none is opened within a thinking block; message_delta once all are
\* closed; message_stop.  A few pings come in between, and an error ends it all.
Types(s) == {s[i].type : i \in DOMAIN s}
Started(s) == {s[i].block : i \in {j \in DOMAIN s : s[j].type = "start"}}
Stopped(s) == {s[i].block : i \in {j \in DOMAIN s : s[j].type = "stop"}}
Open(s) == Started(s) \ Stopped(s)
KindOf(s, b) == s[CHOOSE i \in DOMAIN s : s[i].type = "start" /\ s[i].block = b].kind
OpenThought(s) == {b \in Open(s) : KindOf(s, b) = "thinking"}

Deltas(s, b) == {i \in DOMAIN s : s[i].type = "delta" /\ s[i].block = b}
Count(s, type) == Cardinality({i \in DOMAIN s : s[i].type = type})

MayFollow(s, e) == "error" \notin Types(s) /\
  CASE e.type = "message_start" -> s = <<>>
    [] e.type = "error" -> TRUE
    [] e.type = "ping" -> s # <<>> /\ Count(s, "ping") < MaxPings
    [] e.type = "start" -> /\ s # <<>> /\ "message_delta" \notin Types(s)
                           /\ OpenThought(s) = {}
                           /\ e.block \notin Started(s) /\ e.kind \in {"text", "thinking"}
                           /\ \A b \in Block : b < e.block => b \in Started(s)
    [] e.type = "delta" -> /\ e.block \in Open(s) /\ Cardinality(Deltas(s, e.block)) < MaxDeltas
                           /\ IF KindOf(s, e.block) = "thinking"
                              THEN e.kind \in {"thinking", "signature"} ELSE e.kind = "text"
    [] e.type = "stop" -> e.block \in Open(s) /\ e.kind = None
    [] e.type = "message_delta" -> s # <<>> /\ Open(s) = {} /\ "message_delta" \notin Types(s)
    [] e.type = "message_stop" -> "message_delta" \in Types(s) /\ "message_stop" \notin Types(s)

Input ==
  {Plain(t) : t \in Type \ {"start", "delta", "stop"}}
    \cup [type: {"start", "delta"}, block: Block, kind: {"text", "thinking", "signature"}]
    \cup {Of("stop", b, None) : b \in Block}

-------------------------------------------------------------------------------
Emit_Uncapped(p, e) ==
  IF p.committed THEN [p EXCEPT !.out = Append(@, e)] ELSE [p EXCEPT !.pending = Append(@, e)]
\* emit_block(): to the client once committed, else held back, up to the cap.
Emit(p, e) ==
  IF p.committed THEN [p EXCEPT !.out = Append(@, e)]
  ELSE IF Len(p.pending) < PendingCap THEN [p EXCEPT !.pending = Append(@, e)]
  ELSE p

\* mark_content(): the first content opens the gate for what was held back.
MarkContent(p) ==
  [p EXCEPT !.committed = TRUE, !.out = @ \o p.pending, !.pending = <<>>]

\* content_block_start: a thinking block that is not to be shown is withheld.
OnStart(p, e) ==
  IF e.kind = "thinking" /\ ~show
  THEN [p EXCEPT !.thinking = [NoThinking EXCEPT !.block = e.block]]
  ELSE Emit(MarkContent(p), e)

OnDelta_Silent(p, e) ==
  IF p.thinking.block # e.block THEN Emit(MarkContent(p), e)
  ELSE LET held == [p EXCEPT !.thinking.size = @ + 1,
                             !.thinking.signed = @ \/ e.kind = "signature"]
       IN  IF held.thinking.size <= ThinkingCap THEN MarkContent(held)
           ELSE Emit(MarkContent([held EXCEPT !.thinking = NoThinking]), e)
OnDelta_AnyBlock(p, e) ==
  IF p.thinking.block = None THEN Emit(MarkContent(p), e)
  ELSE LET held == [p EXCEPT !.thinking.size = @ + 1,
                             !.thinking.signed = @ \/ e.kind = "signature"]
       IN  IF held.thinking.size <= ThinkingCap THEN MarkContent(held)
           ELSE Emit(Emit(MarkContent([held EXCEPT !.thinking = NoThinking]),
                          Of("start", e.block, "thinking")), e)
\* content_block_delta: of a withheld block only its size and whether it is
\* signed are kept; one that grows too long is shown from there on.
OnDelta(p, e) ==
  IF p.thinking.block # e.block THEN Emit(MarkContent(p), e)
  ELSE LET held == [p EXCEPT !.thinking.size = @ + 1,
                             !.thinking.signed = @ \/ e.kind = "signature"]
       IN  IF held.thinking.size <= ThinkingCap THEN MarkContent(held)
           ELSE Emit(Emit(MarkContent([held EXCEPT !.thinking = NoThinking]),
                          Of("start", e.block, "thinking")), e)

\* The block that is sent for a withheld one: the signature is its data.
Redacted(t) == Of("start", t.block, IF t.signed THEN "redacted" ELSE "unsigned")

\* content_block_stop: a withheld block is sent, as a redacted one.
OnStop_Unsigned(p, e) ==
  IF p.thinking.block # e.block THEN Emit(p, e)
  ELSE Emit(Emit(MarkContent([p EXCEPT !.thinking = NoThinking]),
                 Redacted([p.thinking EXCEPT !.signed = FALSE])), e)
OnStop(p, e) ==
  IF p.thinking.block # e.block THEN Emit(p, e)
  ELSE Emit(Emit(MarkContent([p EXCEPT !.thinking = NoThinking]), Redacted(p.thinking)), e)

\* handle_block()
Handled(p, e) ==
  CASE e.type = "start" -> OnStart(p, e)
    [] e.type = "delta" -> OnDelta(p, e)
    [] e.type = "stop"  -> OnStop(p, e)
    [] e.type = "message_stop" -> Emit([p EXCEPT !.stopped = TRUE], e)
    [] e.type = "error" -> IF p.committed THEN Emit(p, e) ELSE [p EXCEPT !.error = TRUE]
    [] OTHER -> Emit(p, e)

Finalized_Always(p) ==
  IF p.committed THEN Emit(Emit(p, Plain("message_delta")), Plain("message_stop")) ELSE p
\* finalize(): a committed stream that had no message_stop gets one.
Finalized(p) ==
  IF p.committed /\ ~p.stopped
  THEN Emit(Emit(p, Plain("message_delta")), Plain("message_stop")) ELSE p

\* into_empty_replay(): an empty message, out of what was held back.
Replay(p) ==
  IF p.pending = <<>> THEN <<>>
  ELSE p.pending \o <<Plain("message_delta"), Plain("message_stop")>>

-------------------------------------------------------------------------------
Timers == <<waited, quiet, silent>>

\* An event of a chunk: the upstream has been heard.
Feed(e) ==
  /\ at \in Live /\ ~stalled
  /\ at = "gate" => waited < FirstContent
  /\ Len(fed) < MaxEvents /\ MayFollow(fed, e)
  /\ fed' = Append(fed, e)
  /\ pipe' = Handled(pipe, e)
  /\ midChunk' = TRUE
  /\ quiet' = 0
  /\ UNCHANGED <<show, at, sent, row, waited, silent, stalled>>

\* A chunk with no whole event in it: a comment, or part of one.
Drip_Restarts ==
  /\ at \in Live /\ ~midChunk /\ ~stalled
  /\ at = "gate" => waited < FirstContent
  /\ quiet' = 0 /\ waited' = 0
  /\ UNCHANGED <<show, at, fed, midChunk, pipe, sent, row, silent, stalled>>
Drip ==
  /\ at \in Live /\ ~midChunk /\ ~stalled
  /\ at = "gate" => waited < FirstContent
  /\ quiet' = 0
  /\ UNCHANGED <<show, at, fed, midChunk, pipe, sent, row, waited, silent, stalled>>

\* The attempt is over, with what its row says: write_log() or Drop.  Its timers
\* are gone.
End(how, says) ==
  /\ at' = how
  /\ row' = says
  /\ midChunk' = FALSE /\ stalled' = FALSE
  /\ waited' = 0 /\ quiet' = 0 /\ silent' = 0
  /\ UNCHANGED <<show, fed>>

\* What Drop writes when nothing was written before.
DropSays == IF pipe.committed THEN "clean" ELSE "error"

\* attempt_stream() after a chunk: an error within it, content, or neither.
GateFails ==
  /\ at = "gate" /\ midChunk /\ pipe.error
  /\ End("failed", DropSays)
  /\ UNCHANGED <<pipe, sent>>

GateOpens ==
  /\ at = "gate" /\ midChunk /\ ~pipe.error /\ pipe.committed
  /\ at' = "streaming"
  /\ sent' = pipe.out
  /\ pipe' = [pipe EXCEPT !.out = <<>>]
  /\ midChunk' = FALSE /\ waited' = 0 /\ quiet' = 0 /\ silent' = 0
  /\ UNCHANGED <<show, fed, row, stalled>>

GateWaits ==
  /\ at = "gate" /\ midChunk /\ ~pipe.error /\ ~pipe.committed
  /\ midChunk' = FALSE
  /\ UNCHANGED <<show, at, fed, pipe, sent, row, Timers, stalled>>

\* empty_result(): the upstream closes, or the time is up, without content.
Empty ==
  /\ at = "gate" /\ ~midChunk
  /\ End("empty", "error")
  /\ sent' = Replay(pipe)
  /\ UNCHANGED pipe

\* into_client_stream(): the chunk's events go to the client...
Forward ==
  /\ at = "streaming" /\ midChunk
  /\ sent' = sent \o pipe.out
  /\ pipe' = [pipe EXCEPT !.out = <<>>]
  /\ silent' = IF pipe.out # <<>> THEN 0 ELSE silent
  /\ midChunk' = FALSE
  /\ UNCHANGED <<show, at, fed, row, waited, quiet, stalled>>

\* ... the upstream closes...
Close ==
  /\ at = "streaming" /\ ~midChunk /\ ~stalled
  /\ End("done", "clean")
  /\ sent' = sent \o Finalized(pipe).out
  /\ UNCHANGED pipe

\* ... or the connection breaks, which at the gate lets the next candidate in...
Break ==
  /\ at \in Live /\ ~midChunk /\ ~stalled
  /\ IF at = "gate" THEN End("failed", DropSays) /\ sent' = sent
     ELSE End("broken", "error") /\ sent' = Append(sent, Plain("error"))
  /\ UNCHANGED pipe

\* ... or it stays silent for too long...
IdleTimeout ==
  /\ at = "streaming" /\ ~midChunk /\ ~stalled /\ quiet = Idle
  /\ End("idle", "error")
  /\ sent' = Append(sent, Plain("error"))
  /\ UNCHANGED pipe

\* ... while the client is kept waiting with pings, which are not part of the
\* message and are not recorded.
Ping_IsActivity ==
  /\ at = "streaming" /\ ~midChunk /\ ~stalled /\ silent = PingEvery
  /\ silent' = 0 /\ quiet' = 0
  /\ UNCHANGED <<show, at, fed, midChunk, pipe, sent, row, waited, stalled>>
Ping ==
  /\ at = "streaming" /\ ~midChunk /\ ~stalled /\ silent = PingEvery
  /\ silent' = 0
  /\ UNCHANGED <<show, at, fed, midChunk, pipe, sent, row, waited, quiet, stalled>>

\* The client departs, or stops and resumes reading.
Depart ==
  /\ at \in Live /\ ~midChunk
  /\ End("gone", DropSays)
  /\ UNCHANGED <<pipe, sent>>

Stall ==
  /\ at = "streaming" /\ ~midChunk
  /\ stalled' = ~stalled
  /\ UNCHANGED <<show, at, fed, midChunk, pipe, sent, row, Timers>>

UpTo(n, cap) == IF n < cap THEN n + 1 ELSE cap

\* A timer that is due fires before time goes on, unless nobody polls it.
Tick ==
  /\ ~midChunk
  /\ \/ at = "gate" /\ waited < FirstContent /\ waited' = waited + 1 /\ UNCHANGED <<quiet, silent>>
     \/ /\ at = "streaming" /\ (stalled \/ (quiet < Idle /\ silent < PingEvery))
        /\ quiet' = UpTo(quiet, Idle) /\ silent' = UpTo(silent, PingEvery)
        /\ UNCHANGED waited
  /\ UNCHANGED <<show, at, fed, midChunk, pipe, sent, row, stalled>>

Leave == GateFails \/ GateOpens \/ GateWaits \/ Forward

Next ==
  \/ \E e \in Input : Feed(e)
  \/ Drip \/ Leave \/ Empty \/ Close \/ Break \/ IdleTimeout \/ Ping
  \/ Depart \/ Stall \/ Tick

Spec == Init /\ [][Next]_vars

\* Time passes, its timers fire, and a chunk that was received is dealt with.
FairSpec == Spec /\ WF_vars(Tick) /\ WF_vars(Leave) /\ WF_vars(Ping) /\ WF_vars(IdleTimeout)
                 /\ WF_vars(waited = FirstContent /\ Empty)

-------------------------------------------------------------------------------
Stream == sent \o pipe.out

\* An Anthropic stream, as its client accumulates it: message_start once and
\* first; each block is started once, and only then added to, until it is
\* stopped once.
BlocksAreLegal(s) ==
  \A i \in DOMAIN s :
    LET before == SubSeq(s, 1, i - 1) IN
    /\ s[i].type = "message_start" <=> i = 1
    /\ s[i].type = "start" => s[i].block \notin Started(before)
    /\ s[i].type \in {"delta", "stop"} => s[i].block \in Open(before)

\* Whatever is withheld, redacted, given up on or cut off, the client can
\* accumulate the blocks it is sent.
BlocksStayLegal == BlocksAreLegal(Stream)

Whole(s) ==
  /\ BlocksAreLegal(s) /\ Open(s) = {} /\ "error" \notin Types(s)
  /\ Count(s, "message_delta") = 1 /\ Count(s, "message_stop") = 1

\* mod.rs:13: a stream that was opened and closed ends with one message_stop; one
\* that was whole when it came is whole when it leaves.
StreamsEndOnce ==
  at = "done" => /\ Count(sent, "message_stop") = 1
                 /\ Whole(fed) => Whole(sent)

\* What the client is to see: all but the thinking it did not ask for.
Hidden(shown, f) == IF shown THEN {} ELSE {b \in Started(f) : KindOf(f, b) = "thinking"}
Visible(hidden, e) ==
  \/ e.type = "message_start"
  \/ e.type \in {"start", "delta", "stop"} /\ e.block \notin hidden
\* The events of s that it sees, in their order.
Seen(s, hidden) ==
  LET seen[n \in 0..Len(s)] ==
        IF n = 0 THEN <<>>
        ELSE IF Visible(hidden, s[n]) THEN Append(seen[n - 1], s[n]) ELSE seen[n - 1]
  IN  seen[Len(s)]

\* mod.rs:6 and :10: holding events back at the gate, and withholding one block
\* while others go on, loses and reorders nothing else.
ContentSurvives ==
  pipe.committed => Seen(Stream, Hidden(show, fed)) = Seen(fed, Hidden(show, fed))

\* mod.rs:10: hidden thinking is redacted, with its signature if it has one; the
\* only block that is shown is one that outgrew the cap.
ThinkingStaysHidden ==
  ~show => \A i \in DOMAIN Stream : LET e == Stream[i] IN
    /\ e.kind \in {"thinking", "signature"} => Cardinality(Deltas(fed, e.block)) > ThinkingCap
    /\ e.kind \in {"redacted", "unsigned"} =>
         (e.kind = "redacted" <=> \E j \in Deltas(fed, e.block) : fed[j].kind = "signature")

\* settings.rs:128: whatever the upstream drips, an attempt leaves the gate.
GateIsLeft == (at = "gate") ~> (at # "gate")

\* settings.rs:130: when the upstream hangs, sending nothing ever again, the stream
\* ends, though pings go out, as long as the client reads.
Heard == Drip \/ \E e \in Input : Feed(e)
HungStreamEnds ==
  <>[][~Heard]_vars => ((at = "streaming") ~> (at # "streaming" \/ stalled))

\* What the client is sent is a legal stream, whatever is cut off and wherever.
ClientStreamIsLegal == TypeOK /\ BlocksStayLegal /\ StreamsEndOnce

\* No wait of the pipeline outlasts its timeout.
WaitsEnd == GateIsLeft /\ HungStreamEnds

\* What the comments promise, and the code does not keep.
\*
\* mod.rs:539: the replay is a complete, empty, legal message.
ReplayIsAMessage == (at = "empty" /\ sent # <<>>) => Whole(sent)

\* mod.rs:13: a missing end is supplied, so that no block is left hanging.
NoBlockHangs == at = "done" => Open(sent) = {}

\* streaming.rs:685: the error event is the last of its stream, so that a failure
\* is not disguised as a complete message.
ErrorsAreFinal == "error" \in Types(sent) => "message_stop" \notin Types(sent)
===============================================================================
