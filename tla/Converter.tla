------------------------------- MODULE Converter -------------------------------
(***************************************************************************)
(* What the stream converters of ufp-convert have in common.  Each is a    *)
(* generator: it takes an event of the upstream only when all it has to    *)
(* say of the one before is yielded, and every yield is a suspension.  An  *)
(* event is its type, the index of its block, where its content came from  *)
(* (the text, the thinking or a tool call of the upstream, or a search of  *)
(* the gateway) and how much of it there is; ids, names, usage and wording *)
(* are left out.                                                           *)
(***************************************************************************)
EXTENDS Integers, Sequences, SequencesExt, FiniteSetsExt

CONSTANTS
  Block,     \* indices of content blocks, 0..n: bound on the blocks of a message
  Tool,      \* tool calls of the upstream
  None,      \* no block, no source
  MaxInputs  \* bound on the events of the upstream

ASSUME ConverterAssumption ==
  /\ IsFiniteSet(Block) /\ Block = 0..(Cardinality(Block) - 1)
  /\ None \notin Block /\ None \notin Tool \cup {"text", "thinking", "search"}
  /\ Tool \cap {"text", "thinking", "search"} = {}
  /\ MaxInputs \in Nat

VARIABLES
  out,     \* events the converter has yet to yield
  client,  \* what the receiver of the stream has been sent
  sent,    \* history: what the upstream sent of each source
  inputs,  \* events the upstream sent
  at,      \* "open", or "ended": the generator returns once out is empty
  unhandled \* history: the events came in an order that the code has no answer to;
            \* the module says which, and whether the upstream may send it so

shared == <<out, client, sent, inputs, at, unhandled>>

Source == {"text", "thinking", "search"} \cup Tool
Event == [type: {"message_start", "start", "delta", "stop", "message_delta",
                 "message_stop", "error"},
          block: Block \cup {None}, source: Source \cup {None}, size: Nat]

Plain(type) == [type |-> type, block |-> None, source |-> None, size |-> 0]
Start(b, s) == [type |-> "start", block |-> b, source |-> s, size |-> 0]
Delta(b, s, n) == [type |-> "delta", block |-> b, source |-> s, size |-> n]
Stop(b) == [type |-> "stop", block |-> b, source |-> None, size |-> 0]

NewClient ==
  [starts |-> 0, deltas |-> 0, stops |-> 0, errors |-> 0,
   block |-> [b \in Block |-> [opens |-> 0, closes |-> 0, size |-> 0, source |-> None]]]

\* The receiver notes what comes, legal or not.
Received(c, e) ==
  CASE e.type = "message_start" -> [c EXCEPT !.starts = @ + 1]
    [] e.type = "message_delta" -> [c EXCEPT !.deltas = @ + 1]
    [] e.type = "message_stop" -> [c EXCEPT !.stops = @ + 1]
    [] e.type = "error" -> [c EXCEPT !.errors = @ + 1]
    [] e.type = "start" -> [c EXCEPT !.block[e.block].opens = @ + 1,
                                     !.block[e.block].source = e.source]
    [] e.type = "delta" -> [c EXCEPT !.block[e.block].size = @ + e.size]
    [] e.type = "stop" -> [c EXCEPT !.block[e.block].closes = @ + 1]

SharedOK ==
  /\ out \in Seq(Event)
  /\ client \in [starts: Nat, deltas: Nat, stops: Nat, errors: Nat,
                 block: [Block -> [opens: Nat, closes: Nat, size: Nat,
                                   source: Source \cup {None}]]]
  /\ sent \in [Source -> Nat] /\ inputs \in 0..MaxInputs
  /\ at \in {"open", "ended"} /\ unhandled \in BOOLEAN

SharedInit ==
  /\ out = <<>> /\ client = NewClient /\ sent = [s \in Source |-> 0]
  /\ inputs = 0 /\ at = "open" /\ unhandled = FALSE

\* The generator goes on to the next event of the upstream.
Polls == at = "open" /\ out = <<>>
Reads == Polls /\ inputs < MaxInputs /\ inputs' = inputs + 1

YieldEvent ==
  /\ out # <<>>
  /\ out' = Tail(out) /\ client' = Received(client, Head(out))
  /\ UNCHANGED <<sent, inputs, at, unhandled>>

Settled == at = "ended" /\ out = <<>>

-------------------------------------------------------------------------------
\* What has reached the receiver of a source.
Delivered(s) ==
  MapThenSumSet(LAMBDA b : IF client.block[b].source = s THEN client.block[b].size ELSE 0, Block)

M == INSTANCE Message WITH
  starts <- client.starts, deltas <- client.deltas, stops <- client.stops,
  errors <- client.errors,
  opens <- [b \in Block |-> client.block[b].opens],
  closes <- [b \in Block |-> client.block[b].closes],
  size <- [b \in Block |-> client.block[b].size]

\* What a client receives is one message in the making: blocks are opened once,
\* extended only while they are open, closed once and before the message_delta, and
\* nothing follows the end.  Excepted are the orders that have no answer: of Chat
\* Completions, content or a second end after the finish reason, and of the Responses
\* API, arguments of a call that was not announced, which their protocols rule out;
\* of Gemini, a thought that goes on after the text (GeminiStream, Reopens); and a
\* search called while another tool is (SearchLoop, Overlaps).
LawfulMessage == M!Init /\ [][M!Next \/ unhandled]_(M!vars)

\* What the comments promise, and the code does not keep: the thinking of Gemini is one
\* block of its own (streaming_gemini.rs:275), and the search loop gives every block of
\* the answer an index of its own (search_loop.rs:5), so that no exception is needed.
AlwaysLawful == M!Spec
================================================================================
