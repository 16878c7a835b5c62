------------------------------ MODULE GeminiStream ------------------------------
(***************************************************************************)
(* streaming_gemini.rs: the chunks of streamGenerateContent as the events  *)
(* of an Anthropic message.  A chunk repeats all that was said so far, or  *)
(* only adds to it; the converter tells which by comparing the texts.  The *)
(* thinking and the text have one block each for the whole stream, the     *)
(* tool calls are collected and sent at its end, and the end is the same   *)
(* whether the upstream finished or broke off.                             *)
(*                                                                         *)
(* A text is a sequence of letters.  Signatures, usage and the shadow      *)
(* store, of which the gateway passes none, are left out.                  *)
(***************************************************************************)
EXTENDS Converter

CONSTANTS
  Letter,   \* what texts are made of
  MaxAdded  \* bound on the letters an adding chunk brings

GeminiAssumption == MaxAdded \in Nat

VARIABLES
  conv,  \* the locals of the generator
  told   \* the upstream: whether its chunks repeat, all it said, and what of it
         \* the converter could not make out

vars == <<conv, told, shared>>

\* A call comes with an id of its own or without.
Call == [tool: Tool, own: BOOLEAN]
NewConv == [begun |-> FALSE, next |-> 0, open |-> {}, calls |-> <<>>, blocked |-> FALSE,
            said |-> [s \in {"thinking", "text"} |-> <<>>],
            index |-> [s \in {"thinking", "text"} |-> None]]
Silence == [thinking |-> <<>>, text |-> <<>>, calls |-> <<>>, blocked |-> FALSE]

TypeOK ==
  /\ SharedOK
  /\ conv \in [begun: BOOLEAN, next: Nat, open: SUBSET Block, calls: Seq(Call),
               blocked: BOOLEAN, said: [{"thinking", "text"} -> Seq(Letter)],
               index: [{"thinking", "text"} -> Block \cup {None}]]
  /\ conv.open \subseteq {conv.index["thinking"], conv.index["text"]}
  /\ told.repeats \in BOOLEAN /\ told.lost \subseteq Source

Init == SharedInit /\ conv = NewConv
          /\ told \in {[repeats |-> r, all |-> Silence, lost |-> {}] : r \in BOOLEAN}

-------------------------------------------------------------------------------
Put(s, events) == [s EXCEPT !.out = @ \o events]

Begun(s) ==
  IF s.conv.begun THEN s ELSE Put([s EXCEPT !.conv.begun = TRUE], <<Plain("message_start")>>)

\* The block of a source is given its index, and opened when it is not open.
Opened(s, source) ==
  LET known == s.conv.index[source] # None
      index == IF known THEN s.conv.index[source] ELSE s.conv.next
      noted == [s EXCEPT !.conv.index[source] = index,
                         !.conv.next = IF known THEN @ ELSE @ + 1,
                         !.conv.open = @ \cup {index}]
  IN  IF index \in s.conv.open THEN s ELSE Put(noted, <<Start(index, source)>>)

Closed(s, source) ==
  LET index == s.conv.index[source]
  IN  IF index \notin s.conv.open THEN s
      ELSE Put([s EXCEPT !.conv.open = @ \ {index}], <<Stop(index)>>)

OnText_AlwaysAdds(s, source, text) ==
  LET opened == Opened(s, source)
  IN  IF text = <<>> THEN s
      ELSE Put([opened EXCEPT !.conv.said[source] = @ \o text],
               <<Delta(opened.conv.index[source], source, Len(text))>>)
\* A text that begins with all that was said repeats it; any other adds to it.
OnText(s, source, text) ==
  LET said == s.conv.said[source]
      repeats == IsPrefix(said, text)
      added == IF repeats THEN Len(text) - Len(said) ELSE Len(text)
      opened == Opened(s, source)
  IN  IF added = 0 THEN s
      ELSE Put([opened EXCEPT !.conv.said[source] = IF repeats THEN text ELSE @ \o text],
               <<Delta(opened.conv.index[source], source, added)>>)

\* The entry that an incoming call is the same call as: by its own id, else by
\* its position, when the entry there has no id of its own.
Same(calls, call) ==
  {i \in DOMAIN calls : call.own /\ calls[i] = call}

MergeCall(calls, position, call) ==
  LET same == Same(calls, call)
  IN  CASE same # {} -> [calls EXCEPT ![Min(same)] = call]
        [] same = {} /\ position \in DOMAIN calls /\ ~calls[position].own ->
             [calls EXCEPT ![position] = call]
        [] OTHER -> Append(calls, call)

MergeCalls(calls, incoming) ==
  FoldLeftDomain(LAMBDA merged, i : MergeCall(merged, i, incoming[i]), calls, incoming)

OnChunk(s, chunk) ==
  LET begun == [Begun(s) EXCEPT !.conv.blocked = @ \/ chunk.blocked]
      thought == IF chunk.thinking = <<>> THEN begun ELSE OnText(begun, "thinking", chunk.thinking)
      closed == IF chunk.text = <<>> THEN thought ELSE Closed(thought, "thinking")
      merged == [closed EXCEPT !.conv.calls = MergeCalls(@, chunk.calls)]
  IN  IF chunk.text = <<>> THEN merged ELSE OnText(merged, "text", chunk.text)

ToolBlocks(first, calls) ==
  FlattenSeq([i \in DOMAIN calls |->
    <<Start(first + i - 1, calls[i].tool), Delta(first + i - 1, calls[i].tool, 1),
      Stop(first + i - 1)>>])

OnEnd_Unclosed(s) ==
  Put(Begun(s), ToolBlocks(s.conv.next, s.conv.calls)
                  \o <<Plain("message_delta"), Plain("message_stop")>>)
\* The end: a refused prompt gets a text that says so; the text, the thinking
\* and the calls, in this order, and the end of the message.
OnEnd(s) ==
  LET begun == Begun(s)
      spoken == IF s.conv.blocked /\ s.conv.said["text"] = <<>>
                THEN LET o == Opened(begun, "text")
                     IN  Put(o, <<Delta(o.conv.index["text"], "text", 1)>>)
                ELSE begun
      closed == Closed(Closed(spoken, "text"), "thinking")
  IN  Put([closed EXCEPT !.conv.calls = <<>>, !.conv.next = @ + Len(s.conv.calls)],
          ToolBlocks(closed.conv.next, s.conv.calls)
            \o <<Plain("message_delta"), Plain("message_stop")>>)

-------------------------------------------------------------------------------
\* What the upstream says next: letters, a call, an id for a call that had
\* none, or that the prompt is refused.
Words == UNION {[1..n -> Letter] : n \in 0..MaxAdded}
Addition == {[Silence EXCEPT !.text = w] : w \in Words}
              \cup {[Silence EXCEPT !.thinking = w] : w \in Words}
              \cup {[Silence EXCEPT !.calls = <<c>>] : c \in Call}
              \cup {[Silence EXCEPT !.blocked = TRUE]}
Joined(all, a) ==
  [thinking |-> all.thinking \o a.thinking, text |-> all.text \o a.text,
   calls |-> all.calls \o a.calls, blocked |-> all.blocked \/ a.blocked]
Upgraded(all) ==
  {[all EXCEPT !.calls[i].own = TRUE] : i \in {j \in DOMAIN all.calls : ~all.calls[j].own}}

Told(all, tool) == \E i \in DOMAIN all.calls : all.calls[i].tool = tool

\* Three things that Gemini may send, and that the converter gets wrong.  A thought that
\* goes on after the text opens the thinking block again, which was closed.
Reopens(a) == a.thinking # <<>> /\ told.all.thinking # <<>> /\ told.all.text # <<>>

\* A piece that adds, but begins with all that was said, is taken for a repetition, and
\* letters of it are lost.
Resembles(a) ==
  {s \in {"thinking", "text"} :
     ~told.repeats /\ a[s] # <<>> /\ told.all[s] # <<>> /\ IsPrefix(conv.said[s], a[s])}

\* A call in a chunk that adds stands in its first place, and takes the place of the
\* first call that came, if that one has no id: that call is lost.
Overwrites(a) ==
  {conv.calls[i].tool : i \in {i \in DOMAIN conv.calls \cap DOMAIN a.calls :
                                 ~told.repeats /\ ~conv.calls[i].own}}

Hear(all, chunk, lost, reopens) ==
  /\ Reads
  /\ LET s == OnChunk([conv |-> conv, out |-> <<>>], chunk)
     IN  /\ s.conv.next + Len(s.conv.calls) + 1 <= Cardinality(Block)
         /\ conv' = s.conv /\ out' = s.out
  /\ told' = [told EXCEPT !.all = all, !.lost = @ \cup lost]
  /\ unhandled' = (unhandled \/ reopens)
  /\ sent' = [s \in Source |->
                CASE s \in {"thinking", "text"} -> Len(all[s])
                  [] OTHER -> IF Told(all, s) THEN 1 ELSE 0]
  /\ UNCHANGED <<client, at>>

TakeChunk ==
  \/ \E a \in Addition :
       /\ \A i \in DOMAIN a.calls : ~Told(told.all, a.calls[i].tool)
       /\ LET all == Joined(told.all, a)
          IN  Hear(all, IF told.repeats THEN all ELSE a, Resembles(a) \cup Overwrites(a),
                   Reopens(a))
  \/ /\ told.repeats
     /\ \E all \in Upgraded(told.all) : Hear(all, all, {}, FALSE)

\* The end of the body, which the generator takes for the end of the message;
\* that a prompt was refused counts as a piece of text.
EndOfStream ==
  /\ Polls /\ at' = "ended"
  /\ LET s == OnEnd([conv |-> conv, out |-> <<>>]) IN conv' = s.conv /\ out' = s.out
  /\ sent' = IF conv.blocked /\ sent["text"] = 0 THEN [sent EXCEPT !["text"] = 1] ELSE sent
  /\ UNCHANGED <<told, client, inputs, unhandled>>

\* An error within the stream is an event; one of the connection is passed on
\* as such, and becomes an event in the pipeline.
TakeError ==
  /\ Polls /\ at' = "ended" /\ out' = <<Plain("error")>>
  /\ UNCHANGED <<conv, told, client, sent, inputs, unhandled>>

Yield == YieldEvent /\ UNCHANGED <<conv, told>>

Next == TakeChunk \/ EndOfStream \/ TakeError \/ Yield

-------------------------------------------------------------------------------
\* Every letter and every call reaches the client in the block of its source, and
\* once, whether the chunks repeat or add; the calls wait for the end.  Of a source of
\* which a piece Resembles or Overwrites another, something is lost, but nothing is
\* doubled, and the other sources are not touched by it.
Reaching(s) == Delivered(s) + Cardinality({i \in DOMAIN conv.calls : conv.calls[i].tool = s})
Conserved ==
  out = <<>> => \A s \in Source :
    Reaching(s) <= sent[s] /\ (s \in told.lost \/ Reaching(s) = sent[s])

\* Unless there was an error the body's end is the end of a whole message, and
\* no block is left open in it.
EndsProperly ==
  Settled /\ client.errors = 0 =>
    /\ client.starts = 1 /\ client.deltas = 1 /\ client.stops = 1
    /\ conv.open = {}

-------------------------------------------------------------------------------
\* What the comments promise, and the code does not keep.

\* The thinking and the text are gathered each on its own, from chunks that repeat or
\* that add (streaming_gemini.rs:401, :407 and :471), and parallel calls without ids stay
\* distinguishable (:132): nothing is lost.
NothingIsLost == out = <<>> => \A s \in Source : Reaching(s) = sent[s]
================================================================================
