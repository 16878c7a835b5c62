----------------------------- MODULE ResponsesStream -----------------------------
(***************************************************************************)
(* streaming_responses.rs: the events of a Responses API stream as those   *)
(* of an Anthropic message.  An output item is a message, whose text is    *)
(* sent as it comes and completed from what the end tells, a function      *)
(* call, or the reasoning.  Compatible upstreams leave out events, item    *)
(* ids or output indices, so that an index is looked up under every name   *)
(* an event has, then under the last one of its kind.                      *)
(*                                                                         *)
(* A message has one part.  The gateway turns the search tool of a request *)
(* into a function before it converts it, and passes no hosted tool's      *)
(* name: hosted searches, their citations and the order of their results   *)
(* cannot occur and are left out, as is a body that is one JSON document.  *)
(***************************************************************************)
EXTENDS Converter

CONSTANTS
  Part,    \* messages of the upstream
  Letter,  \* what texts are made of
  MaxTold  \* bound on the letters that only the end of an item tells

ResponsesAssumption ==
  /\ Part \cap (Tool \cup {"reasoning", None}) = {} /\ "reasoning" \notin Tool
  /\ Part # {} /\ MaxTold \in Nat

T == INSTANCE StreamedText

VARIABLES
  conv,  \* the locals of the generator
  told   \* the upstream: how it names things, what it said so far, and of which of it
         \* the converter could not tell what it belongs to

vars == <<conv, told, shared>>

Item == Part \cup Tool \cup {"reasoning"}
NoCall == [known |-> FALSE, read |-> FALSE, args |-> 0, streamed |-> FALSE]

\* indexOf is index_by_key, byId the two maps by item id, call and thought what
\* is kept of the open calls and reasoning by their index.
NewConv ==
  [begun |-> FALSE, next |-> 0, open |-> {}, current |-> None, fallback |-> None,
   indexOf |-> [k \in T!How \X Item |-> None], byId |-> [i \in Item |-> None],
   text |-> T!NewText, call |-> [b \in Block |-> NoCall], lastTool |-> None,
   thought |-> [b \in Block |-> None], legacy |-> None,
   substantive |-> FALSE, terminated |-> FALSE]

\* How the deltas and the ends of items are named: not at all, by their place,
\* by their id or by both; mixed, by one or the other, in a stream of texts alone.
\* The end has at least the names of the deltas; bound: after deltas without any
\* name it has none or the place.
Naming == {n \in [delta: SUBSET T!How, done: SUBSET T!How, mixed: BOOLEAN] :
             /\ n.delta \subseteq n.done /\ n.done # {"item"}
             /\ n.delta = {} => n.done # T!How
             /\ n.mixed => n.delta = T!How}

NewTold(naming) ==
  [by |-> naming, seen |-> <<>>, now |-> None, stage |-> 0,
   text |-> [p \in Part |-> <<>>], args |-> [t \in Tool |-> 0], thought |-> 0, lost |-> {}]

TypeOK ==
  /\ SharedOK
  /\ conv.begun \in BOOLEAN /\ conv.next \in Nat /\ conv.open \subseteq Block
  /\ {conv.current, conv.fallback, conv.lastTool, conv.legacy} \subseteq Block \cup {None}
  /\ T!IsText(conv.text)
  /\ conv.indexOf \in [T!How \X Item -> Block \cup {None}]
  /\ conv.byId \in [Item -> Block \cup {None}]
  /\ conv.thought \in [Block -> Nat \cup {None}]
  /\ \A b \in conv.open : b < conv.next
  /\ conv.current # None => conv.current < conv.next
  /\ told.seen \in Seq(Item) /\ told.stage \in 0..5 /\ told.lost \subseteq Source

Init == SharedInit /\ conv = NewConv /\ told \in {NewTold(n) : n \in Naming}

-------------------------------------------------------------------------------
Put(s, events) == [s EXCEPT !.out = @ \o events]

Begun(s) ==
  IF s.conv.begun THEN s ELSE Put([s EXCEPT !.conv.begun = TRUE], <<Plain("message_start")>>)

Opened(s, index, source) ==
  IF index \in s.conv.open THEN s
  ELSE Put([s EXCEPT !.conv.open = @ \cup {index}], <<Start(index, source)>>)

Closed(s, index) ==
  IF index \notin s.conv.open THEN s
  ELSE Put([s EXCEPT !.conv.open = @ \ {index}], <<Stop(index)>>)

CloseText_KeepsFallback(s) ==
  [Closed(s, s.conv.current) EXCEPT !.conv.current = None]
\* The current text is over.
CloseText(s) ==
  [Closed(s, s.conv.current) EXCEPT
     !.conv.current = None,
     !.conv.fallback = IF @ = s.conv.current THEN None ELSE @]

Fresh_Reuses(s) == [s EXCEPT !.conv.begun = TRUE]
Fresh(s) == [s EXCEPT !.conv.next = @ + 1]

\* content_part_key(), tool_item_key_from_event(), reasoning_item_key(): the id
\* before the place.
KeyOf(n) == CASE "item" \in n.by -> <<"item", n.part>>
              [] "item" \notin n.by /\ "out" \in n.by -> <<"out", n.part>>
              [] OTHER -> None
IndexOfKey(s, n) == IF KeyOf(n) = None THEN None ELSE s.conv.indexOf[KeyOf(n)]
IndexOfId(s, n) == IF "item" \in n.by THEN s.conv.byId[n.part] ELSE None

FirstOf(a, b) == IF a # None THEN a ELSE b

\* resolve_content_index(): the index of a part, remembered under its key, or
\* as the one of a part without a key.
ContentIndex(s, n) ==
  LET found == FirstOf(s.conv.current,
                       IF KeyOf(n) = None THEN s.conv.fallback ELSE IndexOfKey(s, n))
      given == Fresh(s)
  IN  CASE found # None -> [s EXCEPT !.conv.current = found]
        [] found = None /\ KeyOf(n) # None ->
             [given EXCEPT !.conv.indexOf[KeyOf(n)] = s.conv.next, !.conv.current = s.conv.next]
        [] OTHER -> [given EXCEPT !.conv.fallback = s.conv.next, !.conv.current = s.conv.next]

OnPartAdded(s, n) ==
  LET placed == ContentIndex(Begun(s), n) IN Opened(placed, placed.conv.current, "text")

\* A piece of text or of a refusal.
OnTextDelta(s, n, letters) ==
  LET noted == [Begun(s) EXCEPT !.conv.substantive = TRUE,
                                !.conv.text = T!RecordDelta(@, n, letters)]
      placed == ContentIndex(noted, n)
  IN  Put(Opened(placed, placed.conv.current, "text"),
          <<Delta(placed.conv.current, "text", Len(letters))>>)

OnPartDone(s, n) == [s EXCEPT !.conv.text = T!FinishPart(@, n)]
OnTextDone(s, n) == CloseText(OnPartDone(s, n))
\* The end of a refusal closes the part it names if there is no current one.
OnRefusalDone(s, n) ==
  LET finished == OnPartDone(s, n)
      named == IF KeyOf(n) = None THEN s.conv.fallback ELSE IndexOfKey(s, n)
      index == FirstOf(s.conv.current, named)
      dropped == [finished EXCEPT !.conv.current = None]
  IN  IF index \in s.conv.open
      THEN [Closed(dropped, index) EXCEPT !.conv.fallback = IF @ = index THEN None ELSE @]
      ELSE dropped

TextBlock(s, letters) ==
  LET index == s.conv.next
  IN  Put(Fresh(s), <<Start(index, "text"), Delta(index, "text", Len(letters)), Stop(index)>>)

\* What of a complete text was not sent yet goes into a block of its own.
OnMessageTold(s, n, full) ==
  LET found == T!MissingSuffix(s.conv.text, n, full)
      noted == [s EXCEPT !.conv.text = found.text]
  IN  IF found.missing = <<>> THEN noted
      ELSE TextBlock(CloseText(Begun([noted EXCEPT !.conv.substantive = TRUE])), found.missing)

-------------------------------------------------------------------------------
OnCallAdded(s, n, read) ==
  LET begun == Begun(CloseText([s EXCEPT !.conv.substantive = TRUE]))
      found == IndexOfKey(begun, n)
      index == FirstOf(found, begun.conv.next)
      given == IF found = None THEN Fresh(begun) ELSE begun
      noted == [given EXCEPT
                  !.conv.indexOf = IF KeyOf(n) = None THEN @ ELSE [@ EXCEPT ![KeyOf(n)] = index],
                  !.conv.byId[n.part] = IF "item" \in n.by THEN index ELSE @,
                  !.conv.lastTool = index,
                  !.conv.call[index] = [@ EXCEPT !.known = TRUE, !.read = read,
                                                 !.args = IF index \in given.conv.open THEN @ ELSE 0]]
  IN  Opened(noted, index, n.part)

CallIndex(s, n) == FirstOf(FirstOf(IndexOfId(s, n), IndexOfKey(s, n)), s.conv.lastTool)

\* The arguments of "Read" are kept until they are complete.
OnArgs(s, n) ==
  LET begun == Begun([s EXCEPT !.conv.substantive = TRUE])
      found == CallIndex(begun, n)
      index == FirstOf(found, begun.conv.next)
      given == IF found = None THEN Fresh(begun) ELSE begun
      opened == Opened([given EXCEPT !.conv.byId[n.part] = IF "item" \in n.by THEN index ELSE @,
                                     !.conv.lastTool = index,
                                     !.conv.call[index] = [@ EXCEPT !.known = TRUE]],
                       index, n.part)
      noted == [opened EXCEPT !.conv.call[index].args = @ + 1,
                              !.conv.call[index].streamed = TRUE]
  IN  IF noted.conv.call[index].read THEN noted ELSE Put(noted, <<Delta(index, n.part, 1)>>)

OnCallDone_Always(s, n, all) ==
  LET index == CallIndex(s, n)
  IN  IF index \notin s.conv.open THEN s
      ELSE Closed(Put(s, IF all > 0 THEN <<Delta(index, n.part, all)>> ELSE <<>>), index)
\* function_call_arguments.done, and output_item.done of a call: arguments that
\* were not streamed, or not passed on, are sent whole, and the block is closed.
OnCallDone(s, n, all) ==
  LET index == CallIndex(s, n)
      call == s.conv.call[index]
      whole == IF call.read \/ ~call.streamed THEN Max({all, call.args}) ELSE 0
      passed == IF whole > 0 THEN Put(s, <<Delta(index, n.part, whole)>>) ELSE s
  IN  IF index \notin s.conv.open THEN s
      ELSE [Closed(passed, index) EXCEPT
              !.conv.byId[n.part] = IF "item" \in n.by THEN None ELSE @,
              !.conv.call[index] = NoCall]

-------------------------------------------------------------------------------
ReasoningIndex(s, n) ==
  FirstOf(FirstOf(IndexOfId(s, n), IndexOfKey(s, n)),
          IF n.by = {} THEN s.conv.legacy ELSE None)

\* The item is only given an index: its block starts with its first text.
OnReasoningAdded(s, n) ==
  LET begun == Begun(s)
      found == IndexOfKey(begun, n)
      index == FirstOf(found, begun.conv.next)
      given == IF found = None THEN Fresh(begun) ELSE begun
  IN  [given EXCEPT
         !.conv.indexOf = IF KeyOf(n) = None THEN @ ELSE [@ EXCEPT ![KeyOf(n)] = index],
         !.conv.byId[n.part] = IF "item" \in n.by THEN index ELSE @,
         !.conv.thought[index] = IF @ = None THEN 0 ELSE @]

Thought(s, index) == IF s.conv.thought[index] = None THEN 0 ELSE s.conv.thought[index]

Think(s, index, n) ==
  Put([Opened(s, index, "thinking") EXCEPT !.conv.thought[index] = Thought(s, index) + n],
      <<Delta(index, "thinking", n)>>)

OnReasoningDelta(s, n) ==
  LET closed == CloseText(Begun([s EXCEPT !.conv.substantive = TRUE]))
      found == ReasoningIndex(closed, n)
      index == FirstOf(found, closed.conv.next)
      given == [Fresh(closed) EXCEPT
                  !.conv.indexOf = IF KeyOf(n) = None THEN @ ELSE [@ EXCEPT ![KeyOf(n)] = index],
                  !.conv.byId[n.part] = IF "item" \in n.by THEN index ELSE @,
                  !.conv.legacy = IF n.by = {} THEN index ELSE @]
  IN  Think(IF found = None THEN given ELSE closed, index, 1)

\* Text told at the end counts only if none was streamed.
OnReasoningTextDone(s, n, all) ==
  LET index == ReasoningIndex(s, n)
  IN  IF index # None /\ all > 0 THEN IF Thought(s, index) = 0 THEN Think(s, index, all) ELSE s
      ELSE s

\* response.reasoning.done, of upstreams that send no output_item.done.
OnReasoningOver(s, n) ==
  LET index == ReasoningIndex(s, n)
  IN  [Closed(s, index) EXCEPT !.conv.legacy = IF @ = index THEN None ELSE @]

\* The item is complete: its text if there was none, the encrypted reasoning as
\* a signature or, without any text, as a block, and the end of the block.
OnReasoningDone(s, n, all, encrypted) ==
  LET found == FirstOf(IndexOfId(s, n), IndexOfKey(s, n))
      index == FirstOf(found, s.conv.next)
      given == IF found = None THEN Fresh(s) ELSE s
      spoken == IF all > 0 /\ Thought(given, index) = 0 THEN Think(given, index, all) ELSE given
      sealed == IF encrypted THEN Opened(spoken, index, "thinking") ELSE spoken
  IN  [Closed(sealed, index) EXCEPT !.conv.byId[n.part] = IF "item" \in n.by THEN None ELSE @,
                                    !.conv.thought[index] = None]

-------------------------------------------------------------------------------
ClosedAll(s) ==
  LET open == SetToSortSeq(s.conv.open, <)
  IN  Put([s EXCEPT !.conv.open = {}], [i \in DOMAIN open |-> Stop(open[i])])

Over(s) == Put(s, <<Plain("message_delta"), Plain("message_stop")>>)

\* response.completed and response.incomplete: what the texts of the output add,
\* the end of every open block, and of the message.
OnCompleted(s, names, full) ==
  LET spoken == FoldLeft(LAMBDA u, n : OnMessageTold(u, n, full[n.part]), Begun(s), names)
  IN  [Over(ClosedAll(spoken)) EXCEPT !.conv.fallback = None, !.conv.terminated = TRUE]

OnFailed(s) == Put([s EXCEPT !.conv.terminated = TRUE], <<Plain("error")>>)

OnEnd_Complete(s) == IF s.conv.terminated THEN s ELSE Over(Begun(ClosedAll(s)))
\* The body ended without a terminal event: a text alone is passed for one that
\* ran out of tokens, a call or reasoning that is not complete is an error.
OnEnd(s) ==
  LET incomplete == {b \in s.conv.open : s.conv.call[b].known \/ s.conv.thought[b] # None
                                           \/ s.conv.legacy = b}
  IN  CASE s.conv.terminated -> s
        [] ~s.conv.terminated /\ s.conv.substantive /\ incomplete = {} ->
             Over(Begun(ClosedAll(s)))
        [] OTHER -> Put(s, <<Plain("error")>>)
-------------------------------------------------------------------------------
\* The upstream sends one item after the other, each in this order, and leaves
\* out what it likes: 1 added, 2 deltas, 3 the end of the text or arguments,
\* 4 the end of the part, 5 the item is done; reasoning ends with 4 or 5.
May(i, stage) ==
  /\ told.by.mixed => i \in Part
  /\ IF told.now = i THEN told.stage < stage \/ (told.stage = 2 /\ stage = 2)
     ELSE i \notin Range(told.seen)

Going(i, stage) ==
  [told EXCEPT !.now = i, !.stage = stage, !.seen = IF told.now = i THEN @ ELSE Append(@, i)]

ByDelta(i) == [part |-> i, by |-> told.by.delta]
TextNames(p) == IF told.by.mixed THEN {[part |-> p, by |-> {h}] : h \in T!How} ELSE {ByDelta(p)}
ByDone(i) == [part |-> i, by |-> told.by.done]

State == [conv |-> conv, out |-> <<>>]
SentOf(t) ==
  [s \in Source |-> CASE s = "text" -> MapThenSumSet(LAMBDA p : Len(t.text[p]), Part)
                      [] s = "thinking" -> t.thought
                      [] s = "search" -> 0
                      [] OTHER -> t.args[s]]

\* One event: what the converter makes of it, what the upstream has now said, and
\* the sources that the converter cannot tell it belongs to.  But for a call that is
\* cut short by the end of the response, it is an event without the names that the
\* protocol has, or one that its own item has not announced.
Takes(s, t, lost, announced) ==
  /\ Reads /\ ~conv.terminated
  /\ s.conv.next < Cardinality(Block)
  /\ conv' = s.conv /\ out' = s.out /\ sent' = SentOf(t)
  /\ told' = [t EXCEPT !.lost = @ \cup lost]
  /\ unhandled' = (unhandled \/ ~announced)
  /\ UNCHANGED <<client, at>>
Take(s, t, lost) == Takes(s, t, lost, TRUE)
If(cond, sources) == {s \in sources : cond}

TakeCreated ==
  /\ inputs = 0
  /\ Take(Put([State EXCEPT !.conv.begun = TRUE], <<Plain("message_start")>>), told, {})

Suffix == UNION {[1..n -> Letter] : n \in 0..MaxTold}

TakeText == \E p \in Part : \E n \in TextNames(p) :
  \/ May(p, 1) /\ Take(OnPartAdded(State, n), Going(p, 1), {})
  \/ \E a \in Letter :
       /\ May(p, 2)
       /\ Take(OnTextDelta(State, n, <<a>>),
               [Going(p, 2) EXCEPT !.text[p] = Append(@, a)], {})
  \/ May(p, 3) /\ Take(OnTextDone(State, n), Going(p, 3), {})
  \/ May(p, 3) /\ Take(OnRefusalDone(State, n), Going(p, 3), {})
  \/ May(p, 4) /\ Take(OnPartDone(State, n), Going(p, 4), {})
  \/ \E more \in Suffix :
       /\ May(p, 5)
       /\ Take(OnMessageTold(State, ByDone(p), told.text[p] \o more),
               [Going(p, 5) EXCEPT !.text[p] = @ \o more],
               If((told.by.delta = {} /\ more # <<>>) \/ told.by.done = {}, {"text"}))

Amounts(n) == {0, IF n = 0 THEN 1 ELSE n}

TakeCall == \E t \in Tool :
  \/ \E read \in BOOLEAN :
       May(t, 1) /\ Take(OnCallAdded(State, ByDelta(t), read), Going(t, 1), {})
  \/ /\ May(t, 2)
     /\ LET announced == told.now = t \/ conv.lastTool = None
        IN  Takes(OnArgs(State, ByDelta(t)), [Going(t, 2) EXCEPT !.args[t] = @ + 1],
                  If(~announced, Tool), announced)
  \/ \E stage \in {3, 5}, all \in Amounts(told.args[t]) :
       /\ May(t, stage) /\ told.now = t
       /\ Take(OnCallDone(State, ByDelta(t), all),
               [Going(t, stage) EXCEPT !.args[t] = IF stage = 3 \/ told.stage < 3
                                                   THEN Max({@, all}) ELSE @], {})

TakeReasoning ==
  LET r == "reasoning"
      n == ByDelta(r)
      told_(stage, all) == [Going(r, stage) EXCEPT !.thought = Max({@, all})]
  IN  \/ May(r, 1) /\ Take(OnReasoningAdded(State, n), Going(r, 1), {})
      \/ May(r, 2) /\ Take(OnReasoningDelta(State, n),
                           [Going(r, 2) EXCEPT !.thought = @ + 1], {})
      \/ \E all \in Amounts(told.thought) :
           /\ May(r, 3) /\ told.now = r
           /\ Take(OnReasoningTextDone(State, n, all), told_(3, all),
                   If(n.by = {} /\ told.thought = 0, {"thinking"}))
      \/ May(r, 4) /\ told.now = r /\ Take(OnReasoningOver(State, n), Going(r, 4), {})
      \/ \E all \in Amounts(told.thought), encrypted \in BOOLEAN :
           /\ May(r, 5) /\ told.now = r /\ told.stage # 4
           /\ Take(OnReasoningDone(State, n, all, encrypted), told_(5, all),
                   If(n.by = {} /\ told.thought > 0, {"thinking"}))

\* The open calls whose arguments are kept: the end of the message loses them.
CutShort ==
  {client.block[b].source : b \in {b \in conv.open : conv.call[b].read /\ conv.call[b].args > 0}}

\* The output of the terminal event has every message, or is not there at all.
TakeTerminal ==
  \/ \E whole \in BOOLEAN, more \in Suffix :
       LET parts == SelectSeq(told.seen, LAMBDA i : i \in Part)
           by == {"out"} \cup (told.by.done \cap {"item"})
           adds == whole /\ told.now \in Part /\ told.stage < 5
           t == IF adds THEN [told EXCEPT !.text[told.now] = @ \o more] ELSE told
       IN  /\ adds \/ more = <<>>
           /\ Take(OnCompleted(State,
                               IF whole THEN [i \in DOMAIN parts |-> [part |-> parts[i], by |-> by]]
                               ELSE <<>>, t.text),
                   t, If(told.by.delta = {} /\ (more # <<>> \/ Len(parts) > 1), {"text"})
                        \cup CutShort)
  \/ Take(OnFailed(State), told, {})

\* Nothing more is read; an error of the connection is told even after the end.
EndOfStream ==
  /\ Polls /\ at' = "ended"
  /\ LET s == OnEnd(State) IN conv' = s.conv /\ out' = s.out
  /\ UNCHANGED <<told, client, sent, inputs, unhandled>>

TakeError ==
  /\ Polls /\ at' = "ended" /\ out' = <<Plain("error")>>
  /\ UNCHANGED <<conv, told, client, sent, inputs, unhandled>>

Yield == YieldEvent /\ UNCHANGED <<conv, told>>

Next == TakeCreated \/ TakeText \/ TakeCall \/ TakeReasoning \/ TakeTerminal
          \/ EndOfStream \/ TakeError \/ Yield

-------------------------------------------------------------------------------
\* What was not passed on of the arguments of an open "Read".
Kept(t) ==
  MapThenSumSet(LAMBDA b : IF client.block[b].source = t /\ conv.call[b].read
                           THEN conv.call[b].args ELSE 0, conv.open)

\* Every letter, every thought and every argument the upstream told, in deltas
\* or only at the end of an item, is sent once, but of a source with an event that
\* the converter could not place.
Conserved ==
  out = <<>> /\ client.errors = 0 =>
    \A s \in Source \ told.lost :
      sent[s] = Delivered(s) + (IF s \in Tool THEN Kept(s) ELSE 0)

\* A stream that has ended without an error is a complete message, and no call
\* that the upstream was making is passed for a complete one in it, unless the
\* upstream itself said that the response was over.
EndsProperly ==
  Settled /\ client.errors = 0 =>
    /\ client.starts = 1 /\ client.deltas = 1 /\ client.stops = 1
    /\ conv.open = {}
    /\ told.now \in Tool /\ told.stage < 3 => conv.terminated
================================================================================
