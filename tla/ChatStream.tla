------------------------------- MODULE ChatStream -------------------------------
(***************************************************************************)
(* streaming.rs: the chunks of a Chat Completions stream as the events of  *)
(* an Anthropic message.  Text and thinking share one current block; each  *)
(* tool call has a block of its own, opened once its id and its name are   *)
(* known, and all of those stay open until the finish reason.  The         *)
(* message_delta waits for [DONE] or the end of the stream, so that the    *)
(* usage of a later chunk is in it.                                        *)
(*                                                                         *)
(* A chunk carries at most one piece, of thinking or of text, perhaps with *)
(* a finish reason, or of a tool call: several of them in a chunk are      *)
(* handled, in this order, like as many chunks.                            *)
(***************************************************************************)
EXTENDS Converter

CONSTANT WhitespaceLimit \* INFINITE_WHITESPACE_THRESHOLD, in pieces of arguments

ChatAssumption == WhitespaceLimit \in Nat \ {0}

VARIABLE conv \* the locals of the generator

vars == <<conv, shared>>

NoPlain == [index |-> None, source |-> None]
\* struct ToolBlockState; index is None while there is no entry in the map.
NoTool == [index |-> None, id |-> FALSE, name |-> FALSE, started |-> FALSE,
           args |-> 0, white |-> 0, aborted |-> FALSE]
NewConv == [next |-> 0, begun |-> FALSE, finished |-> FALSE, pending |-> FALSE,
            stopped |-> FALSE, plain |-> NoPlain, open |-> {},
            tool |-> [t \in Tool |-> NoTool]]

Call == [tool: Tool, id: BOOLEAN, name: BOOLEAN, args: {"none", "text", "blank"}]
Chunk == [plain: {"thinking", "text"}, finish: BOOLEAN]
           \cup [call: Call, finish: {FALSE}] \cup [finish: BOOLEAN]
\* The source a chunk is about, and whether there is anything of it to deliver.
SourceOf(c) == IF "plain" \in DOMAIN c THEN c.plain ELSE IF "call" \in DOMAIN c THEN c.call.tool
               ELSE None
Carries(c, s) == SourceOf(c) = s /\ ("call" \in DOMAIN c => c.call.args # "none")

TypeOK ==
  /\ SharedOK
  /\ conv \in [next: Nat, begun: BOOLEAN, finished: BOOLEAN, pending: BOOLEAN,
               stopped: BOOLEAN,
               plain: [index: Block \cup {None}, source: {"text", "thinking", None}],
               open: SUBSET Block,
               tool: [Tool -> [index: Block \cup {None}, id: BOOLEAN, name: BOOLEAN,
                               started: BOOLEAN, args: Nat, white: Nat, aborted: BOOLEAN]]]
  /\ conv.open \subseteq {conv.tool[t].index : t \in Tool}

Init == SharedInit /\ conv = NewConv

-------------------------------------------------------------------------------
\* The handlers work on the locals and on what they have yielded so far.
Put(s, events) == [s EXCEPT !.out = @ \o events]

Begun(s) ==
  IF s.conv.begun THEN s ELSE Put([s EXCEPT !.conv.begun = TRUE], <<Plain("message_start")>>)

ClosePlain(s) ==
  IF s.conv.plain.index = None THEN s
  ELSE Put([s EXCEPT !.conv.plain = NoPlain], <<Stop(s.conv.plain.index)>>)

SwitchPlain(s, source) ==
  LET closed == ClosePlain(s)
      index == closed.conv.next
  IN  Put([closed EXCEPT !.conv.next = index + 1,
                         !.conv.plain = [index |-> index, source |-> source]],
          <<Start(index, source)>>)

\* A piece of thinking or of text.
OnPlain(s, source) ==
  LET current == IF s.conv.plain.source = source THEN s ELSE SwitchPlain(s, source)
  IN  Put(current, <<Delta(current.conv.plain.index, source, 1)>>)

\* The entry of a call's position, with the id, the name and the white space
\* of this piece noted.
Noted(k, call, next) ==
  LET white == CASE call.args = "blank" -> k.white + 1
                 [] call.args = "text" -> 0
                 [] OTHER -> k.white
  IN  [k EXCEPT !.index = IF @ = None THEN next ELSE @,
                !.id = @ \/ call.id, !.name = @ \/ call.name,
                !.white = white,
                !.aborted = call.args # "none" /\ white >= WhitespaceLimit]

OnCall_Restarts(s, call) ==
  LET t == call.tool
      k == Noted(s.conv.tool[t], call, s.conv.next)
      starts == k.id /\ k.name
      keeps == call.args # "none" /\ ~k.aborted
      held == IF k.started \/ starts THEN 0 ELSE k.args + (IF keeps THEN 1 ELSE 0)
      noted == [ClosePlain(s) EXCEPT
                  !.conv.next = IF s.conv.tool[t].index = None THEN @ + 1 ELSE @,
                  !.conv.tool[t] = [k EXCEPT !.started = @ \/ starts, !.args = held],
                  !.conv.open = IF starts THEN @ \cup {k.index} ELSE @]
  IN  Put(noted, (IF starts THEN <<Start(k.index, t)>> ELSE <<>>)
                   \o (IF starts /\ k.args > 0 THEN <<Delta(k.index, t, k.args)>> ELSE <<>>)
                   \o (IF keeps /\ (k.started \/ starts) THEN <<Delta(k.index, t, 1)>> ELSE <<>>))
\* A piece of a tool call: its block starts when both id and name are known;
\* the arguments that came before are sent then.  Too much white space in a
\* row, and the rest of the call is dropped.
OnCall(s, call) ==
  LET t == call.tool
      k == Noted(s.conv.tool[t], call, s.conv.next)
      starts == ~k.started /\ k.id /\ k.name
      keeps == call.args # "none" /\ ~k.aborted
      held == IF k.started \/ starts THEN 0 ELSE k.args + (IF keeps THEN 1 ELSE 0)
      noted == [ClosePlain(s) EXCEPT
                  !.conv.next = IF s.conv.tool[t].index = None THEN @ + 1 ELSE @,
                  !.conv.tool[t] = [k EXCEPT !.started = @ \/ starts, !.args = held],
                  !.conv.open = IF starts THEN @ \cup {k.index} ELSE @]
  IN  IF s.conv.tool[t].aborted THEN ClosePlain(s)
      ELSE Put(noted,
               (IF starts THEN <<Start(k.index, t)>> ELSE <<>>)
                 \o (IF starts /\ k.args > 0 THEN <<Delta(k.index, t, k.args)>> ELSE <<>>)
                 \o (IF keeps /\ (k.started \/ starts) THEN <<Delta(k.index, t, 1)>> ELSE <<>>))

InOrder(indices) == SetToSortSeq(indices, <)

\* A call whose id or name never came is started with a substitute.
LateStart(s, index) ==
  LET t == CHOOSE u \in Tool : s.conv.tool[u].index = index
      k == s.conv.tool[t]
  IN  Put([s EXCEPT !.conv.tool[t].started = TRUE, !.conv.tool[t].args = 0,
                    !.conv.open = @ \cup {index}],
          <<Start(index, t)>> \o (IF k.args > 0 THEN <<Delta(index, t, k.args)>> ELSE <<>>))

OnFinish_NoLateStart(s) ==
  Put([ClosePlain(s) EXCEPT !.conv.finished = TRUE, !.conv.pending = TRUE, !.conv.open = {}],
      [i \in DOMAIN InOrder(s.conv.open) |-> Stop(InOrder(s.conv.open)[i])])
\* The first finish reason closes every block; the others only bring usage.
OnFinish(s) ==
  LET named == {t \in Tool : /\ s.conv.tool[t].index # None /\ ~s.conv.tool[t].started
                             /\ s.conv.tool[t].args > 0 \/ s.conv.tool[t].id
                                  \/ s.conv.tool[t].name}
      late == InOrder({s.conv.tool[t].index : t \in named})
      started == FoldLeft(LateStart, ClosePlain(s), late)
      open == InOrder(started.conv.open)
  IN  IF s.conv.finished THEN s
      ELSE Put([started EXCEPT !.conv.finished = TRUE, !.conv.pending = TRUE, !.conv.open = {}],
               [i \in DOMAIN open |-> Stop(open[i])])

OnChunk(s, c) ==
  LET begun == Begun(s)
      put == CASE "plain" \in DOMAIN c -> OnPlain(begun, c.plain)
               [] "call" \in DOMAIN c -> OnCall(begun, c.call)
               [] OTHER -> begun
  IN  IF c.finish THEN OnFinish(put) ELSE put

-------------------------------------------------------------------------------
\* The upstream keeps its order while no content follows a finish reason.
TakeChunk(c) ==
  /\ Reads
  /\ LET s == OnChunk([conv |-> conv, out |-> <<>>], c)
     IN  s.conv.next <= Cardinality(Block) /\ conv' = s.conv /\ out' = s.out
  /\ unhandled' = (unhandled \/ (conv.finished /\ SourceOf(c) # None))
  /\ sent' = [s \in Source |-> IF Carries(c, s) THEN sent[s] + 1 ELSE sent[s]]
  /\ UNCHANGED <<client, at>>

Ending(c) == IF c.pending THEN <<Plain("message_delta")>> ELSE <<>>

\* "[DONE]": out of order unless it follows a finish reason, once.
TakeDone ==
  /\ Reads
  /\ out' = Append(Ending(conv), Plain("message_stop"))
  /\ conv' = [conv EXCEPT !.pending = FALSE, !.stopped = TRUE]
  /\ unhandled' = (unhandled \/ ~conv.pending)
  /\ UNCHANGED <<client, sent, at>>

\* An error of the upstream within the stream, or of the connection.
TakeError ==
  /\ Polls
  /\ out' = <<Plain("error")>> /\ at' = "ended"
  /\ UNCHANGED <<conv, client, sent, inputs, unhandled>>

EndOfStream_StopsAgain ==
  /\ Polls
  /\ out' = Append(Ending(conv), Plain("message_stop"))
  /\ conv' = [conv EXCEPT !.pending = FALSE] /\ at' = "ended"
  /\ UNCHANGED <<client, sent, inputs, unhandled>>
\* A stream without [DONE] is ended here, one cut before its finish reason is not.
EndOfStream ==
  /\ Polls
  /\ out' = Ending(conv) \o (IF conv.pending /\ ~conv.stopped THEN <<Plain("message_stop")>>
                             ELSE <<>>)
  /\ conv' = [conv EXCEPT !.pending = FALSE] /\ at' = "ended"
  /\ UNCHANGED <<client, sent, inputs, unhandled>>

Yield == YieldEvent /\ UNCHANGED conv

Next ==
  \/ \E c \in Chunk : TakeChunk(c)
  \/ TakeDone \/ TakeError \/ EndOfStream \/ Yield

-------------------------------------------------------------------------------
\* Once all is yielded every piece of the upstream is in the client's block of
\* its source, or held back for an id or a name: none is lost, doubled or put
\* into another call's block, unless the call was given up for its white space.
Conserved ==
  out = <<>> => \A s \in Source : s \notin Tool \/ ~conv.tool[s].aborted =>
    sent[s] = Delivered(s) + (IF s \in Tool THEN conv.tool[s].args ELSE 0)

\* A stream that got its finish reason and no error ends like a message, and
\* nothing is left behind in the converter then.
EndsProperly ==
  Settled /\ conv.finished /\ client.errors = 0 /\ ~unhandled =>
    /\ client.deltas = 1 /\ client.stops = 1
    /\ \A t \in Tool : conv.tool[t].args = 0
================================================================================
