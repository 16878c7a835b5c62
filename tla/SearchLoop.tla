------------------------------ MODULE SearchLoop ------------------------------
(***************************************************************************)
(* websearch/search_loop.rs: the stream of a request that may search the   *)
(* web.  The loop passes on the message of the upstream until the model    *)
(* calls the search tool; it takes that block out, searches, tells the     *)
(* client of the search in two blocks of its own, drops the rest of the    *)
(* answer and asks again with the results.  The client sees one message:   *)
(* the loop renumbers the blocks of every segment and writes its end.      *)
(*                                                                         *)
(* A segment is a stream of forward::run, hence of the pipeline: legal, or *)
(* cut short by an error.  A streaming request never gets one document for *)
(* an answer, so that branch of the continuation cannot be reached.        *)
(***************************************************************************)
EXTENDS Converter

CONSTANTS
  Raw,     \* how a segment numbers its blocks, 0..m: bound on their number
  MaxUses  \* searches a request may make

ASSUME SearchAssumption ==
  /\ Raw = 0..(Cardinality(Raw) - 1) /\ None \notin Raw
  /\ {0, 1} \subseteq Block   \* those of a search before the first segment
  /\ MaxUses \in Nat \ {0}

VARIABLES
  loop,    \* the locals of wrap()
  segment  \* the message of the upstream that is being read, as it stands

vars == <<loop, segment, shared>>

NewMap == [r \in Raw |-> None]
NoHit == [raw |-> None, index |-> None]
NewSegment == [begun |-> FALSE, of |-> NewMap, open |-> {}, next |-> 0, over |-> "no"]

\* hit is `intercepted`, pre the search made before the first segment, asked is
\* need_continuation, requests usage.web_search_requests, rounds what the
\* request carries of searches.
NewLoop(pre) ==
  [next |-> IF pre THEN 2 ELSE 0, done |-> IF pre THEN 1 ELSE 0,
   requests |-> IF pre THEN 1 ELSE 0, pre |-> pre, first |-> TRUE, map |-> NewMap,
   hit |-> NoHit, asked |-> FALSE, rounds |-> IF pre THEN 1 ELSE 0]

TypeOK ==
  /\ SharedOK
  /\ {loop.next, loop.done, loop.requests, loop.rounds} \subseteq Nat
  /\ {loop.pre, loop.first, loop.asked} \subseteq BOOLEAN
  /\ loop.map \in [Raw -> Block \cup {None}]
  /\ loop.hit \in [raw: Raw \cup {None}, index: Block \cup {None}]
  /\ segment.of \in [Raw -> Source \cup {None}] /\ segment.open \subseteq Raw
  /\ segment.over \in {"no", "delta", "stop"}
  /\ loop.requests <= loop.done

Init == SharedInit /\ segment = NewSegment /\ \E pre \in BOOLEAN : loop = NewLoop(pre)

-------------------------------------------------------------------------------
\* search_blocks() and search_error_blocks(): the call and its result.
SearchBlocks(index) ==
  <<Start(index, "search"), Delta(index, "search", 1), Stop(index),
    Start(index + 1, "search"), Stop(index + 1)>>

\* rewrite_event(): the index as it was assigned, or as the segment has it.
Index(raw) == IF loop.map[raw] = None THEN raw ELSE loop.map[raw]

Reading == Reads /\ ~loop.asked /\ segment.over = "no"
InBlock(raw) == Reading /\ raw \in segment.open

TakeMessageStart ==
  /\ Polls /\ ~loop.asked /\ ~segment.begun
  /\ segment' = [segment EXCEPT !.begun = TRUE]
  /\ loop' = [loop EXCEPT !.pre = IF loop.first THEN FALSE ELSE @]
  /\ out' = IF loop.first
            THEN <<Plain("message_start")>> \o (IF loop.pre THEN SearchBlocks(0) ELSE <<>>)
            ELSE <<>>
  /\ UNCHANGED <<client, sent, inputs, at, unhandled>>

StartedBy(source) ==
  LET raw == segment.next
  IN  /\ Reading /\ segment.begun /\ raw \in Raw
      /\ loop.next + 2 \in Block
      /\ segment' = [segment EXCEPT !.of[raw] = source, !.open = @ \cup {raw}, !.next = @ + 1]
      /\ UNCHANGED <<client, sent, at>>

\* Overlaps: a search that is called while another block is open, or a block that
\* starts within the call of a search, is what the loop has no answer to.  Anthropic
\* sends one block after the other, and so do the converters of Gemini and of the
\* Responses API; but that of Chat Completions keeps the blocks of all its calls open
\* until the finish reason (streaming.rs:516, :641), so that a model that calls another
\* tool beside the search gives rise to it.  Calls that overlap without a search among
\* them are handled like any other block.

\* The call of the search tool is kept back; the index it would have had is
\* remembered but not taken, so that a block that overlaps gets the same.
TakeSearchStart ==
  /\ StartedBy("search")
  /\ loop' = [loop EXCEPT !.hit = [raw |-> segment.next, index |-> loop.next]]
  /\ unhandled' = (unhandled \/ segment.open # {})
  /\ UNCHANGED out

TakeBlockStart_TakesNoIndex(source) ==
  /\ StartedBy(source)
  /\ loop' = [loop EXCEPT !.map[segment.next] = loop.next]
  /\ out' = <<Start(loop.next, source)>>
  /\ unhandled' = (unhandled \/ loop.hit # NoHit)
TakeBlockStart(source) ==
  /\ StartedBy(source)
  /\ loop' = [loop EXCEPT !.map[segment.next] = loop.next, !.next = @ + 1]
  /\ out' = <<Start(loop.next, source)>>
  /\ unhandled' = (unhandled \/ loop.hit # NoHit)

TakeDelta_AsNumbered(raw) ==
  /\ InBlock(raw)
  /\ IF loop.hit.raw = raw THEN out' = <<>> /\ sent' = sent
     ELSE /\ out' = <<Delta(raw, segment.of[raw], 1)>>
          /\ sent' = [sent EXCEPT ![segment.of[raw]] = @ + 1]
  /\ UNCHANGED <<loop, segment, client, at, unhandled>>
TakeDelta(raw) ==
  /\ InBlock(raw)
  /\ IF loop.hit.raw = raw THEN out' = <<>> /\ sent' = sent
     ELSE /\ out' = <<Delta(Index(raw), segment.of[raw], 1)>>
          /\ sent' = [sent EXCEPT ![segment.of[raw]] = @ + 1]
  /\ UNCHANGED <<loop, segment, client, at, unhandled>>

\* The end of a block takes back the interception, whichever block it is: the search
\* of a call that overlaps is not made, and its deltas and its end are passed on.
TakeStop(raw) ==
  /\ InBlock(raw) /\ loop.hit.raw # raw
  /\ segment' = [segment EXCEPT !.open = @ \ {raw}]
  /\ loop' = [loop EXCEPT !.hit = NoHit]
  /\ out' = <<Stop(Index(raw))>>
  /\ UNCHANGED <<client, sent, at, unhandled>>

TakeSearchStop_Unlimited(raw) ==
  /\ InBlock(raw) /\ loop.hit.raw = raw
  /\ segment' = [segment EXCEPT !.open = @ \ {raw}]
  /\ \E found \in BOOLEAN :
       loop' = [loop EXCEPT !.hit = NoHit, !.next = loop.hit.index + 2, !.asked = TRUE,
                            !.rounds = @ + 1,
                            !.done = IF found THEN @ + 1 ELSE @,
                            !.requests = IF found THEN loop.done + 1 ELSE @]
  /\ out' = SearchBlocks(loop.hit.index)
  /\ UNCHANGED <<client, sent, at, unhandled>>
\* The call is complete: a search, found or failed, or the refusal of one too
\* many.  run_search() fails when no backend answers, or none is there.
TakeSearchStop(raw) ==
  /\ InBlock(raw) /\ loop.hit.raw = raw
  /\ segment' = [segment EXCEPT !.open = @ \ {raw}]
  /\ \E found \in BOOLEAN :
       LET refused == loop.done >= MaxUses
           answered == ~refused /\ found
       IN  /\ refused => ~found
           /\ loop' = [loop EXCEPT !.hit = NoHit, !.next = loop.hit.index + 2, !.asked = TRUE,
                                   !.rounds = @ + 1,
                                   !.done = IF refused \/ answered THEN @ + 1 ELSE @,
                                   !.requests = IF answered THEN loop.done + 1 ELSE @]
  /\ out' = SearchBlocks(loop.hit.index)
  /\ UNCHANGED <<client, sent, at, unhandled>>

\* message_delta and message_stop of a segment are suppressed.
TakeMessageDelta ==
  /\ Reading /\ segment.begun /\ segment.open = {}
  /\ segment' = [segment EXCEPT !.over = "delta"]
  /\ UNCHANGED <<loop, out, client, sent, at, unhandled>>

TakeMessageStop ==
  /\ Polls /\ ~loop.asked /\ segment.over = "delta"
  /\ segment' = [segment EXCEPT !.over = "stop"]
  /\ UNCHANGED <<loop, out, client, sent, inputs, at, unhandled>>

\* An error event, or an error of the connection.
TakeError ==
  /\ Polls /\ ~loop.asked
  /\ at' = "ended" /\ out' = <<Plain("error")>>
  /\ UNCHANGED <<loop, segment, client, sent, inputs, unhandled>>

EndOfSegment_PassesEnd ==
  /\ Polls /\ ~loop.asked /\ segment.over = "stop"
  /\ at' = "ended"
  /\ out' = IF loop.first THEN <<Plain("message_delta"), Plain("message_stop")>> ELSE <<>>
  /\ UNCHANGED <<loop, segment, client, sent, inputs, unhandled>>
EndOfSegment ==
  /\ Polls /\ ~loop.asked /\ segment.over = "stop"
  /\ at' = "ended" /\ out' = <<Plain("message_delta"), Plain("message_stop")>>
  /\ UNCHANGED <<loop, segment, client, sent, inputs, unhandled>>

\* forward::run() with what was found: the next segment has blocks of its own.
Continue ==
  /\ Polls /\ loop.asked
  /\ segment' = NewSegment
  /\ loop' = [loop EXCEPT !.asked = FALSE, !.first = FALSE, !.map = NewMap]
  /\ UNCHANGED <<out, client, sent, inputs, at, unhandled>>

ContinueFails ==
  /\ Polls /\ loop.asked
  /\ at' = "ended" /\ out' = <<Plain("error")>>
  /\ loop' = [loop EXCEPT !.asked = FALSE]
  /\ UNCHANGED <<segment, client, sent, inputs, unhandled>>

Yield == YieldEvent /\ UNCHANGED <<loop, segment>>

Next ==
  \/ TakeMessageStart \/ TakeSearchStart \/ TakeMessageDelta \/ TakeMessageStop
  \/ \E source \in Source \ {"search"} : TakeBlockStart(source)
  \/ \E raw \in Raw : TakeDelta(raw) \/ TakeStop(raw) \/ TakeSearchStop(raw)
  \/ TakeError \/ EndOfSegment \/ Continue \/ ContinueFails \/ Yield

Spec == Init /\ [][Next]_vars

-------------------------------------------------------------------------------
\* What the segments said up to the call of a search reaches the client once, but
\* where a search Overlaps.
Conserved ==
  ~unhandled /\ out = <<>> => \A s \in Source \ {"search"} : sent[s] = Delivered(s)

SearchesTold == {b \in Block : client.block[b].source = "search" /\ client.block[b].closes = 1}

\* Every search the continued request carries was told the client in a pair of
\* blocks, and no more of them found something than the request may make; but where a
\* search Overlaps.
SearchesAreTold ==
  ~unhandled /\ out = <<>> /\ client.errors = 0 /\ ~loop.pre =>
    /\ Cardinality(SearchesTold) = 2 * loop.rounds
    /\ loop.requests <= MaxUses

\* Without an error the client has one whole message, however many segments.
EndsProperly ==
  Settled /\ client.errors = 0 =>
    client.starts = 1 /\ client.deltas = 1 /\ client.stops = 1

-------------------------------------------------------------------------------
\* What the comments promise, and the code does not keep (see also AlwaysLawful).

\* A call of the search is taken out of the stream and answered (search_loop.rs:7): no
\* segment comes to its end with one.  A call that Overlaps is lost.
SearchCallsAreTaken ==
  segment.over = "stop" => \A raw \in Raw : segment.of[raw] # "search"

\* The header of the file: the loop goes on until no search is called or the
\* limit is reached; the refusal itself may take one more answer.
StopsAtTheLimit == loop.rounds <= MaxUses + 1
================================================================================
