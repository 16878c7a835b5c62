-------------------------------- MODULE Dialogue --------------------------------
(***************************************************************************)
(* The bodies of a conversation that fails over between upstreams.  The    *)
(* client keeps the history and sends all of it with every request.  The   *)
(* gateway rewrites the searches in it (websearch/history.rs), converts it *)
(* into the request format of whichever candidate is asked (transform.rs,  *)
(* transform_responses.rs, transform_gemini.rs) and converts the answer    *)
(* back; signatures that an upstream wants to see again travel through the *)
(* client in envelopes (gemini_signature.rs, reasoning_bridge.rs).         *)
(*                                                                         *)
(* Texts, images and tool inputs are told apart by their place only.  The  *)
(* variable is the history; what an upstream would be sent is computed     *)
(* from it, for every protocol, since any candidate may be asked next.     *)
(***************************************************************************)
EXTENDS Integers, Sequences, SequencesExt, FiniteSets

CONSTANTS
  None,
  MaxTurns,     \* bound: answers in a conversation
  MaxItems,     \* bound: what an upstream says in its first answer; one item less
                \* in each later one
  MaxCalls,     \* bound: tool calls in one answer
  SearchTurns   \* bound: answers with a web search of the gateway's

Protocol == {"anthropic", "chat", "responses", "gemini"}

VARIABLES
  history,  \* messages of the client's request, the last one the user's
  said      \* what was answered: the protocol and the native items

dvars == <<history, said>>

\* Blocks of an Anthropic message.  The id of a call is the number it was given,
\* whether the gateway made it up, and the signature in its envelope.
Text == [kind |-> "text"]
Image == [kind |-> "image"]
Thinking(sig) == [kind |-> "thinking", sig |-> sig]
Call(id) == [kind |-> "call", id |-> id]
Result(id, media) == [kind |-> "result", id |-> id, media |-> media]
Search(id) == [kind |-> "search", id |-> id]
Found(id) == [kind |-> "found", id |-> id]
Plain(n) == [n |-> n, made |-> FALSE, sig |-> None]

Select(seq, kinds) == SelectSeq(seq, LAMBDA b : b.kind \in kinds)
MapSeq(seq, Op(_)) == [i \in DOMAIN seq |-> Op(seq[i])]
FlatMap(seq, Op(_)) == FlattenSeq(MapSeq(seq, Op))
When(cond, seq) == IF cond THEN seq ELSE <<>>

-----------------------------------------------------------------------------
(* websearch/history.rs: the searches of the history as calls with results. *)

LocalResults(blocks, found) ==
  FlatMap(blocks, LAMBDA b : When(b.kind = "search" /\ b.id \in found,
                                  <<Result(b.id, FALSE)>>))
AsCalls(blocks) ==
  FlatMap(blocks, LAMBDA b : CASE b.kind = "search" -> <<Call(b.id)>>
                               [] b.kind = "found"  -> <<>>
                               [] OTHER             -> <<b>>)

\* The results gathered in `pending` are put into the user's message after the
\* one at idx, or else into a new message; but a user's message that is a string
\* is passed over, and they go with the next search, if there is one.
InsertResults_Behind(state, idx) ==
  LET target == idx + 1 + state.offset
      m == state.messages[target] IN
  [state EXCEPT !.messages[target].blocks = @ \o state.pending, !.pending = <<>>]
InsertResults(state, idx) ==
  LET target == idx + 1 + state.offset
      at == IF target <= Len(state.messages) THEN target ELSE Len(state.messages) + 1 IN
  IF target <= Len(state.messages) /\ state.messages[target].role = "user"
  THEN IF state.messages[target].string
       THEN state
       ELSE [state EXCEPT !.messages[target].blocks = state.pending \o @,
                          !.pending = <<>>]
  ELSE [messages |-> InsertAt(state.messages, at,
                              [role |-> "user", string |-> FALSE,
                               blocks |-> state.pending]),
        pending |-> <<>>, offset |-> state.offset + 1]

RewriteHistory(messages) ==
  LET found == UNION {{b.id : b \in ToSet(Select(messages[i].blocks, {"found"}))} :
                        i \in DOMAIN messages}
      local == [i \in DOMAIN messages |-> LocalResults(messages[i].blocks, found)]
      rewritten == [i \in DOMAIN messages |->
                      [messages[i] EXCEPT !.blocks = AsCalls(@)]]
      after == SelectSeq([i \in DOMAIN messages |-> i], LAMBDA i : local[i] # <<>>)
  IN IF found = {} THEN messages
     ELSE FoldLeft(InsertResults,
                   [messages |-> rewritten, pending |-> FlattenSeq(local), offset |-> 0],
                   after).messages

-----------------------------------------------------------------------------
(* transform.rs: Chat Completions.                                          *)

ToolMessage(b) == [role |-> "tool", id |-> b.id, parts |-> <<>>, calls |-> <<>>]

\* The results become messages of their own, then come their images, and then
\* the texts, images and calls of the message.
ConvertToChat_MediaBetween(m) ==
  FlatMap(m.blocks, LAMBDA b :
    IF b.kind = "result"
    THEN <<ToolMessage(b)>> \o
         When(b.media, <<[role |-> "user", id |-> None, parts |-> <<Text, Image>>,
                          calls |-> <<>>]>>)
    ELSE <<[role |-> m.role, id |-> None, parts |-> Select(<<b>>, {"text", "image"}),
            calls |-> MapSeq(Select(<<b>>, {"call"}), LAMBDA c : c.id)]>>)
ConvertToChat(m) ==
  LET results == Select(m.blocks, {"result"})
      media == FlatMap(results, LAMBDA b : When(b.media, <<Text, Image>>))
      parts == Select(m.blocks, {"text", "image"})
      calls == MapSeq(Select(m.blocks, {"call"}), LAMBDA b : b.id)
  IN MapSeq(results, ToolMessage)
     \o When(media # <<>>, <<[role |-> "user", id |-> None, parts |-> media,
                              calls |-> <<>>]>>)
     \o When(parts # <<>> \/ calls # <<>>,
             <<[role |-> m.role, id |-> None, parts |-> parts, calls |-> calls]>>)

Chat(messages) == FlatMap(messages, ConvertToChat)

-----------------------------------------------------------------------------
(* transform_responses.rs: the Responses API.  Items are in one sequence;   *)
(* texts and images are gathered into a message until another item comes.   *)

ResponsesItem(b) ==
  CASE b.kind = "call"   -> <<[type |-> "call", id |-> b.id]>>
    [] b.kind = "result" -> <<[type |-> "output", id |-> b.id]>>
    [] b.kind = "thinking" /\ b.sig # None ->
         When(b.sig.of = "responses", <<[type |-> "reasoning", id |-> b.sig]>>)
    [] OTHER -> <<>>

IsPart(b) == b.kind \in {"text", "image"}

\* The message that ends with the block i, when it is the last part before an item.
Gathered(kept, i, role) ==
  LET first == CHOOSE k \in 1 .. i :
                 /\ \A j \in k .. i : IsPart(kept[j])
                 /\ k > 1 => ~IsPart(kept[k - 1]) IN
  When(i = Len(kept) \/ ~IsPart(kept[i + 1]),
       <<[type |-> "message", id |-> role, parts |-> SubSeq(kept, first, i)]>>)

\* A reasoning item stays only when the answer it belongs to goes on after it.
Follows(items, i) ==
  \E j \in DOMAIN items : j > i /\ items[j].type \in {"call", "message"}
PruneReasoning_Keeps(items, role) == items
PruneReasoning(items, role) ==
  IF role # "assistant" THEN items
  ELSE FlattenSeq([i \in DOMAIN items |->
         When(items[i].type = "reasoning" => Follows(items, i), <<items[i]>>)])

ConvertToInput(m) ==
  LET kept == SelectSeq(m.blocks, LAMBDA b : IsPart(b) \/ ResponsesItem(b) # <<>>) IN
  PruneReasoning(
    FlattenSeq([i \in DOMAIN kept |-> IF IsPart(kept[i]) THEN Gathered(kept, i, m.role)
                                      ELSE ResponsesItem(kept[i])]), m.role)

Responses(messages) == FlatMap(messages, ConvertToInput)

-----------------------------------------------------------------------------
(* transform_gemini.rs.  An id that the gateway made up is not sent back,   *)
(* and the envelope of an id is opened.                                     *)

BareId_Synthesized(id) == id.n
BareId(id) == IF id.made THEN None ELSE id.n

GeminiParts(b) ==
  CASE b.kind \in {"text", "image"} -> <<[type |-> b.kind, id |-> None, sig |-> None]>>
    [] b.kind = "call"   -> <<[type |-> "functionCall", id |-> BareId(b.id),
                               sig |-> b.id.sig]>>
    [] b.kind = "result" -> <<[type |-> "functionResponse", id |-> BareId(b.id),
                               sig |-> None]>>
                            \o When(b.media, <<[type |-> "image", id |-> None, sig |-> None]>>)
    [] b.kind = "thinking" ->
         <<[type |-> "thought", id |-> None,
            sig |-> IF b.sig # None THEN IF b.sig.of = "gemini" THEN b.sig ELSE None
                    ELSE None]>>
    [] OTHER -> <<>>

Skip == [of |-> "gemini", n |-> 0]  \* skip_thought_signature_validator

\* fill_missing_function_call_signatures: the first call of a step in which no call
\* is signed gets the placeholder that Gemini 3 lets pass.
Calls(parts) == {i \in DOMAIN parts : parts[i].type = "functionCall"}
FillSignature_First(parts) ==
  [i \in DOMAIN parts |->
     IF i = 1 /\ i \in Calls(parts) THEN [parts[i] EXCEPT !.sig = Skip] ELSE parts[i]]
FillSignature(parts) ==
  LET signed == \E i \in Calls(parts) : parts[i].sig # None
      first == CHOOSE i \in Calls(parts) : \A j \in Calls(parts) : i <= j
  IN IF signed \/ Calls(parts) = {} THEN parts
     ELSE [parts EXCEPT ![first].sig = Skip]

ConvertToContent(m) ==
  LET parts == FlatMap(m.blocks, GeminiParts) IN
  [role |-> IF m.role = "assistant" THEN "model" ELSE "user",
   parts |-> IF m.role = "assistant" THEN FillSignature(parts) ELSE parts]

Gemini_FillsLastOnly(messages) ==
  [i \in DOMAIN messages |->
     IF i = Len(messages) - 1 THEN ConvertToContent(messages[i])
     ELSE [role |-> messages[i].role, parts |-> FlatMap(messages[i].blocks, GeminiParts)]]
Gemini(messages) == MapSeq(messages, ConvertToContent)

-----------------------------------------------------------------------------
(* The answers.  A native item is a text, a thought or a call; of the calls *)
(* only Gemini's may lack an id, and of them only the first is signed.      *)

Item(kind, id, sig) == [kind |-> kind, id |-> id, sig |-> sig]

Items(p, k) ==
  LET n == 10 * k
      signed == [of |-> p, n |-> n] IN
  {Item("text", None, None)}
  \cup {Item("thought", None, s) :
          s \in CASE p = "chat"      -> {None}
                  [] p = "anthropic" -> {signed}
                  [] OTHER           -> {None, signed}}
  \cup {Item("call", id, s) : id \in IF p = "gemini" THEN {None, n} ELSE {n},
                              s \in IF p = "gemini" THEN {None, signed} ELSE {None}}

\* message.reasoning, then content, then tool_calls.
Rank(item) == CASE item.kind = "thought" -> 1 [] item.kind = "text" -> 2 [] OTHER -> 3

Lawful(p, items) ==
  LET calls == {i \in DOMAIN items : items[i].kind = "call"} IN
  /\ Cardinality(calls) <= MaxCalls
  /\ p = "chat" => \A i, j \in DOMAIN items : i < j => Rank(items[i]) <= Rank(items[j])
  /\ \A i \in calls : items[i].sig # None => \A j \in calls : i <= j

Answers(p, turn) ==
  {items \in UNION {[1 .. m -> UNION {Items(p, 5 * turn + k) : k \in 1 .. m}] :
                      m \in 1 .. MaxItems - turn} :
     /\ \A k \in DOMAIN items : items[k] \in Items(p, 5 * turn + k)
     /\ Lawful(p, items)}

\* openai_to_anthropic, responses_to_anthropic, gemini_to_anthropic: a call without
\* an id is given one, and Gemini's signature goes into the id.
Heard_LosesSignature(p, item, n) ==
  CASE item.kind = "text"    -> Text
    [] item.kind = "thought" -> Thinking(item.sig)
    [] OTHER -> Call([n |-> n, made |-> item.id = None, sig |-> None])
Heard(p, item, n) ==
  CASE item.kind = "text"    -> Text
    [] item.kind = "thought" -> Thinking(item.sig)
    [] OTHER -> Call([n |-> n, made |-> item.id = None, sig |-> item.sig])

Blocks(p, items, turn) ==
  [k \in DOMAIN items |-> Heard(p, items[k], 10 * (5 * turn + k))]

-----------------------------------------------------------------------------
DialogueTypeOK ==
  /\ Len(history) \in 0 .. 2 * MaxTurns + 1 /\ said \in Seq([by : Protocol, items : Seq(
       [kind : {"text", "thought", "call"}, id : Nat \cup {None},
        sig : [of : Protocol, n : Nat] \cup {None}])])
  /\ \A i \in DOMAIN history :
       /\ history[i].role \in {"user", "assistant"} /\ history[i].string \in BOOLEAN
       /\ \A b \in ToSet(history[i].blocks) :
            b.kind \in {"text", "image", "thinking", "call", "result", "search", "found"}

User(blocks, string) == [role |-> "user", string |-> string, blocks |-> blocks]

DialogueInit ==
  /\ history = <<User(<<Text, Image>>, FALSE)>>
  /\ said = <<>>

\* What the client may reply to an answer: the results of its calls, in any order,
\* with or without an image, and perhaps a text after them; or else just a text, as a
\* block or as a string.
Replies(blocks) ==
  LET ids == MapSeq(Select(blocks, {"call"}), LAMBDA b : b.id) IN
  IF ids = <<>>
  THEN {User(<<Text>>, string) : string \in BOOLEAN}
  ELSE {User([i \in DOMAIN order |-> Result(order[i], media /\ i = 1)] \o after, FALSE) :
          order \in {ids, Reverse(ids)}, media \in BOOLEAN, after \in {<<>>, <<Text>>}}

Searches == Cardinality({i \in DOMAIN history : Select(history[i].blocks, {"found"}) # <<>>})

\* One exchange: an upstream of the protocol p answers, possibly after a search that
\* the gateway ran for it, and the client replies.
Exchange(p) ==
  LET turn == Len(said) IN
  /\ turn < MaxTurns
  /\ \E items \in Answers(p, turn), search \in BOOLEAN :
       LET id == Plain(10 * (5 * turn + MaxItems + 1))
           blocks == When(search, <<Search(id), Found(id)>>) \o Blocks(p, items, turn) IN
       /\ search => Searches < SearchTurns
       /\ \E reply \in Replies(blocks) :
            history' = history \o <<[role |-> "assistant", string |-> FALSE,
                                     blocks |-> blocks], reply>>
       /\ said' = Append(said, [by |-> p, items |-> items])

DialogueNext == \E p \in Protocol : Exchange(p)

-----------------------------------------------------------------------------
Body == RewriteHistory(history)

\* The Messages API wants the results first in the next message, and all of them.
AnthropicCallsAreAnswered(body) ==
  \A i \in DOMAIN body :
    LET calls == {b.id : b \in ToSet(Select(body[i].blocks, {"call"}))}
        next == body[i + 1].blocks IN
    /\ calls # {} => /\ i < Len(body) /\ body[i + 1].role = "user"
                     /\ Cardinality(calls) <= Len(next)
                     /\ calls = {next[j].id : j \in {j \in 1 .. Cardinality(calls) :
                                                       next[j].kind = "result"}}
    /\ \A b \in ToSet(body[i].blocks) : b.kind = "result" =>
         i > 1 /\ \E c \in ToSet(body[i - 1].blocks) : c.kind = "call" /\ c.id = b.id

ChatCallsAreAnswered(body) ==
  LET c == Chat(body) IN
  /\ \A i \in DOMAIN c : c[i].calls # <<>> =>
       /\ i + Len(c[i].calls) <= Len(c)
       /\ ToSet(c[i].calls) = {c[j].id : j \in i + 1 .. i + Len(c[i].calls)}
  /\ \A i \in DOMAIN c : c[i].role = "tool" =>
       \E j \in 1 .. i - 1 : c[i].id \in ToSet(c[j].calls)

ResponsesCallsAreAnswered(body) ==
  LET r == Responses(body)
      Places(type, id) == {i \in DOMAIN r : r[i].type = type /\ r[i].id = id} IN
  \A i \in DOMAIN r :
    /\ r[i].type = "call" => \E j \in Places("output", r[i].id) : i < j
    /\ r[i].type = "output" => \E j \in Places("call", r[i].id) : j < i
    /\ r[i].type = "reasoning" => i < Len(r) /\ r[i + 1].type # "output"
                                  /\ (r[i + 1].type = "message" => r[i + 1].id = "assistant")

\* Gemini pairs the responses with the calls of the content before by id, and what
\* has no id by its number; every step with calls is signed.
GeminiCallsAreAnswered(body) ==
  LET g == Gemini(body)
      Ids(i, type) == {g[i].parts[k].id : k \in {k \in DOMAIN g[i].parts : g[i].parts[k].type = type}}
      Count(i, type) == Cardinality({k \in DOMAIN g[i].parts : g[i].parts[k].type = type})
  IN \A i \in DOMAIN g :
       /\ Count(i, "functionCall") > 0 =>
            /\ \E k \in Calls(g[i].parts) : g[i].parts[k].sig # None
            /\ i < Len(g) /\ Ids(i + 1, "functionResponse") = Ids(i, "functionCall")
            /\ Count(i + 1, "functionResponse") = Count(i, "functionCall")
       /\ Count(i, "functionResponse") > 0 => i > 1 /\ Count(i - 1, "functionCall") > 0

\* Every call in a request is answered in the place where the protocol wants the
\* answer, and nothing is answered that was not called: an upstream rejects the
\* request otherwise, and would with every later one, since the history stays.
AllAnswered(body) ==
  /\ AnthropicCallsAreAnswered(body)
  /\ ChatCallsAreAnswered(body)
  /\ ResponsesCallsAreAnswered(body)
  /\ GeminiCallsAreAnswered(body)

\* It is so but for a search that the user followed up with a string, whose result
\* is passed over: that call and its result are not looked at here, all others are.
\* See SearchesAreAnswered.
PassedOver ==
  {b.id : b \in UNION {ToSet(Select(history[i].blocks, {"found"})) :
                         i \in {i \in 1 .. Len(history) - 1 : history[i + 1].string}}}
CallsAreAnswered ==
  LET Looked(b) == b.kind \in {"call", "result"} => b.id \notin PassedOver
  IN  AllAnswered([i \in DOMAIN Body |->
                     [Body[i] EXCEPT !.blocks = SelectSeq(@, Looked)]])

\* What a Gemini or a Responses upstream said comes back to it with the signatures
\* and the ids it gave, whoever answered in between; and no upstream is given what
\* another has signed.
Foreign(sig, p) == sig # None /\ sig.of # p

SignaturesReturn ==
  LET g == Gemini(history)
      r == Responses(history)
      Signed(turn) == {s \in {said[turn].items[k].sig : k \in DOMAIN said[turn].items} : s # None}
      SentToGemini == UNION {{g[i].parts[k].sig : k \in DOMAIN g[i].parts} : i \in DOMAIN g}
      SentToResponses == {r[i].id : i \in {i \in DOMAIN r : r[i].type = "reasoning"}}
  IN /\ \A turn \in DOMAIN said :
          said[turn].by = "gemini" =>
            LET parts == g[2 * turn].parts
                own == SelectSeq(parts, LAMBDA q : q.type = "functionCall")
                calls == SelectSeq(said[turn].items, LAMBDA q : q.kind = "call")
            IN /\ Signed(turn) \subseteq SentToGemini
               /\ Len(own) = Len(calls)
               /\ \A i \in DOMAIN calls :
                    own[i].id = calls[i].id /\ own[i].sig \in {calls[i].sig, Skip}
     /\ \A turn \in DOMAIN said : \A k \in DOMAIN said[turn].items :
          (said[turn].by = "responses" /\ said[turn].items[k].sig # None
           /\ \E j \in DOMAIN said[turn].items :
                j > k /\ said[turn].items[j].kind \in {"text", "call"}) =>
             said[turn].items[k].sig \in SentToResponses
     /\ \A s \in SentToGemini : ~Foreign(s, "gemini")
     /\ \A s \in SentToResponses : ~Foreign(s, "responses")

\* Each exchange extends what was sent before and leaves it as it was, byte for
\* byte: an upstream's prompt cache is of use only as long as the prefix is stable.
PrefixIsStable ==
  Len(history) > 1 =>
    LET now == Body
        then == RewriteHistory(SubSeq(history, 1, Len(history) - 2))
        Extends(new, old) == Len(old) <= Len(new) /\ SubSeq(new, 1, Len(old)) = old
    IN /\ Extends(Chat(now), Chat(then))
       /\ Extends(Responses(now), Responses(then))
       /\ Extends(Gemini(now), Gemini(then))

-----------------------------------------------------------------------------
\* What the comments promise, and the code does not keep.

\* The result of a search follows the message that searched, in the user's message or
\* in one made for it (websearch/history.rs:152 and :156).  But behind a user's message
\* that is a string, the usual one, it is put nowhere (:165): the call has no answer.
SearchesAreAnswered == AllAnswered(Body)
=============================================================================
