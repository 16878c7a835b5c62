-------------------------------- MODULE Repairs --------------------------------
(***************************************************************************)
(* The repairs that need no other model (rectify/builtin.rs, and the two   *)
(* rectifiers and thinking_policy.rs of ufp-convert), for one candidate:   *)
(* what each looks for in the text of an error, what it changes in the     *)
(* body of the client, and what the converters then send of it.  Rectify   *)
(* has the loop around them, where a repair is only a name.                *)
(*                                                                         *)
(* A text is the set of its words that some repair looks for, and of its   *)
(* numbers; the Chinese words stand with the English.  The upstream has    *)
(* several demands, a request may offend against many of them, and the     *)
(* upstream complains of any one it likes.                                 *)
(***************************************************************************)
EXTENDS Integers, FiniteSetsExt, SequencesExt

CONSTANTS
  None,
  MaxTokensOf,   \* the max_tokens of clients
  Limits,        \* the largest max_tokens of upstreams
  BudgetsOf      \* the budget_tokens of clients

RepairsAssumption ==
  /\ MaxTokensOf \subseteq Nat \ {0} /\ Limits \subseteq Nat \ {0}
  /\ BudgetsOf \subseteq Nat \ {0} /\ None \notin Nat

VARIABLES
  model,   \* its protocol, and what the gateway reads in its name
  demand,  \* what the upstream demands of a request
  config,  \* RectifierConfig
  body,    \* input.body
  tried,   \* the built-in repairs this candidate has seen
  at       \* "try", or how it ended

vars == <<model, demand, config, body, tried, at>>

Clamped(n, low, high) == Max({low, Min({n, high})})

-------------------------------------------------------------------------------
\* What the gateway reads in the name of a model.  A name is the sequence of its numbers.

\* claude_version(): a date is no version; no number is no version.
Version(name) ==
  LET nums == SelectSeq(name, LAMBDA n : n < 1000)
  IN  IF nums = <<>> THEN None ELSE <<nums[1], IF Len(nums) > 1 THEN nums[2] ELSE 0>>
Since(version, major, minor) ==
  \/ version = None
  \/ version[1] > major
  \/ version[1] = major /\ version[2] >= minor
SupportsAdaptive(name) == Since(Version(name), 4, 6)
NeedsDisplay(name) == Since(Version(name), 4, 7)

\* gemini_series().
Series(name) ==
  IF name = <<>> THEN "unknown"
  ELSE CASE name[1] = 1  -> "legacy"
         [] name[1] = 2  -> "budget"
         [] name[1] >= 3 -> "level"
         [] OTHER        -> "unknown"
UsesLevel(series) == series \in {"level", "unknown"}

\* supports_reasoning_effort() and supports_max_reasoning_effort() of OpenAI's names.
Effort(m) == IF m.tops THEN "max" ELSE "xhigh"

-------------------------------------------------------------------------------
\* What is sent of the thinking parameters: a record with their kind, and the max_tokens.
NoThinking == [kind |-> "none"]
Sends(kind, value) == [kind |-> kind, value |-> value]

\* apply_anthropic_max_thinking(): the client's effort stays, or is overwritten.
ClaudeBudget_NoRaise(b) ==
  [thinking |-> [kind |-> "enabled", value |-> Clamped(b.max - 1, 1024, 32000)],
   max |-> b.max]
ClaudeBudget(b) ==
  [thinking |-> [kind |-> "enabled", value |-> Clamped(b.max - 1, 1024, 32000)],
   max |-> IF b.max <= 1024 THEN 1025 ELSE b.max]
ClaudeForced(m, b) ==
  IF SupportsAdaptive(m.name)
  THEN [thinking |-> [kind |-> "adaptive", value |-> IF b.form = "alt" THEN "high" ELSE "max",
                      display |-> NeedsDisplay(m.name)],
        max |-> b.max]
  ELSE ClaudeBudget(b)

\* The thinking of a native upstream is the client's, but for the forced.
Claude(m, b) ==
  IF b.form \in {"", "unsupported"}
  THEN [thinking |-> IF b.thinking = "none" THEN NoThinking ELSE Sends(b.thinking, b.budget),
        max |-> b.max]
  ELSE ClaudeForced(m, b)

\* resolve_reasoning_effort().
ClientEffort(m, b) ==
  IF b.effort # None THEN IF b.effort = "max" THEN Effort(m) ELSE b.effort
  ELSE CASE b.thinking = "adaptive"  -> "xhigh"
         [] b.thinking = "enabled"   -> IF b.budget < 4000 THEN "low"
                                        ELSE IF b.budget < 16000 THEN "medium" ELSE "high"
         [] OTHER                    -> None

\* openai_chat_reasoning(): names of OpenAI's have no third form of their own.
ChatForced(m, form) ==
  IF form = "unsupported" THEN NoThinking
  ELSE IF m.native THEN Sends("reasoning_effort", IF form = "max" THEN Effort(m) ELSE "high")
  ELSE CASE form = "max" -> Sends("reasoning.effort", "max")
         [] form = "alt" -> Sends("reasoning.max_tokens", 24576)
         [] OTHER        -> Sends("reasoning_effort", "high")

\* openai_responses_reasoning(): the third form is the first.
ResponsesForced(m, form) ==
  IF form = "unsupported" THEN NoThinking
  ELSE Sends("reasoning.effort", IF form = "alt" THEN "high" ELSE Effort(m))

OpenAI(m, b, kind, forced) ==
  [thinking |->
     IF b.form # "" THEN forced
     ELSE IF m.native /\ ClientEffort(m, b) # None THEN Sends(kind, ClientEffort(m, b))
     ELSE NoThinking,
   max |-> b.max]

\* gemini_thinking_config() and build_generation_config().
GeminiBudget_All(b, cap) == Clamped(b.max, 1024, cap)
GeminiBudget(b, cap) == Clamped(b.max - 1, 1024, cap)
GeminiForced(series, b) ==
  IF series = "legacy" \/ b.form = "unsupported" THEN NoThinking
  ELSE IF b.form = "max" /\ UsesLevel(series) THEN Sends("thinkingLevel", "high")
  ELSE Sends("thinkingBudget",
             GeminiBudget(b, IF b.form \in {"max", "alt"} THEN 24576 ELSE 1024))
GeminiClient(series, b) ==
  CASE b.thinking = "enabled"                            -> Sends("thinkingBudget", b.budget)
    [] b.thinking = "disabled" /\ ~UsesLevel(series)     -> Sends("thinkingBudget", 0)
    [] b.thinking = "adaptive" \/ (b.thinking = "disabled" /\ UsesLevel(series)) ->
         Sends("includeThoughts", b.thinking = "adaptive")
    [] OTHER                                             -> NoThinking
Gemini(m, b) ==
  [thinking |-> IF b.form # "" THEN GeminiForced(Series(m.name), b)
                ELSE GeminiClient(Series(m.name), b),
   max |-> b.max]

Sent(m, b) ==
  CASE m.protocol = "anthropic" -> Claude(m, b)
    [] m.protocol = "chat"      -> OpenAI(m, b, "reasoning_effort", ChatForced(m, b.form))
    [] m.protocol = "responses" -> OpenAI(m, b, "reasoning.effort", ResponsesForced(m, b.form))
    [] m.protocol = "gemini"    -> Gemini(m, b)

\* What an upstream knows or does not know: the parameter, and its value when it is a word.
Shape(t) == IF t.kind \in {"enabled", "thinkingBudget", "reasoning.max_tokens"}
            THEN <<t.kind>> ELSE IF t.kind = "none" THEN <<>> ELSE <<t.kind, t.value>>
Ladder == {"max", "alt", "legacy"}
Shapes(m, b) == {Shape(Sent(m, [b EXCEPT !.form = f]).thinking) : f \in Ladder}

-------------------------------------------------------------------------------
\* The complaints, each with the words of its text and whether it is due.
Foreign == {"invalid", "signature", "thinking", "block"}
Prefix == {"expected", "thinking", "redacted_thinking", "found", "tool_use"}
Small == {"thinking", "budget_tokens", "input should be", "1024",
          "greater than or equal to 1024"}
Order == {"max_tokens", "thinking", "budget_tokens"}
Limit == {"max_tokens", "output tokens"}
Unknown == {"reasoning", "effort", "thinking", "not supported", "not support"}
Media == {"image", "does not support", "not support"}

IsBudget(t) == t.kind = "enabled"
Offends(m, d, b, sent) ==
  (IF d.foreign /\ b.blocks THEN {Foreign} ELSE {})
  \cup (IF m.protocol = "anthropic" /\ IsBudget(sent.thinking) /\ b.tool /\ ~b.first
        THEN {Prefix} ELSE {})
  \cup (IF m.protocol = "anthropic" /\ IsBudget(sent.thinking) /\ sent.thinking.value < 1024
        THEN {Small} ELSE {})
  \cup (IF m.protocol = "anthropic" /\ IsBudget(sent.thinking)
           /\ sent.thinking.value >= 1024 /\ sent.thinking.value >= sent.max
        THEN {Order} ELSE {})
  \cup (IF sent.max > d.limit THEN {Limit} ELSE {})
  \cup (IF Shape(sent.thinking) \notin d.takes THEN {Unknown} ELSE {})
  \cup (IF b.media /\ d.noMedia THEN {Media} ELSE {})

\* should_rectify_thinking_signature(): what it takes for the thinking blocks of the
\* history to be at fault.
BlocksAtFault(text) ==
  \/ {"invalid", "signature", "thinking", "block"} \subseteq text
  \/ "thought signature" \in text /\ text \cap {"not valid", "invalid"} # {}
  \/ "must start with a thinking block" \in text
  \/ {"expected", "found", "tool_use"} \subseteq text
     /\ text \cap {"thinking", "redacted_thinking"} # {}
  \/ "signature" \in text
     /\ text \cap {"field required", "extra inputs are not permitted"} # {}
  \/ "cannot be modified" \in text /\ text \cap {"thinking", "redacted_thinking"} # {}
  \/ text \cap {"illegal request", "invalid request"} # {}
     /\ text \cap {"signature", "thinking", "thought", "tool_use"} # {}

\* should_rectify_thinking_budget().
BudgetAtFault(text) ==
  /\ text \cap {"budget_tokens", "budget tokens"} # {} /\ "thinking" \in text
  /\ \/ text \cap {"greater than or equal to 1024", ">= 1024"} # {}
     \/ {"1024", "input should be"} \subseteq text

\* is_thinking_rejection().
ThinkingRejected(text) ==
  /\ text \cap {"reasoning", "thinking", "thought", "effort", "budget_tokens",
                "thinkingconfig", "thinking_level", "thinking_budget"} # {}
  /\ text \cap {"unsupported", "not supported", "does not support", "unrecognized",
                "unknown", "invalid", "extra inputs", "not allowed", "unexpected",
                "not permitted"} # {}

\* max_tokens_limit(): the least number of four digits or more that the text has.
LimitIn(text, numbers) ==
  LET large == {n \in numbers : n >= 1000} IN
  IF text \cap {"max_tokens", "max_completion_tokens", "output tokens",
                "max_output_tokens"} = {} \/ large = {}
  THEN None ELSE Min(large)

\* looks_like_media_rejection().
MediaRejected(text) ==
  /\ text \cap {"image", "vision", "multimodal", "media", "document", "pdf"} # {}
  /\ text \cap {"not support", "unsupported", "does not support", "can't process",
                "cannot process", "invalid content", "only text", "text-only"} # {}

-------------------------------------------------------------------------------
\* rectify_anthropic_request(): no thinking block is left, and so a call of a tool can no
\* longer begin with one: the thinking that is switched on is taken away.
WithoutBlocks(b) == [b EXCEPT !.blocks = FALSE, !.first = FALSE]
Starts(b) == b.thinking = "enabled" /\ b.tool /\ ~b.first
BlocksRemoved_KeepsThinking(b) == WithoutBlocks(b)
BlocksRemoved(b) ==
  IF Starts(WithoutBlocks(b)) THEN [WithoutBlocks(b) EXCEPT !.thinking = "none", !.budget = 0]
  ELSE WithoutBlocks(b)

\* rectify_thinking_budget().
MaxThinkingBudget == 32000
MaxTokensValue == 64000
BudgetRaised_KeepsMax(b) ==
  IF b.thinking = "adaptive" THEN b
  ELSE [b EXCEPT !.thinking = "enabled", !.budget = MaxThinkingBudget]
BudgetRaised(b) ==
  IF b.thinking = "adaptive" THEN b
  ELSE [b EXCEPT !.thinking = "enabled", !.budget = MaxThinkingBudget,
                 !.max = IF @ <= MaxThinkingBudget THEN MaxTokensValue ELSE @]

\* downgrade() of the marker.
Downgraded_Skips(form) == IF form = "max" THEN "legacy" ELSE "unsupported"
Downgraded(form) ==
  CASE form = "max" -> "alt" [] form = "alt" -> "legacy" [] OTHER -> "unsupported"

\* clamp_max_tokens() and replace_images_with_placeholder().
MaxClamped(b, limit) ==
  [b EXCEPT !.max = IF limit # None /\ limit < @ THEN limit ELSE @]
WithoutMedia(b) == [b EXCEPT !.media = FALSE]

\* apply_builtin(): the first repair that recognises the text, has not been tried and has
\* something to change.  The form of the thinking may be lowered again and again.
Repair == {"ThinkingSignature", "ThinkingBudget", "ThinkingForm", "MaxTokensClamp",
           "MediaFallback"}
Recognises(c, r, text, limit) ==
  CASE r = "ThinkingSignature" -> c.enabled /\ c.signature /\ BlocksAtFault(text)
    [] r = "ThinkingBudget"    -> c.enabled /\ c.budget /\ BudgetAtFault(text)
    [] r = "ThinkingForm"      -> c.enabled /\ ThinkingRejected(text)
    [] r = "MaxTokensClamp"    -> limit # None
    [] r = "MediaFallback"     -> c.media /\ MediaRejected(text)
Repaired(r, b, limit) ==
  CASE r = "ThinkingSignature" -> BlocksRemoved(b)
    [] r = "ThinkingBudget"    -> BudgetRaised(b)
    [] r = "ThinkingForm"      ->
         IF b.form \in {"", "unsupported"} THEN b ELSE [b EXCEPT !.form = Downgraded(@)]
    [] r = "MaxTokensClamp"    -> MaxClamped(b, limit)
    [] r = "MediaFallback"     -> WithoutMedia(b)
Places == <<"ThinkingSignature", "ThinkingBudget", "ThinkingForm", "MaxTokensClamp",
            "MediaFallback">>
Usable(c, b, seen, text, limit) ==
  {i \in DOMAIN Places : /\ Places[i] \notin seen
                         /\ Recognises(c, Places[i], text, limit)
                         /\ Repaired(Places[i], b, limit) # b}

-------------------------------------------------------------------------------
Model(protocol, name, native, tops) ==
  [protocol |-> protocol, name |-> name, native |-> native, tops |-> tops]
Models ==
  {Model("anthropic", name, FALSE, FALSE) :
     name \in {<<4, 5, 20250929>>, <<4, 20250514>>, <<4, 6>>, <<4, 7>>, <<>>}}
  \cup {Model("gemini", name, FALSE, FALSE) : name \in {<<1, 5>>, <<2, 5>>, <<3>>, <<>>}}
  \cup {Model("chat", <<>>, native, FALSE) : native \in BOOLEAN}
  \cup {Model("chat", <<>>, TRUE, TRUE), Model("responses", <<>>, TRUE, TRUE),
        Model("responses", <<>>, FALSE, FALSE)}

\* What of a client's history the repairs look at: whether it has thinking blocks, and
\* whether its last assistant message begins with one and calls a tool.
Histories == {[blocks |-> FALSE, first |-> FALSE, tool |-> FALSE],
              [blocks |-> TRUE, first |-> TRUE, tool |-> TRUE],
              [blocks |-> TRUE, first |-> FALSE, tool |-> TRUE],
              [blocks |-> FALSE, first |-> FALSE, tool |-> TRUE]}
Thinkings ==
  {<<"none", 0>>, <<"disabled", 0>>, <<"adaptive", 0>>} \cup {<<"enabled", n>> : n \in BudgetsOf}

\* set_mode(): the marker is "" without max_thinking; else the form noted on the entry.
Body(max, thinking, effort, h, media, form) ==
  [max |-> max, thinking |-> thinking[1], budget |-> thinking[2], effort |-> effort,
   blocks |-> h.blocks, first |-> h.first, tool |-> h.tool, media |-> media, form |-> form]

\* The histories and the media matter to few demands; the client's own parameters do not
\* matter where thinking is forced.
Configs == {[enabled |-> TRUE, signature |-> TRUE, budget |-> TRUE, media |-> TRUE],
            [enabled |-> TRUE, signature |-> FALSE, budget |-> TRUE, media |-> TRUE],
            [enabled |-> FALSE, signature |-> TRUE, budget |-> TRUE, media |-> FALSE]}
Accepted(m, b) == {<<>>, Shape(Sent(m, b).thinking)}

Init ==
  /\ model \in Models /\ config \in Configs /\ tried = {} /\ at = "try"
  /\ \E max \in MaxTokensOf, t \in Thinkings, e \in {None, "low", "max"}, h \in Histories,
        media \in BOOLEAN, form \in {"", "max", "alt"} :
       /\ h.blocks \/ h.tool => model.protocol = "anthropic" /\ ~media
       /\ form # "" => t[1] # "disabled" /\ t[1] # "adaptive" /\ e = None
       /\ e # None => model.protocol \in {"chat", "responses"} /\ form = ""
       /\ body = Body(max, t, e, h, media, form)
  /\ \E limit \in Limits, foreign, noMedia \in BOOLEAN, takes \in SUBSET Shapes(model, body) :
       /\ foreign => body.blocks
       /\ noMedia => body.media
       /\ body.form = "" => takes = {}
       /\ demand = [limit |-> limit, foreign |-> foreign, noMedia |-> noMedia,
                    takes |-> takes \cup (IF body.form = "" THEN Accepted(model, body)
                                          ELSE {<<>>})]

TypeOK ==
  /\ model \in Models /\ config \in Configs /\ tried \subseteq Repair
  /\ at \in {"try", "accepted", "given up", "disabled"}
  /\ body.max \in Nat \ {0} /\ body.budget \in Nat
  /\ body.thinking \in {"none", "disabled", "adaptive", "enabled"}
  /\ {body.blocks, body.first, body.tool, body.media} \subseteq BOOLEAN
  /\ body.form \in Ladder \cup {"", "unsupported"}

Complaints == Offends(model, demand, body, Sent(model, body))

Answer ==
  /\ at = "try" /\ Complaints = {}
  /\ at' = "accepted" /\ UNCHANGED <<model, demand, config, body, tried>>

\* The upstream complains, and the first usable repair is made; the last form of all
\* disables the entry.
Mend(repair, limit) ==
  /\ body' = Repaired(repair, body, limit)
  /\ tried' = IF repair = "ThinkingForm" THEN tried ELSE tried \cup {repair}
  /\ at' = IF body'.form = "unsupported" THEN "disabled" ELSE "try"

Numbers(text) == IF text = Limit THEN {demand.limit, Sent(model, body).max} ELSE {}
Complain ==
  /\ at = "try"
  /\ \E text \in Complaints :
       LET limit == LimitIn(text, Numbers(text))
           usable == Usable(config, body, tried, text, limit)
       IN  IF usable = {} THEN at' = "given up" /\ UNCHANGED <<body, tried>>
           ELSE Mend(Places[Min(usable)], limit)
  /\ UNCHANGED <<model, demand, config>>

Next == Answer \/ Complain

Spec == Init /\ [][Next]_vars

-------------------------------------------------------------------------------
\* The budget that the gateway asks for on its own is one that the upstream can grant:
\* Claude wants 1024 <= budget < max_tokens, whatever max_tokens the client has sent or the
\* repairs have made of it.  Gemini takes the budget from maxOutputTokens, and is left one
\* token at least, but only where there are more than 1024: see AnswerHasRoom.
SentBudgetFits ==
  body.form \in Ladder =>
    LET sent == Sent(model, body) IN
    sent.thinking.kind \in {"enabled", "thinkingBudget"} =>
      /\ sent.thinking.value >= 1024
      /\ sent.max > 1024 => sent.thinking.value < sent.max
      /\ model.protocol = "anthropic" => sent.thinking.value < sent.max

\* An entry is disabled only when its upstream takes no form of the ladder from the noted
\* one down: no form as the converters write it for that name, which for a Claude of an
\* unknown version is no budget on any step of the ladder (LegacyIsABudget).  Not so when
\* the repair of the blocks is switched off: the error of a signature reads like a refusal
\* of thinking.
DisabledOnlyIfNoFormFits ==
  at = "disabled" /\ ~(demand.foreign /\ ~config.signature) =>
    ~ \E f \in Ladder : /\ f \in {"alt", "legacy"}
                        /\ Shape(Sent(model, [body EXCEPT !.form = f]).thinking) \in demand.takes

\* The repairs do not stand in each other's way: whatever the upstream complains of first,
\* with every repair switched on a request is only given up for what no repair is for, or
\* because the budget was raised past a limit that max_tokens is clamped to only once, or
\* because the limit is too short a number to be read.
RepairsCompose ==
  at = "given up" /\ config.enabled /\ config.signature =>
    \/ demand.limit < 1000
    \/ body.form = "" /\ Shape(Sent(model, body).thinking) \notin demand.takes
    \/ /\ body.form = "" /\ body.thinking = "enabled" /\ "ThinkingBudget" \notin tried
       /\ body.budget >= Min({body.max, demand.limit})   \* the client's own
    \/ "ThinkingBudget" \in tried /\ demand.limit <= MaxThinkingBudget
    \/ /\ body.form # ""   \* forced thinking wants a first block, and 1025 tokens
       /\ (body.tool /\ ~body.first) \/ demand.limit <= 1024

-------------------------------------------------------------------------------
\* What the comments promise, and the code does not keep.

\* The last form of the ladder is the old budget, and asks for no `display`; it is there
\* for the names that are not recognised (thinking_policy.rs:40, :126 and :132).  But
\* ClaudeForced looks at the name alone, so that such a name gets "adaptive" with every
\* form, and an upstream that takes budgets only has its entry disabled.
LegacyIsABudget ==
  model.protocol = "anthropic" /\ body.form = "legacy" =>
    Sent(model, body).thinking.kind = "enabled"

\* The budget leaves room for the answer (thinking_policy.rs:190).  With a max_tokens of
\* 1024 or less a Gemini of series 2 is asked to think for all of them.
AnswerHasRoom ==
  body.form \in Ladder =>
    LET sent == Sent(model, body) IN
    sent.thinking.kind = "thinkingBudget" => sent.thinking.value < sent.max
===============================================================================
