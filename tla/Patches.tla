-------------------------------- MODULE Patches --------------------------------
(***************************************************************************)
(* The patches of the rectifier (rectify/patch.rs), the sketch of a        *)
(* request that the analysing model is shown (rectify/skeleton.rs), and    *)
(* the name under which a patch is found again (rectify/rules.rs).  In     *)
(* Rectify a patch is only a name.                                         *)
(*                                                                         *)
(* A JSON value is a function from paths to nodes, a path is a sequence of *)
(* object keys and array places, and a node is <<kind, text>>.  Lengths of *)
(* strings are left out (a long string is shown cut), and so is what an    *)
(* object has beyond its first 40 or 60 keys.                              *)
(***************************************************************************)
EXTENDS Integers, SequencesExt, Functions

CONSTANTS
  None,
  MaxBlocks,   \* blocks in a message
  MaxTools,    \* tools of a request
  MaxOps,      \* MAX_OPS
  ArrayKeep,   \* ARRAY_KEEP
  DepthLimit   \* DEPTH_LIMIT, and the 4 of value_skeleton

PatchesAssumption ==
  /\ MaxBlocks \in 1 .. 3 /\ MaxTools \in 1 .. 3 /\ MaxOps \in Nat \ {0}
  /\ ArrayKeep \in Nat /\ DepthLimit \in Nat

VARIABLES
  first,    \* the body as the client sent it
  doc,      \* the body
  asked,    \* the complaint that is being analysed, or whose rule is being used
  shown,    \* the sketch sent to the analysing model
  ops,      \* the patch
  done,     \* how many of its operations are carried out
  learned   \* the rule: the patch, and the fingerprint it was learned for

vars == <<first, doc, asked, shown, ops, done, learned>>

-------------------------------------------------------------------------------
\* JSON.

Places == <<"0", "1", "2">>
IsPlace(token) == token \in Range(Places)
Place(token) == CHOOSE i \in 1 .. 3 : Places[i] = token

Object == <<"object", "">>
Array == <<"array", "">>
Str(text) == <<"string", text>>
Literal == <<"literal", "">>   \* a number, a Boolean or null
Leaf(node) == (<<>> :> node)

Tree(node, child) ==
  [p \in {<<>>} \cup UNION {{<<k>> \o q : q \in DOMAIN child[k]} : k \in DOMAIN child} |->
     IF p = <<>> THEN node ELSE child[p[1]][Tail(p)]]
Obj(child) == Tree(Object, child)
Arr(items) == Tree(Array, [k \in {Places[i] : i \in DOMAIN items} |-> items[Place(k)]])
Text(text) == Leaf(Str(text))

Has(d, p) == p \in DOMAIN d
Under(d, p) == {q \in DOMAIN d : IsPrefix(p, q)}
Part(d, p) == [q \in {SubSeq(r, Len(p) + 1, Len(r)) : r \in Under(d, p)} |-> d[p \o q]]
Keys(d) == {p[1] : p \in DOMAIN d \ {<<>>}}
Items(d) == [i \in 1 .. Cardinality(Keys(d)) |-> Part(d, <<Places[i]>>)]
Field(d, key, default) == IF Has(d, <<key>>) THEN Part(d, <<key>>) ELSE default
Only(d, keys) == [k \in Keys(d) \cap keys |-> Part(d, <<k>>)]
Put(d, p, value) ==
  [q \in (DOMAIN d \ Under(d, p)) \cup {p \o r : r \in DOMAIN value} |->
     IF IsPrefix(p, q) THEN value[SubSeq(q, Len(p) + 1, Len(q))] ELSE d[q]]

\* The later items of an array close up.
TakeOut(d, p) ==
  LET parent == Front(p)
      n == Len(p)
      Later(q) == IsStrictPrefix(parent, q) /\ Place(q[n]) > Place(p[n])
      Closed(q) == IF Later(q) THEN [q EXCEPT ![n] = Places[Place(q[n]) - 1]] ELSE q
      Opened(q) == CHOOSE r \in DOMAIN d \ Under(d, p) : Closed(r) = q
  IN  IF d[parent] = Array
      THEN [q \in {Closed(r) : r \in DOMAIN d \ Under(d, p)} |-> d[Opened(q)]]
      ELSE [q \in DOMAIN d \ Under(d, p) |-> d[q]]

-------------------------------------------------------------------------------
\* patch.rs.

RemoveAllowed(p) ==
  \/ p = <<"thinking">>
  \/ Len(p) = 2 /\ p[1] = "tools" /\ IsPlace(p[2])
  \/ Len(p) = 4 /\ p[1] = "tools" /\ IsPlace(p[2]) /\ p[3] = "input_schema"
  \/ /\ Len(p) = 5 /\ p[1] = "tools" /\ IsPlace(p[2])
     /\ p[3] = "input_schema" /\ p[4] = "properties"
  \/ /\ Len(p) \in {4, 5} /\ p[1] = "messages" /\ IsPlace(p[2])
     /\ p[3] = "content" /\ IsPlace(p[4]) /\ (Len(p) = 5 => p[5] = "cache_control")

BlockFields == {"type", "name", "tool_use_id", "is_error", "cache_control"}

WriteAllowed_AnyField(p) ==
  \/ p[1] \in {"tools", "tool_choice", "max_tokens", "thinking", "output_config", "system",
               "stop_sequences", "temperature"}
  \/ Len(p) = 5 /\ p[1] = "messages" /\ IsPlace(p[2]) /\ p[3] = "content" /\ IsPlace(p[4])

WriteAllowed(p) ==
  \/ p[1] \in {"tools", "tool_choice", "max_tokens", "thinking", "output_config", "system",
               "stop_sequences", "temperature"}
  \/ /\ Len(p) = 5 /\ p[1] = "messages" /\ IsPlace(p[2]) /\ p[3] = "content" /\ IsPlace(p[4])
     /\ p[5] \in BlockFields

\* parse(): one operation that is not allowed refuses the whole patch.
Parsed(patch) ==
  /\ Len(patch) <= MaxOps
  /\ \A i \in DOMAIN patch :
       IF patch[i].op = "remove" THEN RemoveAllowed(patch[i].path)
                                 ELSE WriteAllowed(patch[i].path)

\* apply_one() is an error: a parent that is missing or of the other kind, a place beyond
\* the end, an addition to an array.  A token that reads as a number is never a key.
Fails(d, o) ==
  LET parent == Front(o.path)
      token == Last(o.path)
  IN  \/ ~Has(d, parent)
      \/ \E n \in 1 .. Len(o.path) - 1 :
           IsPlace(o.path[n]) /\ d[SubSeq(o.path, 1, n - 1)] # Array
      \/ IsPlace(token) /\ (d[parent] # Array \/ ~Has(d, o.path) \/ o.op = "add")
      \/ ~IsPlace(token) /\ d[parent] # Object

\* apply_one(): what is missing is neither replaced nor removed.
Applied(d, o) ==
  CASE o.op = "remove"                          -> IF Has(d, o.path) THEN TakeOut(d, o.path) ELSE d
    [] o.op = "replace" /\ ~Has(d, o.path)      -> d
    [] OTHER                                    -> Put(d, o.path, o.value)

-------------------------------------------------------------------------------
\* skeleton.rs.

Placeholder == Text("...")
TypeOf(block) == Field(block, "type", Text("?"))[<<>>][2]

\* value_skeleton().
ValueSketch_Verbatim(v) ==
  LET Kept(q) == \A n \in 1 .. Len(q) :
                   v[SubSeq(q, 1, n - 1)] = Array => Place(q[n]) <= ArrayKeep
  IN  [q \in {r \in DOMAIN v : Kept(r) /\ Len(r) <= DepthLimit + 1} |->
         IF Len(q) > DepthLimit THEN Placeholder[<<>>] ELSE v[q]]

ValueSketch(v) ==
  LET Kept(q) == \A n \in 1 .. Len(q) :
                   v[SubSeq(q, 1, n - 1)] = Array => Place(q[n]) <= ArrayKeep
  IN  [q \in {r \in DOMAIN v : Kept(r) /\ Len(r) <= DepthLimit + 1} |->
         IF Len(q) > DepthLimit \/ v[q][1] = "string" THEN Placeholder[<<>>] ELSE v[q]]

\* block_skeleton(), of a block within no other.
PlainSketch(b) ==
  CASE TypeOf(b) \in {"text", "thinking"} ->
         Obj([k \in {"type", TypeOf(b)} |-> IF k = "type" THEN Part(b, <<k>>) ELSE Placeholder])
    [] TypeOf(b) = "redacted_thinking" -> Obj(Only(b, {"type"}) @@ ("data" :> Placeholder))
    [] TypeOf(b) \in {"image", "document"} ->
         Obj(Only(b, {"type"}) @@ [k \in {"media_type", "data_bytes"} |-> Leaf(Literal)])
    [] TypeOf(b) \in {"tool_use", "server_tool_use"} ->
         Obj(Only(b, {"type", "id", "name"})
             @@ ("input" :> ValueSketch(Field(b, "input", Leaf(Literal)))))
    [] OTHER -> b

BlockSketch(b) ==
  IF TypeOf(b) # "tool_result" THEN PlainSketch(b)
  ELSE LET content == Field(b, "content", Leaf(Literal))
       IN  Obj(Only(b, {"type", "tool_use_id"})
               @@ ("is_error" :> Field(b, "is_error", Leaf(Literal)))
               @@ ("content" :>
                     CASE content[<<>>] = Array ->
                            Arr([i \in DOMAIN Items(content) |-> PlainSketch(Items(content)[i])])
                       [] content[<<>>][1] = "string" -> Placeholder
                       [] OTHER -> content))

BlocksSketch_WithoutTexts(blocks) ==
  LET others == SelectSeq(blocks, LAMBDA b : TypeOf(b) # "text")
  IN  Arr([i \in DOMAIN others |-> BlockSketch(others[i])])
BlocksSketch(blocks) == Arr([i \in DOMAIN blocks |-> BlockSketch(blocks[i])])

\* schema_skeleton(): what stands at a path of a schema, and how deep it is.  Under a
\* keyword that is not known, everything is kept.
Lists == {"enum", "anyOf", "oneOf", "allOf"}
Subschemas == {"items", "additionalProperties", "not"}
Reach(s, p) ==
  FoldLeft(LAMBDA here, n :
    LET node == s[SubSeq(p, 1, n - 1)]
        value == s[SubSeq(p, 1, n)]
        k == p[n]
        deeper == <<"schema", here[2] + 1>>
    IN  IF here[1] \in {"gone", "kept"} THEN here
        ELSE IF here[1] = "schema" /\ here[2] > DepthLimit THEN <<"gone", here[2]>>
        ELSE IF here[1] = "names" THEN deeper
        ELSE IF here[1] = "list" \/ node = Array
        THEN IF Place(k) <= ArrayKeep THEN deeper ELSE <<"gone", here[2]>>
        ELSE CASE k = "properties" -> <<IF value = Object THEN "names" ELSE "gone", here[2]>>
               [] k \in Lists      -> <<IF value = Array THEN "list" ELSE "gone", here[2]>>
               [] k \in Subschemas -> deeper
               [] OTHER            -> <<"kept", here[2]>>,
    <<"schema", 0>>, [n \in 1 .. Len(p) |-> n])

\* The lengths that are noted for lists cut short.
Total(k) ==
  CASE k = "enum" -> "enum_total" [] k = "anyOf" -> "anyOf_total"
    [] k = "oneOf" -> "oneOf_total" [] OTHER -> "allOf_total"
Totals == {Total(k) : k \in Lists}
Cut(s) ==
  {p \in DOMAIN s : /\ p # <<>> /\ Reach(s, p)[1] = "list"
                    /\ Has(s, p \o <<Places[ArrayKeep + 1]>>)}

SchemaSketch(s) ==
  LET reached == {p \in DOMAIN s : Reach(s, p)[1] # "gone"}
      totals == {Front(p) \o <<Total(Last(p))>> : p \in Cut(s)}
      deep(p) == LET r == Reach(s, p) IN r[1] = "schema" /\ r[2] > DepthLimit
  IN  [p \in reached \cup totals |->
         IF p \in totals THEN Literal ELSE IF deep(p) THEN Placeholder[<<>>] ELSE s[p]]

ToolSketch(t) ==
  Obj(Only(t, {"type", "name", "description"})
      @@ (IF Has(t, <<"input_schema">>)
          THEN ("input_schema" :> SchemaSketch(Part(t, <<"input_schema">>)))
          ELSE <<>>))

\* strip_descriptions(): the keys of an object of properties are names.
Names(d, p) ==
  FoldLeft(LAMBDA here, n :
    /\ ~here /\ p[n] = "properties"
    /\ d[SubSeq(p, 1, n - 1)] = Object /\ d[SubSeq(p, 1, n)] = Object,
    FALSE, [n \in 1 .. Len(p) |-> n])
WithoutDescriptions(d) ==
  [p \in {q \in DOMAIN d : \/ q = <<>> \/ Last(q) # "description" \/ d[q][1] # "string"
                           \/ Names(d, Front(q)) \/ d[Front(q)] # Object} |-> d[p]]

\* strip_schema_strings().
WithoutEnums(d) ==
  LET enums == {p \in DOMAIN d : p # <<>> /\ Last(p) = "enum" /\ d[p] = Array}
  IN  [p \in {q \in DOMAIN d : \A e \in enums : ~IsStrictPrefix(e, q)} |->
         IF p \in enums THEN Placeholder[<<>>] ELSE d[p]]

\* build().  The size is how far the sketch is above TARGET_BYTES: 1 without the
\* descriptions, 2 without the enumerations too.
Sketch(d, size) ==
  LET MessageSketch(m) ==
        LET content == Part(m, <<"content">>)
        IN  Obj(("role" :> Part(m, <<"role">>))
                @@ ("content" :>
                      CASE content[<<>>] = Array -> BlocksSketch(Items(content))
                        [] content[<<>>][1] = "string" -> Placeholder
                        [] OTHER -> content))
      Each(key, Of(_)) ==
        IF ~Has(d, <<key>>) \/ d[<<key>>] # Array THEN <<>>
        ELSE LET items == Items(Part(d, <<key>>))
             IN  (key :> Arr([i \in DOMAIN items |-> Of(items[i])]))
      system ==
        IF ~Has(d, <<"system">>) THEN <<>>
        ELSE ("system" :> IF d[<<"system">>] = Array \/ d[<<"system">>][1] = "string"
                          THEN Placeholder ELSE Part(d, <<"system">>))
      all == Obj(Only(d, {"model", "max_tokens", "stream", "tool_choice", "thinking",
                          "output_config", "temperature", "top_p", "stop_sequences"})
                 @@ (IF Has(d, <<"metadata">>) THEN ("metadata_present" :> Leaf(Literal)) ELSE <<>>)
                 @@ system @@ Each("messages", MessageSketch) @@ Each("tools", ToolSketch))
  IN  CASE size = 0 -> all
        [] size = 1 -> WithoutDescriptions(all)
        [] OTHER    -> WithoutEnums(WithoutDescriptions(all))

-------------------------------------------------------------------------------
\* What upstreams complain of, and what the gateway and the analysing model make of it.

\* The tools that the converters send (transform.rs, transform_gemini.rs), by name.
ToolName(d, i) == d[<<"tools", Places[i], "name">>][2]
ToolsOf(d) == IF Has(d, <<"tools">>) THEN 1 .. Cardinality(Keys(Part(d, <<"tools">>))) ELSE {}
IsBatch(d, i) == TypeOf(Part(d, <<"tools", Places[i]>>)) = "BatchTool"
Sent(d) ==
  LET names == [i \in ToolsOf(d) |-> IF IsBatch(d, i) THEN None ELSE ToolName(d, i)]
  IN  SelectSeq(names, LAMBDA name : name # None)

\* An error text complains of the k-th tool that was sent, or (0) of something else.
ErrorText(k) == IF k = 0 THEN <<"request">> ELSE <<"tools", Places[k]>>

\* fingerprint(): the digits of the text are erased.
Fingerprint(protocol, text) ==
  <<protocol, [i \in DOMAIN text |-> IF IsPlace(text[i]) THEN "#" ELSE text[i]]>>

\* wire_note(): the tool of the body that stands for the k-th tool sent.  The note to the
\* protocols of OpenAI does not say that BatchTools are not sent.
Noted_AsNumbered(d, protocol, k) == k
Noted(d, protocol, k) ==
  IF protocol # "gemini" THEN k
  ELSE CHOOSE i \in ToolsOf(d) :
         ~IsBatch(d, i) /\ Cardinality({j \in 1 .. i : ~IsBatch(d, j)}) = k

-------------------------------------------------------------------------------
\* Bodies of clients: every word of the conversation occurs once.

Words == {"w1", "w2", "w3", "w4"}
Block(type, id, word) ==
  Obj([key \in {"type", "cache_control"} |->
         IF key = "type" THEN Text(type) ELSE Obj("type" :> Text("ephemeral"))]
      @@ CASE type = "text"        -> ("text" :> Text(word))
           [] type = "image"       -> ("source" :> Obj("data" :> Text(word)))
           [] type = "tool_use"    -> ("id" :> Text(id)) @@ ("name" :> Text("t1"))
                                      @@ ("input" :> Obj("arg" :> Arr(<<Text(word), Leaf(Literal)>>)))
           [] type = "tool_result" -> ("tool_use_id" :> Text(id))
                                      @@ ("content" :> Arr(<<Obj(("type" :> Text("text"))
                                                                 @@ ("text" :> Text(word)))>>)))
BlockTypes == {"text", "image", "tool_use", "tool_result"}

Tool(kind, name) ==
  Obj(("name" :> Text(name)) @@ ("description" :> Text("d"))
      @@ CASE kind = "batch" -> ("type" :> Text("BatchTool"))
           [] kind = "plain" -> ("input_schema" :> Obj(("type" :> Text("object"))
                 @@ ("properties" :> Obj("description" :> Text("any")))))
           [] kind = "rich"  -> ("input_schema" :> Obj(
                 ("enum" :> Arr(<<Text("e1"), Text("e2")>>))
                 @@ ("properties" :> Obj("0" :> Obj("items" :> Obj("anyOf" :> Arr(<<Obj("not" :> Text("any"))>>))))))))
ToolKinds == {"batch", "plain", "rich"}

Body(content, tools) ==
  Obj(("model" :> Text("m")) @@ ("thinking" :> Obj("type" :> Text("enabled")))
      @@ ("messages" :> Arr(<<
            Obj(("role" :> Text("user")) @@ ("content" :> Text("w1"))),
            Obj(("role" :> Text("user")) @@ ("content" :> content))>>))
      @@ (IF tools = <<>> THEN <<>> ELSE ("tools" :> Arr(tools))))
Bodies ==
  LET Content(types) == Arr([i \in DOMAIN types |-> Block(types[i], Places[i], <<"w2", "w3", "w4">>[i])])
      ToolList(kinds) == [i \in DOMAIN kinds |-> Tool(kinds[i], <<"t1", "t2", "t3">>[i])]
  IN  {Body(Content(types), ToolList(<<"plain">>)) : types \in SeqOf(BlockTypes, MaxBlocks)}
      \cup {Body(Content(<<"text">>), ToolList(kinds)) : kinds \in SeqOf(ToolKinds, MaxTools)}

-------------------------------------------------------------------------------
Init ==
  /\ doc \in Bodies /\ first = doc
  /\ asked = None /\ shown = None /\ ops = <<>> /\ done = 0 /\ learned = None

\* next_step(), when no rule is known: the body is sketched for the analysing model.
Analyze(protocol, k, size) ==
  /\ asked = None /\ k \in 0 .. Len(Sent(doc))
  /\ asked' = [protocol |-> protocol, k |-> k, print |-> Fingerprint(protocol, ErrorText(k))]
  /\ shown' = [size |-> size, sketch |-> Sketch(doc, size)]
  /\ UNCHANGED <<first, doc, ops, done, learned>>

\* A model that is told of a tool follows the note.
Removal(p) == [op |-> "remove", path |-> p, value |-> None]
NotedTool == <<Removal(<<"tools", Places[Noted(first, asked.protocol, asked.k)]>>)>>

\* What else it may answer: it removes what it is shown, and writes where it is shown
\* a text, or a new field of a message's block.
Answers(sketch) ==
  LET texts == {p \in DOMAIN sketch : sketch[p][1] = "string"}
      blocks == {p \in DOMAIN sketch : Len(p) = 4 /\ p[3] = "content"}
  IN  {Removal(p) : p \in DOMAIN sketch \ {<<>>}}
      \cup {[op |-> "replace", path |-> p, value |-> Text("new")] : p \in texts}
      \cup {[op |-> "add", path |-> Append(p, "is_error"), value |-> Leaf(Literal)] : p \in blocks}

\* (A patch of several operations only takes out.)
Removals(sketch) ==
  BoundedSeq({Removal(p) : p \in {q \in DOMAIN sketch \ {<<>>} : RemoveAllowed(q)}}, MaxOps)

\* analyze(): a patch that is not allowed ends the repair, so only the others are followed.
Answer(patch) ==
  /\ shown # None /\ patch # <<>> /\ Parsed(patch)
  /\ ops' = patch /\ shown' = None
  /\ UNCHANGED <<first, doc, asked, done, learned>>

\* apply(): an error leaves the operations before it carried out.
Apply ==
  /\ done < Len(ops) /\ ~Fails(doc, ops[done + 1])
  /\ doc' = Applied(doc, ops[done + 1]) /\ done' = done + 1
  /\ UNCHANGED <<first, asked, shown, ops, learned>>

\* settle() keeps a patch that helped, and next_step() carries it out on whichever body meets
\* with a complaint of the same fingerprint.
Reuse(b, k) ==
  /\ k \in 0 .. Len(Sent(b)) /\ Fingerprint(asked.protocol, ErrorText(k)) = asked.print
  /\ learned' = [print |-> asked.print, patch |-> ops]
  /\ doc' = b /\ first' = b /\ done' = 0
  /\ asked' = [asked EXCEPT !.k = k]
  /\ UNCHANGED <<shown, ops>>

Next ==
  \/ \E size \in 0 .. 2 : Analyze("anthropic", 0, size)
  \/ \E protocol \in {"gemini", "openai_chat"}, k \in 1 .. MaxTools : Analyze(protocol, k, 0)
  \/ /\ shown # None
     /\ IF asked.k > 0 THEN Answer(NotedTool)
        ELSE \/ \E o \in Answers(shown.sketch) : Answer(<<o>>)
             \/ \E patch \in Removals(shown.sketch) : Answer(patch)
  \/ Apply
  \/ /\ learned = None /\ ops # <<>> /\ done = Len(ops) /\ doc # first
     /\ \E b \in Bodies, k \in 0 .. MaxTools : Reuse(b, k)
Spec == Init /\ [][Next]_vars

-------------------------------------------------------------------------------
TypeOK ==
  /\ <<>> \in DOMAIN doc /\ doc[<<>>] = Object /\ <<>> \in DOMAIN first
  /\ done \in 0 .. Len(ops) /\ Len(ops) <= MaxOps
  /\ asked = None \/ asked.k \in 0 .. MaxTools
  /\ shown = None \/ shown.size \in 0 .. 2

\* What the analysing model is shown is a map of the body: an operation that the sketch
\* allows can be carried out on the body, and it leaves of the sketch what the sketch of
\* the new body shows.  (The noted totals of lists are not in the body.)
SketchIsAMap ==
  shown # None =>
    \A p \in DOMAIN shown.sketch \ {<<>>} :
      RemoveAllowed(p) /\ ~Fails(shown.sketch, Removal(p)) /\ Last(p) \notin Totals =>
        /\ Has(doc, p) /\ ~Fails(doc, Removal(p))
        /\ LET left == TakeOut(shown.sketch, p)
               new == Sketch(TakeOut(doc, p), shown.size)
           IN  \A q \in DOMAIN left \cup DOMAIN new :
                 \/ q # <<>> /\ Last(q) \in Totals
                 \/ Has(left, q) /\ Has(new, q) /\ new[q] = left[q]

\* Of the blocks that skeleton.rs knows, no word is shown to the analysing model.
NothingIsTold ==
  shown # None => \A p \in DOMAIN shown.sketch : shown.sketch[p][2] \notin Words

\* However a patch came about, and whichever request it is carried out on: it may leave
\* blocks of the conversation out, and changes, adds and moves none of its words.
Told(d) ==
  LET Said(p) ==
        {d[q][2] : q \in {r \in Under(d, p) : Len(r) < 5 \/ r[5] \notin BlockFields}}
          \cap (Words \cup {"new"})
      Content(i) == <<"messages", Places[i], "content">>
  IN  [i \in 1 .. Cardinality(Keys(Part(d, <<"messages">>))) |->
         IF d[Content(i)] # Array THEN <<Said(Content(i))>>
         ELSE [j \in 1 .. Cardinality(Keys(Part(d, Content(i)))) |-> Said(Append(Content(i), Places[j]))]]
WordsStay ==
  LET now == Told(doc)
      once == Told(first)
  IN  /\ Len(now) = Len(once)
      /\ \A i \in DOMAIN now : now[i] = SelectSeq(once[i], LAMBDA said : said \in Range(now[i]))

\* A tool that the upstream complains of by its number in what was sent is the tool that a
\* model which follows the note takes out.  (For the protocols of OpenAI the note is silent
\* about BatchTools: only for bodies without them.)
RepairFindsTheTool ==
  ops # <<>> /\ learned = None /\ asked.k > 0 /\ done = Len(ops)
  /\ (asked.protocol = "gemini" \/ \A i \in ToolsOf(first) : ~IsBatch(first, i)) =>
    Sent(doc) = RemoveAt(Sent(first), asked.k)
================================================================================
