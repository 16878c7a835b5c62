------------------------------- MODULE Metering -------------------------------
(***************************************************************************)
(* The tokens of an answer, from what the upstream says of them to the row *)
(* of the request log and to what the client is told.  An upstream of      *)
(* OpenAI's kind counts what it read from its cache, and what it wrote to  *)
(* it, within the input; Anthropic's protocol has three counts that        *)
(* exclude each other, and so have the rows.  The converters take the      *)
(* counts apart, the pipeline (pipeline/mod.rs) keeps the last that is not *)
(* zero, the search loop (websearch/search_loop.rs) makes one usage of its *)
(* segments.                                                               *)
(*                                                                         *)
(* An upstream's count does not change while it answers, but for the       *)
(* output; counts are far below 2^32, where `as u32` would wrap.           *)
(***************************************************************************)
EXTENDS Naturals, Sequences, FiniteSetsExt

CONSTANTS
  None,
  MaxTokens,   \* bound: tokens of a kind; of the input, which has two of them, twice that
  MaxSegments  \* bound: answers of the upstream to a request that searches

MeteringAssumption ==
  /\ MaxTokens \in Nat \ {0} /\ MaxSegments \in Nat \ {0}
  /\ None \notin [read: Nat, written: Nat]

VARIABLES
  upstream,  \* its protocol, how it names its counts, what it counted, what it said
  pipe,      \* the usage of the Pipeline of this segment, and how far it is
  loop,      \* the usage of wrap(), and whether the request searches at all
  logged,    \* the usages in the rows of the request, in order
  told       \* the usage of the last message_delta the client has got

vars == <<upstream, pipe, loop, logged, told>>

Tokens == 0..MaxTokens
Usage == [input: Nat, read: Nat, written: Nat, output: Nat]
Zero == [input |-> 0, read |-> 0, written |-> 0, output |-> 0]
Less(a, b) == IF b > a THEN 0 ELSE a - b

\* What an upstream has counted: the input includes what was read and written.
Count == {c \in [input: 0..(2 * MaxTokens), read: Tokens, written: Tokens, output: Tokens] :
            c.read + c.written <= c.input}
Fresh(c) == [c EXCEPT !.input = Less(@, c.read + c.written)]

-------------------------------------------------------------------------------
\* What an upstream says: the counts of the caches stand next to the input ("direct"),
\* in the details of the input ("nested"), in both, or nowhere when they are zero; the
\* names are those of chat completions ("prompt") or those of responses ("input").
How == {"direct", "nested"}
Style == {"prompt", "input"}
Object(c, by) ==
  [style |-> by.style, input |-> c.input, output |-> c.output,
   direct |-> IF "direct" \in by.how THEN [read |-> c.read, written |-> c.written] ELSE None,
   nested |-> IF "nested" \in by.how THEN [read |-> c.read, written |-> c.written] ELSE None]
Says(c, by) == by.how # {} \/ c.read + c.written = 0

\* The count where the reader looks for it: next to the input, or else in details of
\* one of these styles.
Nested(object, field, styles) ==
  IF object.nested # None /\ object.style \in styles THEN object.nested[field] ELSE 0
Found(object, field, styles) ==
  IF object.direct = None THEN Nested(object, field, styles) ELSE object.direct[field]
Apart_Inclusive(object, read, written) ==
  [input |-> object.input, read |-> read, written |-> written, output |-> object.output]
Apart(object, read, written) ==
  [input |-> Less(Less(object.input, read), written), read |-> read, written |-> written,
   output |-> object.output]

\* The three counts of an OpenAI object, in a stream of chunks, ...
ChatUsage(object) ==
  Apart(object, Found(object, "read", {"prompt"}), Found(object, "written", {"prompt"}))
\* ... in one document, ...
BodyUsage(object) ==
  Apart(object, Found(object, "read", {"prompt"}), Found(object, "written", Style))
\* ... and of the Responses API, in either style.
ResponsesUsage(object) ==
  Apart(object, Found(object, "read", Style), Found(object, "written", Style))

\* Gemini tells the input, the total and what of the input was cached; nothing of writes.
GeminiObject(c) == [prompt |-> c.input, total |-> c.input + c.output, cached |-> c.read]
GeminiUsage(object) ==
  [input |-> Less(object.prompt, object.cached), read |-> object.cached, written |-> 0,
   output |-> Less(object.total, object.prompt)]

OpenAI == {"chat", "responses"}
Protocol == OpenAI \cup {"anthropic", "gemini"}

\* The usage in Anthropic's form that the converter of the protocol makes of a count.
Converted(protocol, c, by) ==
  CASE protocol = "anthropic" -> Fresh(c)
    [] protocol = "chat" -> ChatUsage(Object(c, by))
    [] protocol = "responses" -> ResponsesUsage(Object(c, by))
    [] protocol = "gemini" -> GeminiUsage(GeminiObject(c))

\* from_claude_response() of the converted document: the usage of the row as it is.
OfDocument(protocol, c, by) ==
  IF protocol = "chat" THEN BodyUsage(Object(c, by)) ELSE Converted(protocol, c, by)

-------------------------------------------------------------------------------
\* A stream.  The converter says what it knows at the start and again at the end; an
\* upstream may tell early, with part of the output, or only at the end, or never.

\* apply_token_usage(): zero is no news.
Applied(usage, news) ==
  [f \in DOMAIN usage |-> IF news[f] > 0 THEN news[f] ELSE usage[f]]

\* capture_message_start_usage() does not look at the output.
AppliedStart(usage, news) == Applied(usage, [news EXCEPT !.output = 0])

\* capture_usage() and merge_usage() of the loop.
Larger(a, b) == [f \in DOMAIN a |-> Max({a[f], b[f]})]
CapturedStart_WithOutput(usage, news) == Larger(usage, news)
CapturedStart(usage, news) == Larger(usage, [news EXCEPT !.output = usage.output])
CapturedEnd(usage, news) == [usage EXCEPT !.output = @ + news.output]
Merged(base, extra, add) ==
  [Larger(base, extra) EXCEPT !.output = IF add THEN base.output + extra.output ELSE @]

NewPipe == [usage |-> Zero, at |-> "start"]
Ways == [style: Style, how: SUBSET How]

Init ==
  /\ \E protocol \in Protocol, by \in Ways, c \in Count :
       /\ protocol = "chat" => by.style = "prompt"
       /\ protocol \in OpenAI => Says(c, by)
       /\ protocol \notin OpenAI => by = [style |-> "input", how |-> {}]
       /\ protocol = "gemini" => c.written = 0
       /\ upstream = [protocol |-> protocol, by |-> by, count |-> c, latest |-> None,
                      atOnce |-> FALSE, repeats |-> FALSE, silent |-> FALSE]
  /\ pipe = NewPipe
  /\ \E searches \in BOOLEAN : loop = [usage |-> Zero, searches |-> searches, segments |-> 0]
  /\ logged = <<>> /\ told = None

TypeOK ==
  /\ upstream.protocol \in Protocol /\ upstream.count \in Count /\ upstream.by \in Ways
  /\ upstream.latest \in Usage \cup {None}
  /\ {upstream.atOnce, upstream.repeats, upstream.silent} \subseteq BOOLEAN
  /\ pipe.usage \in Usage /\ pipe.at \in {"start", "content", "ended", "over"}
  /\ loop.usage \in Usage /\ loop.searches \in BOOLEAN /\ loop.segments \in 0..MaxSegments
  /\ Len(logged) <= MaxSegments /\ \A i \in DOMAIN logged : logged[i].usage \in Usage
  /\ told \in Usage \cup {None}

Usable(c) == Converted(upstream.protocol, c, upstream.by)

\* The start of the message, what the upstream tells with it being known to the converter
\* from then on, and the first content, at which the stream is committed and handed to
\* the loop with the usage so far; the loop reads the start once more.
StartedWith(news) ==
  /\ pipe' = [usage |-> AppliedStart(pipe.usage, news), at |-> "content"]
  /\ loop' = IF ~loop.searches THEN [loop EXCEPT !.segments = 1]
             ELSE [loop EXCEPT !.usage =
                      CapturedStart(Merged(@, pipe'.usage, loop.segments > 0), news),
                    !.segments = @ + 1]

Begin ==
  /\ pipe.at = "start" /\ loop.segments < MaxSegments
  /\ \/ \E n \in 0..upstream.count.output :
          LET news == Usable([upstream.count EXCEPT !.output = n])
          IN  StartedWith(news) /\ upstream' = [upstream EXCEPT !.latest = news]
     \/ StartedWith(Zero) /\ UNCHANGED upstream
  /\ UNCHANGED <<logged, told>>

\* A native upstream may send a whole answer in one chunk: the pipeline has read its end
\* when the stream is handed over.
BeginAtOnce ==
  /\ pipe.at = "start" /\ upstream.protocol = "anthropic" /\ loop.segments < MaxSegments
  /\ LET news == Usable(upstream.count)
     IN  /\ pipe' = [usage |-> Applied(AppliedStart(Zero, news), news), at |-> "ended"]
         /\ loop' = IF ~loop.searches THEN [loop EXCEPT !.segments = 1]
                    ELSE [loop EXCEPT !.usage =
                            CapturedEnd(CapturedStart(
                              Merged(@, pipe'.usage, loop.segments > 0), news), news),
                          !.segments = @ + 1]
         /\ told' = IF loop.searches THEN told ELSE news
         /\ upstream' = [upstream EXCEPT !.latest = news, !.atOnce = TRUE]
  /\ UNCHANGED logged

\* The end of the message: what the upstream tells with it, or what the converter knows.
Ended(news) ==
  /\ pipe' = [usage |-> Applied(pipe.usage, news), at |-> "ended"]
  /\ loop' = IF loop.searches THEN [loop EXCEPT !.usage = CapturedEnd(@, news)] ELSE loop
  /\ told' = IF loop.searches THEN told ELSE news

End ==
  /\ pipe.at = "content"
  /\ \/ Ended(Usable(upstream.count)) /\ UNCHANGED upstream
     \/ /\ Ended(IF upstream.protocol \in {"chat", "gemini"} /\ upstream.latest # None
                 THEN upstream.latest ELSE Zero)
        /\ upstream' = [upstream EXCEPT !.silent = TRUE]
  /\ UNCHANGED logged

\* finalize() of a native stream that is closed between its message_delta and its
\* message_stop: the pipeline tells the output once more.
EndAgain ==
  /\ pipe.at = "ended" /\ upstream.protocol = "anthropic" /\ ~upstream.repeats
  /\ upstream' = [upstream EXCEPT !.repeats = TRUE]
  /\ LET news == [Zero EXCEPT !.output = pipe.usage.output]
     IN  /\ loop' = IF loop.searches THEN [loop EXCEPT !.usage = CapturedEnd(@, news)]
                    ELSE loop
         /\ told' = IF loop.searches THEN told ELSE news
  /\ UNCHANGED <<pipe, logged>>

\* write_log(): at the end, when the loop drops the segment, or when the client leaves.
Row == [usage |-> pipe.usage, count |-> upstream.count, ended |-> pipe.at = "ended",
        silent |-> upstream.silent]

\* The message is over; the loop tells what it has made of its segments.
Finish ==
  /\ pipe.at = "ended"
  /\ logged' = Append(logged, Row)
  /\ told' = IF loop.searches THEN loop.usage ELSE told
  /\ pipe' = [pipe EXCEPT !.at = "over"]
  /\ UNCHANGED <<upstream, loop>>

\* The model calls the search: the rest of the segment is dropped, and the upstream is
\* asked again.
Ask ==
  /\ pipe.at = "content" /\ loop.searches /\ loop.segments < MaxSegments
  /\ logged' = Append(logged, Row)
  /\ pipe' = NewPipe
  /\ \E c \in Count :
       /\ upstream.protocol \in OpenAI => Says(c, upstream.by)
       /\ upstream.protocol = "gemini" => c.written = 0
       /\ upstream' = [upstream EXCEPT !.count = c, !.latest = None]
  /\ UNCHANGED <<loop, told>>

Leave ==
  /\ pipe.at = "content"
  /\ logged' = Append(logged, Row)
  /\ pipe' = [pipe EXCEPT !.at = "over"]
  /\ UNCHANGED <<upstream, loop, told>>

\* An answer in one document.
Document ==
  /\ pipe.at = "start" /\ loop.segments = 0 /\ ~loop.searches
  /\ LET usage == OfDocument(upstream.protocol, upstream.count, upstream.by)
     IN  /\ logged' = <<[usage |-> usage, count |-> upstream.count, ended |-> TRUE,
                       silent |-> FALSE]>>
         /\ told' = usage
         /\ pipe' = [usage |-> usage, at |-> "over"]
  /\ UNCHANGED <<upstream, loop>>

Next == Begin \/ BeginAtOnce \/ End \/ EndAgain \/ Finish \/ Ask \/ Leave \/ Document

Spec == Init /\ [][Next]_vars

-------------------------------------------------------------------------------
\* The row of an answer whose upstream told its count has each token once: the counts
\* of the caches are not within the input, and none is left over from an earlier report.
RowsCountTheAnswer ==
  \A i \in DOMAIN logged :
    logged[i].ended /\ ~logged[i].silent => logged[i].usage = Fresh(logged[i].count)

Output(rows) ==
  LET sum[n \in 0..Len(rows)] == IF n = 0 THEN 0 ELSE sum[n - 1] + rows[n].usage.output
  IN  sum[Len(rows)]

\* At the end the client is told the output that is in the rows of its request: what a
\* segment said of it before it was cut is in neither.  Not so when a native upstream
\* sends an answer in one chunk or closes before its message_stop: the loop counts that
\* answer twice.
ToldIsLogged ==
  pipe.at = "over" /\ told # None /\ ~upstream.atOnce /\ ~upstream.repeats =>
    told.output = Output(logged)
===============================================================================
