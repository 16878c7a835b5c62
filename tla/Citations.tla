------------------------------- MODULE Citations -------------------------------
(***************************************************************************)
(* streaming_responses.rs, BufferedCitationTextState: once a Responses     *)
(* upstream has begun a hosted search, text is held back until its         *)
(* citations are known, and rendered when another item comes, when its     *)
(* message is told as a whole, or at the end.  What comes is named by      *)
(* output index, item id, both or nothing, and told several times over: by *)
(* deltas, by the ends of the text and of its part, by the whole message   *)
(* and by the whole response.                                              *)
(*                                                                         *)
(* A part p stands for itself in either name, so key_pair_conflicts() does *)
(* not hold, and for the citation it may have.  What was streamed before   *)
(* the search is kept by StreamedText.                                     *)
(***************************************************************************)
EXTENDS Integers, Sequences, FiniteSets, FiniteSetsExt, SequencesExt, Functions

CONSTANTS
  Part, Letter,
  MaxLetters, \* the bound on the letters of all parts; one has two at most
  MaxSearches, \* the bound on the searches
  None

CitationsAssumption == None \notin Part /\ {MaxLetters, MaxSearches} \subseteq Nat \ {0}

T == INSTANCE StreamedText

VARIABLES
  conv,  \* the generator: [streamed, buffer, shown]
  told   \* the upstream: how it names things, and what it said so far

vars == <<conv, told>>

NewBuffer ==
  [parts |-> <<>>, open |-> 0, last |-> 0, history |-> <<>>, noted |-> {}, out |-> {}]
NewPart(names, unkeyed) ==
  [text |-> <<>>, notes |-> {}, names |-> names, sent |-> 0, gone |-> FALSE,
   unkeyed |-> unkeyed, grew |-> FALSE]

Named == T!How \X Part
Note == [value: Part, at: Nat, out: BOOLEAN]
IsBuffer(b) ==
  /\ \A i \in DOMAIN b.parts :
       LET part == b.parts[i] IN
       /\ part.text \in Seq(Letter) /\ part.notes \subseteq Note /\ part.names \subseteq Named
       /\ part.sent \in Nat /\ {part.gone, part.unkeyed, part.grew} \subseteq BOOLEAN
  /\ {b.open, b.last} \subseteq 0..Len(b.parts)
  /\ b.history \in Seq(Letter) /\ b.noted \subseteq Note /\ b.out \subseteq Named

-------------------------------------------------------------------------------
\* The parts and their names.
HasText(s, t) == \E i \in 0..(Len(s) - Len(t)) : SubSeq(s, i + 1, i + Len(t)) = t
Rest(s, t) == SubSeq(s, Len(t) + 1, Len(s))
Values(notes) == {note.value : note \in notes}
Held(part) == {note \in part.notes : ~note.out}
Shown(part) == SubSeq(part.text, 1, Min({part.sent, Len(part.text)}))
Pending(part) == part.sent < Len(part.text) \/ Held(part) # {}
Matches(part, text) == IsPrefix(part.text, text) \/ IsPrefix(text, part.text)

\* append_annotation(): at the end of the text so far.
Noted(notes, at, values) ==
  notes \cup {[value |-> v, at |-> at, out |-> FALSE] :
                v \in {w \in values : ~\E note \in notes : note.value = w /\ note.at = at}}
Annotated(part, values) == [part EXCEPT !.notes = Noted(@, Len(part.text), values)]

\* merge_snapshot(): a longer text takes the place of the one so far, unless it
\* contradicts what was rendered.
WithSnapshot(part, text) ==
  [part EXCEPT !.text =
     IF \/ IsPrefix(@, text)
        \/ ~IsPrefix(text, @) /\ part.sent = 0
        \/ ~IsPrefix(text, @) /\ Len(text) > Len(@) /\ IsPrefix(Shown(part), text)
     THEN text ELSE @]
\* merge_part_value(): an empty text is none.
WithValue(part, text, cites) == Annotated(WithSnapshot(part, text), cites)

\* close_open_part().
Closed(b) ==
  IF b.open = 0 THEN b
  ELSE [b EXCEPT !.open = 0,
                 !.last = IF ~b.parts[b.open].gone /\ b.parts[b.open].unkeyed THEN b.open ELSE @]
ClosedIf(b, i) == IF b.open = i THEN Closed(b) ELSE b

\* push_part().
Pushed(b, names, unkeyed) == [b EXCEPT !.parts = Append(@, NewPart(names, unkeyed))]

\* bind_keys(): what was rendered in part counts under the new names, too.
Bound(b, i, n) ==
  LET part == b.parts[i]
      rendered == part.sent > 0 \/ \E note \in part.notes : note.out
  IN  IF part.gone THEN b
      ELSE [b EXCEPT !.parts[i].names = @ \cup T!NamesOf(n),
                     !.out = IF rendered THEN @ \cup T!NamesOf(n) ELSE @]

\* mark_part_emitted().
Emitted(b, i) ==
  LET part == b.parts[i] IN
  IF part.gone THEN b
  ELSE ClosedIf([b EXCEPT !.parts[i].sent = Len(part.text),
                          !.parts[i].notes = {[note EXCEPT !.out = TRUE] : note \in @},
                          !.out = @ \cup part.names], i)

\* merge_part_indices(): the later of two parts that turn out to be one is added
\* to the earlier, what was rendered of each counts for both.
MergedText(kept, late) ==
  IF kept.grew /\ late.grew THEN kept.text \o late.text
  ELSE IF HasText(late.text, kept.text) THEN late.text
  ELSE IF HasText(kept.text, late.text) THEN kept.text
  ELSE kept.text \o late.text
Apart(kept, late) ==
  /\ kept.text # <<>> /\ late.text # <<>>
  /\ \/ kept.grew /\ late.grew
     \/ ~HasText(kept.text, late.text) /\ ~HasText(late.text, kept.text)
MergedSent(kept, late, text) ==
  Max({Len(s) : s \in {s \in {<<>>, Shown(kept), Shown(late)} : IsPrefix(s, text)}
                      \cup {s \in {kept.text \o Shown(late)} :
                              /\ Apart(kept, late) /\ kept.sent = Len(kept.text)
                              /\ IsPrefix(s, text)}})
First(notes, v) ==
  CHOOSE note \in notes :
    note.value = v /\ \A other \in notes : other.value = v => note.at <= other.at
MergedNotes(kept, late, end) ==
  LET shown == {First(kept.notes, v) :
                  v \in Values(late.notes \ Held(late)) \cap Values(kept.notes)}
  IN  (kept.notes \ shown) \cup {[note EXCEPT !.out = TRUE] : note \in shown}
      \cup {[note EXCEPT !.at = end] :
              note \in {m \in late.notes : m.value \notin Values(kept.notes)}}
MergedPart(kept, late, text) ==
  [text |-> text, notes |-> MergedNotes(kept, late, Len(text)),
   names |-> kept.names \cup late.names, sent |-> MergedSent(kept, late, text), gone |-> FALSE,
   unkeyed |-> kept.unkeyed \/ late.unkeyed, grew |-> kept.grew \/ late.grew]
InPlaceOf(b, i, j, part) ==
  [b EXCEPT !.parts[i] = part, !.parts[j] = [NewPart({}, FALSE) EXCEPT !.gone = TRUE],
            !.open = IF @ = j THEN i ELSE @, !.last = IF @ = j THEN i ELSE @,
            !.out = IF part.sent > 0 THEN @ \cup part.names ELSE @]
Merged(b, i, j) ==
  InPlaceOf(b, i, j, MergedPart(b.parts[i], b.parts[j], MergedText(b.parts[i], b.parts[j])))

\* existing_keyed_part_index(): the last part of each name, the two made one.
LastNamed(b, name) ==
  Max({0} \cup {i \in DOMAIN b.parts : ~b.parts[i].gone /\ name \in b.parts[i].names})
MadeOne_Not(b, found) == [b |-> b, i |-> Max(found \cup {0})]
MadeOne(b, found) ==
  CASE found = {} -> [b |-> b, i |-> 0]
    [] Cardinality(found) = 1 -> [b |-> b, i |-> Max(found)]
    [] OTHER -> [b |-> Merged(b, Min(found), Max(found)), i |-> Min(found)]
Existing(b, n) == MadeOne(b, {LastNamed(b, name) : name \in T!NamesOf(n)} \ {0})

\* keys_allow_open_part_adoption().
Adopts(part, n) ==
  IF part.names = {} THEN part.unkeyed
  ELSE /\ part.names \cap T!NamesOf(n) # {}
       /\ \A h \in n.by : (\E p \in Part : <<h, p>> \in part.names) => <<h, n.part>> \in part.names

\* resolve_keyed_part(): the part of these names, or the open one, or the last one
\* without a name if a text told as a whole extends it, or a new one.
Takes(b, i, n) == i # 0 /\ ~b.parts[i].gone /\ Adopts(b.parts[i], n)
Extends(part, snapshots) ==
  Pending(part) /\ part.unkeyed /\ \E text \in snapshots : Matches(part, text)
Found(b, i, n, adopt, snapshots) ==
  CASE i # 0 -> i
    [] i = 0 /\ adopt /\ Takes(b, b.open, n) -> b.open
    [] i = 0 /\ ~(adopt /\ Takes(b, b.open, n)) /\ Takes(b, b.last, n)
       /\ Extends(b.parts[b.last], snapshots) -> b.last
    [] OTHER -> 0
At(b, i, n) ==
  IF i # 0 THEN [b |-> Bound(b, i, n), i |-> i]
  ELSE [b |-> Pushed(b, T!NamesOf(n), FALSE), i |-> Len(b.parts) + 1]
ResolvedFrom(e, n, adopt, snapshots) == At(e.b, Found(e.b, e.i, n, adopt, snapshots), n)
Resolved(b, n, adopt, snapshots) == ResolvedFrom(Existing(b, n), n, adopt, snapshots)

-------------------------------------------------------------------------------
\* What comes without a name.

\* finish_unkeyed_text(): a text that is told as a whole belongs to the open part
\* unless it repeats what was rendered before, or all that was rendered and more.
FinishUnkeyed(b, text) ==
  LET part == b.parts[b.open]
      last == b.last # 0 /\ ~b.parts[b.last].gone /\ b.parts[b.last].unkeyed
      more == Rest(text, b.history)
      continues == b.history # <<>> /\ IsPrefix(b.history, text) /\ more # <<>>
      take(t) == [b |-> Closed([b EXCEPT !.parts[b.open] = WithSnapshot(@, t)]), ok |-> TRUE]
      refuse == [b |-> b, ok |-> FALSE]
      stale == /\ last /\ b.last # b.open /\ b.parts[b.last].text = text
               /\ (~Matches(part, text) \/ part.text = <<>>)
      known == b.parts[b.last]
      added == Pushed(b, {}, TRUE)
      new == Len(added.parts)
  IN  IF b.open # 0
      THEN IF part.text = text THEN [b |-> Closed(b), ok |-> TRUE]
           ELSE IF b.history = text THEN refuse
           ELSE IF continues THEN IF Matches(part, more) THEN take(more) ELSE refuse
           ELSE IF stale \/ (~Matches(part, text) /\ b.history # <<>>) THEN refuse
           ELSE take(text)
      ELSE IF last /\ HasText(known.text, text) THEN [b |-> b, ok |-> TRUE]
      ELSE IF last /\ IsPrefix(known.text, text)
      THEN [b |-> [b EXCEPT !.parts[b.last] = WithSnapshot(@, text)], ok |-> TRUE]
      ELSE [b |-> [added EXCEPT !.parts[new].text = text, !.last = new], ok |-> TRUE]

\* start_unkeyed_part(), finish_unkeyed_part().
StartUnkeyed(b, text, cites) ==
  LET new == Pushed(Closed(b), {}, TRUE) IN
  [new EXCEPT !.open = Len(new.parts),
              !.parts[Len(new.parts)] = WithValue(@, text, cites)]
AnnotatedLast(f, cites) ==
  IF ~f.ok \/ f.b.last = 0 THEN f ELSE [f EXCEPT !.b.parts[f.b.last] = Annotated(@, cites)]
FinishUnkeyedPart(b, text, cites) ==
  AnnotatedLast(IF text = <<>> THEN [b |-> Closed(b), ok |-> TRUE] ELSE FinishUnkeyed(b, text),
                cites)

-------------------------------------------------------------------------------
\* What the events do.  Without a name they are for the open part, or a new one.
OpenPart(b) ==
  IF b.open # 0 THEN [b |-> b, i |-> b.open]
  ELSE [b |-> [Pushed(b, {}, TRUE) EXCEPT !.open = Len(b.parts) + 1], i |-> Len(b.parts) + 1]

\* record_delta().
Extended(r, delta) ==
  [IF r.b.open # r.i THEN Closed(r.b) ELSE r.b EXCEPT
     !.open = r.i, !.parts[r.i].text = @ \o delta, !.parts[r.i].grew = TRUE]
RecordDelta(b, n, delta) ==
  Extended(IF n.by = {} THEN OpenPart(b) ELSE Resolved(b, n, TRUE, {}), delta)

\* record_annotation().
WithNote(r, cites) == [r.b EXCEPT !.parts[r.i] = Annotated(@, cites)]
RecordNote(b, n, cites) ==
  WithNote(CASE n.by # {} -> Resolved(b, n, TRUE, {})
             [] n.by = {} /\ b.open = 0 /\ b.last # 0 -> [b |-> b, i |-> b.last]
             [] OTHER -> OpenPart(b), cites)

\* record_part() at the start of a part: the open one only if it is empty.
Started(r, text, cites) == [r.b EXCEPT !.parts[r.i] = WithValue(@, text, cites), !.open = r.i]
StartPart(b, n, text, cites) ==
  LET adopt == b.open # 0 /\ b.parts[b.open].text = <<>> IN
  IF n.by = {} THEN StartUnkeyed(b, text, cites)
  ELSE Started(Resolved(IF adopt THEN b ELSE Closed(b), n, adopt, {text} \ {<<>>}), text, cites)

\* record_part() at the end of one, record_text() at the end of its text.
Ended(r, text, cites) ==
  [b |-> ClosedIf([r.b EXCEPT !.parts[r.i] = WithValue(@, text, cites)], r.i), ok |-> TRUE]
EndPart(b, n, text, cites) ==
  IF n.by = {} THEN FinishUnkeyedPart(b, text, cites)
  ELSE Ended(Resolved(b, n, TRUE, {text} \ {<<>>}), text, cites)

\* finish_event_part().
ClosedAt(e) == IF e.i = 0 THEN e.b ELSE ClosedIf(e.b, e.i)
FinishPart(b, n) == IF n.by = {} THEN Closed(b) ELSE ClosedAt(Existing(b, n))
FinishIf(e, n) == IF e.ok THEN FinishPart(e.b, n) ELSE e.b

\* response.content_part.done; record_done_event() of response.output_text.done.
PartDone(b, n, text, cites) == FinishIf(EndPart(b, n, text, cites), n)
TextDone(b, n, text) ==
  FinishIf(IF n.by = {} THEN FinishUnkeyed(b, text) ELSE EndPart(b, n, text, {}), n)

-------------------------------------------------------------------------------
\* Rendering.  A piece is a text and the citations whose sources follow it.
Nothing == [text |-> <<>>, cites |-> {}]

\* render_part_pending(): what was not rendered of a part; text without a name is
\* kept, for it may be told again under one.
Late(b, part, text) ==
  {[value |-> note.value, out |-> TRUE,
    at |-> Len(b.history) + Min({Max({note.at - Len(Shown(part)), 0}), Len(text)})] :
     note \in Held(part)}
Kept(b, part, text) ==
  IF part.names # {} THEN b
  ELSE [b EXCEPT !.history = @ \o text, !.noted = @ \cup Late(b, part, text)]
RenderRest(b, i, part, text) ==
  [b |-> Emitted(Kept(b, part, text), i),
   piece |-> [text |-> text, cites |-> Values(Held(part))]]
RenderPart(b, i) ==
  IF b.parts[i].gone \/ ~Pending(b.parts[i]) THEN [b |-> b, piece |-> Nothing]
  ELSE RenderRest(b, i, b.parts[i], Rest(b.parts[i].text, Shown(b.parts[i])))

\* render_pending_parts().
Onto(pieces, r) == [b |-> r.b, pieces |-> Append(pieces, r.piece)]
RenderPending(b) ==
  LET next(before, i) == Onto(before.pieces, RenderPart(before.b, i))
      upTo[i \in 0..Len(b.parts)] ==
        IF i = 0 THEN [b |-> b, pieces |-> <<>>] ELSE next(upTo[i - 1], i)
  IN  upTo[Len(b.parts)]

\* consume_part_annotations(), consume_emitted_unkeyed_annotations(): the citations
\* of the first letters, and the others moved to the front.
Consumed(notes, letters, all) == Values({note \in notes : all \/ note.at <= letters})
Unconsumed(notes, letters, all) ==
  {[note EXCEPT !.at = @ - letters] : note \in {m \in notes : ~all /\ m.at > letters}}

\* reconcile_unkeyed_terminal_text(): a text told under a name accounts for the first
\* text that waits without one.
Waiting(part) ==
  ~part.gone /\ Pending(part) /\ part.unkeyed /\ part.names = {} /\ part.text # <<>>
Accounted(b, i, part, text) ==
  LET rest == Rest(part.text, text)
      left == [part EXCEPT !.text = rest, !.notes = Unconsumed(@, Len(text), rest = <<>>)]
      drained == [part EXCEPT !.text = <<>>, !.notes = {}, !.sent = 0]
      with(p) == [b EXCEPT !.parts[i] = p]
  IN  CASE IsPrefix(part.text, text) ->
             [b |-> Emitted(with(drained), i), cites |-> Values(part.notes)]
        [] ~IsPrefix(part.text, text) /\ IsPrefix(text, part.text) ->
             [b |-> with(left), cites |-> Consumed(part.notes, Len(text), FALSE)]
        [] OTHER -> [b |-> Emitted(b, i), cites |-> {}]
ReconcileUnkeyed(b, text) ==
  LET waiting == {i \in DOMAIN b.parts : Waiting(b.parts[i])} IN
  IF waiting = {} THEN [b |-> b, cites |-> {}]
  ELSE Accounted(b, Min(waiting), b.parts[Min(waiting)], text)

\* reconcile_emitted_unkeyed_terminal_text(): how much of the text was rendered
\* before it had a name.
ReconcileEmitted(b, text) ==
  LET all == IsPrefix(b.history, text) IN
  [b |-> [b EXCEPT !.history = IF IsPrefix(text, @) THEN Rest(@, text) ELSE <<>>,
                   !.noted = Unconsumed(@, Len(text), all)],
   rest |-> IF all THEN Rest(text, b.history) ELSE <<>>,
   cites |-> Consumed(b.noted, Len(text), all)]
WasRendered(b, text) ==
  b.history # <<>> /\ (IsPrefix(text, b.history) \/ IsPrefix(b.history, text))

\* remember_rendered_terminal_part().
RememberedAt(r, text, cites) ==
  Emitted([r.b EXCEPT !.parts[r.i] = WithValue(@, text, cites)], r.i)
Remembered(e, n, text, cites) == RememberedAt(At(e.b, e.i, n), text, cites)

\* render_message_part(): a part as its message tells it.  It is completed under its
\* names...
Whole(e, n, text, cites) ==
  RenderPart([Bound(e.b, e.i, n) EXCEPT !.parts[e.i] = WithValue(@, text, cites)], e.i)
\* ... or rendered in full but for what was rendered without one: `shown`.
InFull(e, n, text, cites, shown) ==
  [b |-> Remembered(e, n, text, cites \cup e.cites),
   piece |-> [text |-> shown, cites |-> e.cites \cup (cites \ e.told)]]
FromUnkeyed(u, told_, i) == [b |-> u.b, i |-> i, cites |-> u.cites, told |-> told_]

RenderBeyond(e, r, n, text, cites) ==
  CASE r.rest = <<>> /\ e.i # 0 /\ Pending(r.b.parts[e.i]) ->
         Whole([b |-> r.b, i |-> e.i], n, <<>>, cites)
    [] r.rest = <<>> /\ ~(e.i # 0 /\ Pending(r.b.parts[e.i])) ->
         InFull(FromUnkeyed([b |-> r.b, cites |-> {}], r.cites, e.i), n, text, cites, <<>>)
    [] r.rest # <<>> /\ e.i # 0 ->
         Whole([b |-> r.b, i |-> e.i], n, r.rest, cites \ r.cites)
    [] OTHER -> InFull(FromUnkeyed(ReconcileUnkeyed(r.b, r.rest), r.cites, 0),
                       n, text, cites, r.rest)
RenderTold(e, n, text, cites) ==
  CASE e.i # 0 /\ (~WasRendered(e.b, text) \/ (/\ Pending(e.b.parts[e.i])
                                                 /\ Matches(e.b.parts[e.i], text))) ->
         Whole(e, n, text, cites)
    [] WasRendered(e.b, text) /\ ~(/\ e.i # 0 /\ Pending(e.b.parts[e.i])
                                      /\ Matches(e.b.parts[e.i], text)) ->
         RenderBeyond(e, ReconcileEmitted(e.b, text), n, text, cites)
    [] e.i = 0 /\ ~WasRendered(e.b, text) /\ T!NamesOf(n) \cap e.b.out # {} ->
         [b |-> e.b, piece |-> Nothing]
    [] OTHER -> InFull(FromUnkeyed(ReconcileUnkeyed(e.b, text), {}, 0), n, text, cites, text)
RenderMessagePart(b, n, text, cites) == RenderTold(Existing(b, n), n, text, cites)

\* collect_annotations(), mark_emitted().
Collected(b, n, cites) ==
  LET notes == UNION {part.notes : part \in
                 {p \in Range(b.parts) : ~p.gone /\ p.names \cap T!NamesOf(n) # {}}}
      held == {note \in notes : ~note.out}
  IN  (cites \ Values(notes \ held)) \cup Values(held)
EmittedAt(e, n) == IF e.i = 0 THEN e.b ELSE Emitted(Bound(e.b, e.i, n), e.i)
MarkedEmitted(b, n) == EmittedAt(Existing([b EXCEPT !.out = @ \cup T!NamesOf(n)], n), n)

\* missing_message_text_parts() for a part of a message, after a search began: what was
\* streamed before it is completed, its citations follow.
WasStreamed(st, n, text) ==
  \/ T!Known(st, n) # {}
  \/ st.unkeyed # <<>> /\ (IsPrefix(text, st.unkeyed) \/ IsPrefix(st.unkeyed, text))
Completed(c, s, n, cites) ==
  [c |-> [c EXCEPT !.streamed = s.text, !.buffer = MarkedEmitted(@, n)],
   piece |-> [text |-> s.missing, cites |-> Collected(c.buffer, n, cites)]]
FromBuffer(c, r) == [c |-> [c EXCEPT !.buffer = r.b], piece |-> r.piece]
MissingPart(c, n, text, cites) ==
  IF WasStreamed(c.streamed, n, text)
  THEN Completed(c, T!MissingSuffix(c.streamed, n, text), n, cites)
  ELSE FromBuffer(c, RenderMessagePart(c.buffer, n, text, cites))

-------------------------------------------------------------------------------
\* The upstream: its parts one after another, each with its events in their order,
\* those at the end of a part left out or not, and searches in between.

Kinds == {"added", "delta", "text", "part", "item"}

\* Bound: an upstream keeps to one way of naming the deltas and one of naming the ends of
\* texts and parts, with a name in common, and the ends not by their ids alone; mixed, the
\* deltas have the names in turn.  The message has its place and all these names: told
\* without a place, it would be told twice.  Some upstreams leave out every event of a
\* kind; bound: of at most one kind.
Naming == {by \in [delta: SUBSET T!How, done: SUBSET T!How, mixed: BOOLEAN,
                   tells: SUBSET Kinds] :
             /\ by.done # {"item"} /\ (by.delta = {} \/ by.delta \cap by.done # {})
             /\ by.mixed => by.delta = T!How /\ by.done = T!How
             /\ \E k \in Kinds : Kinds \ {k} \subseteq by.tells}
Init ==
  /\ conv = [streamed |-> T!NewText, buffer |-> NewBuffer,
             shown |-> [text |-> <<>>, cites |-> [p \in Part |-> 0]]]
  /\ \E by \in Naming :
       told = [by |-> by, searches |-> 0, now |-> None, stage |-> 0, noted |-> FALSE,
               text |-> [p \in Part |-> <<>>], cited |-> [p \in Part |-> FALSE],
               seen |-> <<>>, split |-> {}, over |-> FALSE]

TypeOK ==
  /\ T!IsText(conv.streamed) /\ IsBuffer(conv.buffer)
  /\ conv.shown.text \in Seq(Letter) /\ conv.shown.cites \in [Part -> Nat]
  /\ told.now \in Part \cup {None} /\ told.stage \in 0..3 /\ told.seen \in Seq(Part)

Preserving == told.searches > 0
MessageNames == told.by.delta \cup told.by.done \cup {"out"}
Said == FlattenSeq([i \in DOMAIN told.seen |-> told.text[told.seen[i]]])
Called(p, by) == [part |-> p, by |-> by]
Cites(p) == IF told.cited[p] THEN {p} ELSE {}

\* text_block_events(): the pieces become blocks of text.
Show(c, pieces) ==
  [c EXCEPT !.shown.text = @ \o FlattenSeq([i \in DOMAIN pieces |-> pieces[i].text]),
            !.shown.cites = [p \in Part |->
               @[p] + Cardinality({i \in DOMAIN pieces : p \in pieces[i].cites})]]
ShowRendered(c, r) == Show([c EXCEPT !.buffer = r.b], r.pieces)
Rendered(c) == ShowRendered(c, RenderPending(c.buffer))
Buffered(b) == conv' = [conv EXCEPT !.buffer = b]

\* response.content_part.added, which some leave out.
Start(p, cited) ==
  /\ told.now = None /\ ~told.over /\ p \notin Range(told.seen)
  /\ told' = [told EXCEPT !.now = p, !.stage = 1, !.noted = FALSE, !.cited[p] = cited,
                          !.seen = Append(@, p)]
  /\ IF Preserving /\ "added" \in told.by.tells
     THEN Buffered(StartPart(conv.buffer, Called(p, told.by.delta), <<>>, {}))
     ELSE UNCHANGED conv

\* Letters are alike: the first one stands for the others.
AnyLetter == CHOOSE letter \in Letter : TRUE

\* response.output_text.delta, or text that only the ends tell.
Delta(p, letter) ==
  LET turn == IF told.text[p] = <<>> THEN {"out"} ELSE {"item"}
      n == Called(p, IF told.by.mixed THEN turn ELSE told.by.delta)
  IN
  /\ told.now = p /\ told.stage = 1
  /\ Len(told.text[p]) < 2 /\ Len(Said) < MaxLetters
  /\ Said = <<>> => letter = AnyLetter
  /\ told' = [told EXCEPT !.text[p] = Append(@, letter)]
  /\ IF "delta" \notin told.by.tells THEN UNCHANGED conv
     ELSE IF Preserving
     THEN Buffered(RecordDelta(conv.buffer, n, <<letter>>))
     ELSE conv' = [conv EXCEPT !.streamed = T!RecordDelta(@, n, <<letter>>),
                               !.shown.text = Append(@, letter)]

\* response.output_text.annotation.added.
Annotate(p) ==
  /\ told.now = p /\ told.stage = 1 /\ told.cited[p] /\ ~told.noted /\ told.text[p] # <<>>
  /\ told' = [told EXCEPT !.noted = TRUE]
  /\ IF Preserving THEN Buffered(RecordNote(conv.buffer, Called(p, told.by.delta), {p}))
     ELSE UNCHANGED conv

\* The ends of a part, the text whole: of the text, of the part, and of its message.
Ends(p, kind, after) ==
  /\ told.now = p /\ told.stage = after /\ told.text[p] # <<>> /\ kind \in told.by.tells

EndText(p) ==
  LET n == Called(p, told.by.done) IN
  /\ Ends(p, "text", 1)
  /\ told' = [told EXCEPT !.stage = 2]
  /\ IF Preserving THEN Buffered(TextDone(conv.buffer, n, told.text[p]))
     ELSE conv' = [conv EXCEPT !.streamed = T!FinishPart(@, n)]
EndOfPart(p) ==
  LET n == Called(p, told.by.done) IN
  /\ Ends(p, "part", IF "text" \in told.by.tells THEN 2 ELSE 1)
  /\ told' = [told EXCEPT !.stage = 3]
  /\ IF Preserving THEN Buffered(PartDone(conv.buffer, n, told.text[p], Cites(p)))
     ELSE conv' = [conv EXCEPT !.streamed = T!FinishPart(@, n)]

\* One message of one part, by an item's end or by the response's.
ShowMissing(m) == Show(m.c, <<m.piece>>)
ShowSuffix(c, s) == [c EXCEPT !.streamed = s.text, !.shown.text = @ \o s.missing]
Message(c, p, by) ==
  LET n == Called(p, by) IN
  IF Preserving THEN ShowMissing(MissingPart(c, n, told.text[p], Cites(p)))
  ELSE ShowSuffix(c, T!MissingSuffix(c.streamed, n, told.text[p]))

Over(p) ==
  /\ told.now = p /\ told.text[p] # <<>>
  /\ told.stage = Max({1} \cup {2 : k \in {"text"} \cap told.by.tells}
                         \cup {3 : k \in {"part"} \cap told.by.tells})

EndItem(p) ==
  /\ Over(p) /\ "item" \in told.by.tells
  /\ told' = [told EXCEPT !.now = None, !.stage = 0]
  /\ conv' = Message(conv, p, MessageNames)

LeaveItem(p) ==
  /\ Over(p) /\ "item" \notin told.by.tells
  /\ told' = [told EXCEPT !.now = None, !.stage = 0]
  /\ UNCHANGED conv

\* response.output_item.added of a search, or of another item.  Bounds: in the middle
\* of a message, or else it would be shown twice, only after the first search, and if
\* its deltas have names.
Search ==
  /\ told.searches < MaxSearches /\ ~told.over
  /\ told.now = None \/ (Preserving /\ told.by.delta # {})
  /\ told' = [told EXCEPT !.searches = @ + 1, !.split = @ \cup
                             IF "item" \in told.by.tells THEN {told.now} \ {None} ELSE Range(told.seen)]
  /\ conv' = Rendered(conv)

\* response.completed, with all the messages or without.
Complete(listed) ==
  LET upTo[i \in 0..Len(told.seen)] ==
        IF i = 0 THEN conv ELSE Message(upTo[i - 1], told.seen[i], MessageNames)
      end(c) == IF Preserving THEN Rendered(c) ELSE c
  IN  /\ told.now = None /\ ~told.over
      /\ told' = [told EXCEPT !.over = TRUE]
      /\ conv' = end(IF listed THEN upTo[Len(told.seen)] ELSE conv)

Next ==
  \/ \E p \in Part :
       \/ \E cited \in BOOLEAN : Start(p, cited)
       \/ \E letter \in Letter : Delta(p, letter)
       \/ Annotate(p) \/ EndText(p) \/ EndOfPart(p) \/ EndItem(p) \/ LeaveItem(p)
  \/ Search
  \/ \E listed \in BOOLEAN : Complete(listed)

Spec == Init /\ [][Next]_vars

-------------------------------------------------------------------------------
\* streaming_responses.rs:616: however often, and under whatever names, the text and
\* the citations are told, the client is shown the text once and in its order,
\* and the source of each citation at most once, unless another
\* item came before its message was told.
Conserved ==
  /\ IsPrefix(conv.shown.text, Said)
  /\ told.over => conv.shown.text = Said
  /\ \A p \in Part \ told.split : conv.shown.cites[p] <= 1
===============================================================================
