------------------------------ MODULE StreamedText ------------------------------
(***************************************************************************)
(* streaming_responses.rs, StreamedTextState: which text the deltas of a   *)
(* Responses stream have brought, so that the complete text told at the    *)
(* end adds what was missing and repeats nothing.  An event names its part *)
(* by output index, by item id, by both, or not at all; a part known under *)
(* one of the two names is the same part once an event has both.           *)
(*                                                                         *)
(* A part p stands for itself in either name: the names an upstream gives  *)
(* to a part agree, so key_pair_conflicts() does not hold.                 *)
(***************************************************************************)
EXTENDS Integers, Sequences, SequencesExt, FiniteSetsExt, Functions

CONSTANTS Part, Letter

How == {"out", "item"}
Names == [part: Part, by: SUBSET How] \* what an event says of its part

\* struct StreamedTextPart: the names it has, per kind of name.
NewText == [parts |-> <<>>, active |-> 0, unkeyed |-> <<>>, follows |-> FALSE]
IsText(st) ==
  /\ st.parts \in Seq([text: Seq(Letter), names: SUBSET (How \X Part), discarded: BOOLEAN])
  /\ st.active \in 0..Len(st.parts) /\ st.unkeyed \in Seq(Letter) /\ st.follows \in BOOLEAN

NamesOf(n) == n.by \X {n.part}
Known(st, n) ==
  {i \in DOMAIN st.parts : ~st.parts[i].discarded /\ st.parts[i].names \cap NamesOf(n) # {}}

\* merge_part_indices(): the later part is added to the earlier.
Merged(st, keep, discard) ==
  [st EXCEPT !.parts[keep].text = @ \o st.parts[discard].text,
             !.parts[keep].names = @ \cup st.parts[discard].names,
             !.parts[discard] = [text |-> <<>>, names |-> {}, discarded |-> TRUE],
             !.active = IF @ = discard THEN keep ELSE @]

\* existing_keyed_part_index(): the part of these names, its two halves merged.
Existing_Separate(st, n) ==
  LET known == Known(st, n)
  IN  [text |-> st, index |-> IF known = {} THEN 0 ELSE Max(known)]
Existing(st, n) ==
  LET known == Known(st, n)
  IN  [text |-> IF Cardinality(known) = 2 THEN Merged(st, Min(known), Max(known)) ELSE st,
       index |-> IF known = {} THEN 0 ELSE Min(known)]

\* resolve_keyed_part() and bind_keys(): an unknown part is added, and a known
\* one gets the names it did not have.
Resolved(st, n) ==
  LET e == Existing(st, n)
      new == Len(st.parts) + 1
  IN  IF e.index # 0
      THEN [e EXCEPT !.text.parts[e.index].names = @ \cup NamesOf(n)]
      ELSE [text |-> [st EXCEPT !.parts =
                        Append(@, [text |-> <<>>, names |-> NamesOf(n), discarded |-> FALSE])],
            index |-> new]

RecordDelta(st, n, delta) ==
  IF n.by = {}
  THEN [st EXCEPT !.unkeyed = @ \o delta,
                  !.follows = IF st.unkeyed = <<>> THEN st.active # 0 ELSE @]
  ELSE LET r == Resolved(st, n)
       IN  [r.text EXCEPT !.parts[r.index].text = @ \o delta, !.active = r.index]

FinishPart(st, n) ==
  LET e == Existing(st, n)
  IN  CASE n.by = {} -> [st EXCEPT !.active = 0]
        [] OTHER -> [e.text EXCEPT !.active = IF @ = e.index THEN 0 ELSE @]

Rest(full, sofar) == SubSeq(full, Len(sofar) + 1, Len(full))
Cleared(st) == [st EXCEPT !.unkeyed = <<>>, !.follows = FALSE]

\* What is missing given what a part was sent under its names.
BeyondKeyed(full, sent) == IF IsPrefix(sent, full) THEN Rest(full, sent) ELSE <<>>

\* The same with text that came without a name, before or after that.
BeyondUnkeyed(st, full, keyed, sent) ==
  LET loose == st.unkeyed
      all == IF st.follows THEN sent \o loose ELSE loose \o sent
      keep(missing) == [text |-> st, missing |-> missing]
      clear(missing) == [text |-> Cleared(st), missing |-> missing]
  IN  IF keyed /\ IsPrefix(all, full) THEN clear(Rest(full, all))
      ELSE IF keyed /\ st.follows /\ (IsPrefix(sent, full) \/ IsPrefix(full, sent))
      THEN keep(BeyondKeyed(full, sent))
      ELSE IF IsPrefix(full, loose)
      THEN [text |-> [st EXCEPT !.unkeyed = Rest(loose, full)], missing |-> <<>>]
      ELSE IF keyed /\ IsPrefix(full, all) THEN clear(<<>>)
      ELSE IF IsPrefix(loose, full)
      THEN clear(IF keyed /\ Rest(full, loose) = sent THEN <<>> ELSE Rest(full, loose))
      ELSE keep(IF keyed THEN BeyondKeyed(full, sent) ELSE <<>>)

MissingSuffix_Forgets(st, n, full) ==
  LET e == Existing(st, n)
  IN  [text |-> st, missing |-> IF e.index = 0 THEN full
                                ELSE BeyondKeyed(full, e.text.parts[e.index].text)]
\* missing_suffix(): the complete text of a part is told; what of it was not
\* sent yet, and from now on all of it counts as sent.
MissingSuffix(st, n, full) ==
  LET e == Existing(st, n)
      keyed == e.index # 0
      sent == IF keyed THEN e.text.parts[e.index].text ELSE <<>>
      found == CASE st.unkeyed # <<>> -> BeyondUnkeyed(e.text, full, keyed, sent)
                 [] st.unkeyed = <<>> /\ keyed ->
                      [text |-> e.text, missing |-> BeyondKeyed(full, sent)]
                 [] OTHER -> [text |-> e.text, missing |-> full]
      r == Resolved(found.text, n)
  IN  IF n.by = {} THEN found
      ELSE [text |-> [r.text EXCEPT !.parts[r.index].text = full,
                                    !.active = IF @ = r.index THEN 0 ELSE @],
            missing |-> found.missing]
================================================================================
