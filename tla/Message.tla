-------------------------------- MODULE Message --------------------------------
(***************************************************************************)
(* One streamed message as a client of the Anthropic protocol accepts it:  *)
(* message_start; content blocks, each opened once, extended while open    *)
(* and closed once; message_delta when none is open; message_stop.  An     *)
(* error may come at any point, after which only errors follow, and a      *)
(* stream may break off anywhere.  The counters only ever grow, so that    *)
(* whatever is not allowed shows as a step of theirs.                      *)
(***************************************************************************)
EXTENDS Integers

CONSTANT Block \* indices of content blocks

VARIABLES
  starts,  \* message_start events received
  opens,   \* content_block_start events, by index
  closes,  \* content_block_stop events, by index
  size,    \* what the deltas of a block carried
  deltas,  \* message_delta events
  stops,   \* message_stop events
  errors   \* error events

vars == <<starts, opens, closes, size, deltas, stops, errors>>

IsOpen(b) == opens[b] = 1 /\ closes[b] = 0

Init ==
  /\ starts = 0 /\ deltas = 0 /\ stops = 0 /\ errors = 0
  /\ opens = [b \in Block |-> 0] /\ closes = [b \in Block |-> 0]
  /\ size = [b \in Block |-> 0]

Begin ==
  /\ starts = 0 /\ errors = 0
  /\ starts' = 1
  /\ UNCHANGED <<opens, closes, size, deltas, stops, errors>>

Open(b) ==
  /\ starts = 1 /\ deltas = 0 /\ stops = 0 /\ errors = 0
  /\ opens[b] = 0
  /\ opens' = [opens EXCEPT ![b] = 1]
  /\ UNCHANGED <<starts, closes, size, deltas, stops, errors>>

Extend(b) ==
  /\ IsOpen(b) /\ errors = 0
  /\ size' = [size EXCEPT ![b] = size'[b]] /\ size'[b] > size[b]
  /\ UNCHANGED <<starts, opens, closes, deltas, stops, errors>>

Close(b) ==
  /\ IsOpen(b) /\ errors = 0
  /\ closes' = [closes EXCEPT ![b] = 1]
  /\ UNCHANGED <<starts, opens, size, deltas, stops, errors>>

Finish ==
  /\ starts = 1 /\ deltas = 0 /\ errors = 0
  /\ \A b \in Block : ~IsOpen(b)
  /\ deltas' = 1
  /\ UNCHANGED <<starts, opens, closes, size, stops, errors>>

Stop ==
  /\ deltas = 1 /\ stops = 0 /\ errors = 0
  /\ stops' = 1
  /\ UNCHANGED <<starts, opens, closes, size, deltas, errors>>

Fail ==
  /\ errors' = errors + 1
  /\ UNCHANGED <<starts, opens, closes, size, deltas, stops>>

Next == Begin \/ Finish \/ Stop \/ Fail \/ \E b \in Block : Open(b) \/ Extend(b) \/ Close(b)

Spec == Init /\ [][Next]_vars
================================================================================
