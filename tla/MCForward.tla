------------------------------- MODULE MCForward -------------------------------
(***************************************************************************)
(* Forward on the candidates of one channel: x1 and x2 are two keys of it  *)
(* for one model, and share its breaker.                                   *)
(***************************************************************************)
EXTENDS Forward, TLC

CONSTANTS x1, x2, b

OneBreaker == [c \in Candidate |-> b]
OwnPairs == [c \in Candidate |-> c]
TwoKeys == {<<x1, x2>>}
OneCandidate == {<<x1>>}

Symmetry == Permutations(Request)
===============================================================================
