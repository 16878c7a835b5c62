-------------------------------- MODULE MCRepair --------------------------------
(***************************************************************************)
(* The attempts at a request: the loop over its candidates (MCForward),    *)
(* and what is done to its body between two attempts, by the repairs that  *)
(* are built in (Repairs) and by the patches of a model (Patches).  They   *)
(* share no state, so a behaviour is of one part.                          *)
(***************************************************************************)
EXTENDS MCForward

CONSTANTS
  MaxTokensOf, Limits, BudgetsOf,
  MaxBlocks, MaxTools, MaxOps, ArrayKeep, DepthLimit

VARIABLES
  part,
  model, demand, config, body, tried, at,
  first, doc, asked, shown, ops, done, learned

B == INSTANCE Repairs
P == INSTANCE Patches

ASSUME RepairAssumption == B!RepairsAssumption /\ P!PatchesAssumption

-----------------------------------------------------------------------------
ofRepairs == <<model, demand, config, body, tried, at>>
ofPatches == <<first, doc, asked, shown, ops, done, learned>>

NoRepairs ==
  /\ model = None /\ demand = None /\ config = None /\ body = None /\ tried = None
  /\ at = None
NoPatches ==
  /\ first = None /\ doc = None /\ asked = None /\ shown = None /\ ops = None /\ done = None
  /\ learned = None

RepairInit ==
  /\ Init
  /\ \/ part = "loop" /\ NoRepairs /\ NoPatches
     \/ part = "built in" /\ B!Init /\ NoPatches
     \/ part = "patch" /\ NoRepairs /\ P!Init

RepairNext ==
  \/ part = "loop" /\ Next /\ UNCHANGED <<part, ofRepairs, ofPatches>>
  \/ part = "built in" /\ B!Next /\ UNCHANGED <<part, vars, ofPatches>>
  \/ part = "patch" /\ P!Next /\ UNCHANGED <<part, vars, ofRepairs>>
  \/ part # "loop" /\ UNCHANGED <<part, vars, ofRepairs, ofPatches>>  \* a repair may be over

RepairSpec == RepairInit /\ [][RepairNext]_<<part, vars, ofRepairs, ofPatches>>

\* What the gateway asks for of thinking is what the upstream can grant, and an entry
\* is disabled only when its upstream takes no form of the ladder (Repairs).
ThinkingFits ==
  IF part = "built in"
  THEN B!TypeOK /\ B!SentBudgetFits /\ B!DisabledOnlyIfNoFormFits ELSE NoRepairs

\* The order of the upstream's complaints does not decide whether a request is given up.
RepairsCompose == part = "built in" => B!RepairsCompose

\* A place is the same in the body, in the sketch that the analysing model is shown,
\* and in the error that numbers the tools (Patches).
PlacesAgree ==
  IF part = "patch" THEN P!TypeOK /\ P!SketchIsAMap /\ P!RepairFindsTheTool ELSE NoPatches

\* No word of the conversation is shown to the analysing model, and a patch leaves
\* blocks of the conversation out but alters none of its words.
WordsStay == part = "patch" => P!NothingIsTold /\ P!WordsStay
===============================================================================
