------------------------------- MODULE MCRequest -------------------------------
(***************************************************************************)
(* What happens to a request: the conversion of its body for whichever     *)
(* upstream is asked (Dialogue), the loop that repairs it when the         *)
(* upstream rejects it (Rectify), and the count of its tokens (Metering).  *)
(* They share no state, so a behaviour is of one part.                     *)
(***************************************************************************)
EXTENDS Integers

CONSTANTS
  None,
  MaxTurns, MaxItems, MaxCalls, SearchTurns,
  Request, Entry, Forced, Fingerprint, Refuses, Early, Late, Patch, MaxRows, MaxEdits,
  MaxTokens, MaxSegments

VARIABLES
  part,
  history, said,
  entry, rule, rows, edits, req, tested,
  upstream, pipe, loop, logged, told

D == INSTANCE Dialogue
R == INSTANCE Rectify
M == INSTANCE Metering

ASSUME RequestAssumption == R!RectifyAssumption /\ M!MeteringAssumption

-----------------------------------------------------------------------------
ofDialogue == <<history, said>>
ofRectify == <<entry, rule, rows, edits, req, tested>>
ofMetering == <<upstream, pipe, loop, logged, told>>

NoDialogue == history = <<>> /\ said = <<>>
NoMetering == upstream = None /\ pipe = None /\ loop = None /\ logged = None /\ told = None

RequestInit ==
  /\ R!RectifyInit
  /\ \/ part = "body" /\ D!DialogueInit /\ NoMetering
     \/ part = "repair" /\ NoDialogue /\ NoMetering
     \/ part = "tokens" /\ NoDialogue /\ M!Init

RequestNext ==
  \/ part = "body" /\ D!DialogueNext /\ UNCHANGED <<part, ofRectify, ofMetering>>
  \/ part = "repair" /\ R!RectifyNext /\ UNCHANGED <<part, ofDialogue, ofMetering>>
  \/ part = "tokens" /\ M!Next /\ UNCHANGED <<part, ofDialogue, ofRectify>>

Running == RequestInit /\ [][RequestNext]_<<part, ofDialogue, ofRectify, ofMetering>>
RequestSpec == Running /\ R!RectifyFairness

TypeOK ==
  /\ R!RectifyTypeOK
  /\ IF part = "body" THEN D!DialogueTypeOK ELSE NoDialogue
  /\ IF part = "tokens" THEN M!TypeOK ELSE NoMetering

\* Every tool call of a body is answered where its protocol wants the answer
\* (Dialogue), whichever of the four protocols the next candidate speaks; but a search
\* that the user followed up with a string has no answer at all.
CallsAreAnswered == part = "body" => D!CallsAreAnswered

\* A later turn finds what an earlier one was told: ids and signatures come back to
\* the upstream that gave them, and to no other, and a body extends the earlier ones.
HistoryReturns == part = "body" => D!SignaturesReturn /\ D!PrefixIsStable

\* The rows of a request count each token of its answers once, and the client is told
\* the output that they count (Metering).
TokensAreCounted == part = "tokens" => M!RowsCountTheAnswer /\ M!ToldIsLogged

\* What the gateway learns has been earned by a request it let through (Rectify): a
\* patch is credited to the candidate and the error that it mended, the form of the
\* thinking parameters noted on an entry has worked for it, and so has a rule.
LearningIsEarned ==
  /\ [](R!CreditIsEarned /\ R!NotedFormsWork)
  /\ R!RulesAreEarned

\* The repair of a request comes to an end, or waits for a body that does not (Rectify).
RepairEnds == R!RepairEnds

\* An entry is disabled only by the refusal of its thinking parameters.
DisabledOnlyForThinking == R!DisabledOnlyForThinking
==============================================================================
