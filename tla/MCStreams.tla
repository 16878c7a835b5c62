------------------------------- MODULE MCStreams -------------------------------
(***************************************************************************)
(* The streams a client is answered with: the one of the search loop,      *)
(* those the three converters make of their upstreams, and the texts       *)
(* around a hosted search.  Each has bounds of its own, and all but the    *)
(* last are checked against the same message.  A behaviour is of one of    *)
(* them: unless it is the search, the loop has not begun.                  *)
(***************************************************************************)
EXTENDS SearchLoop, TLC

CONSTANTS Letter, OneLetter, MaxAdded, MaxTold, WhitespaceLimit, Part,
          MaxLetters, MaxSearches, ChatInputs, GeminiInputs, ResponsesInputs

VARIABLES
  stream, \* which of them runs
  conv,   \* the locals of a converter
  told    \* its upstream

Chat == INSTANCE ChatStream WITH MaxInputs <- ChatInputs
Gemini == INSTANCE GeminiStream WITH MaxInputs <- GeminiInputs
Responses == INSTANCE ResponsesStream WITH MaxInputs <- ResponsesInputs, Letter <- OneLetter
Cited == INSTANCE Citations

ASSUME StreamsAssumption ==
  /\ Chat!ChatAssumption /\ Gemini!GeminiAssumption
  /\ Responses!ResponsesAssumption /\ Cited!CitationsAssumption

Is(kind) == stream = kind
NoSearch == segment = NewSegment /\ loop = NewLoop(FALSE)

StreamsInit ==
  \/ Is("search") /\ Init /\ conv = None /\ told = None
  \/ /\ NoSearch
     /\ \/ Is("chat") /\ Chat!Init /\ told = None
        \/ Is("gemini") /\ Gemini!Init
        \/ Is("responses") /\ Responses!Init
        \/ Is("citations") /\ Cited!Init /\ SharedInit

StreamsNext ==
  /\ UNCHANGED stream
  /\ \/ Is("search") /\ Next /\ UNCHANGED <<conv, told>>
     \/ /\ UNCHANGED <<loop, segment>>
        /\ \/ Is("chat") /\ Chat!Next /\ UNCHANGED told
           \/ Is("gemini") /\ Gemini!Next
           \/ Is("responses") /\ Responses!Next
           \/ Is("citations") /\ Cited!Next /\ UNCHANGED shared

StreamsSpec == StreamsInit /\ [][StreamsNext]_<<stream, conv, told, vars>>

Symmetry == Permutations(Tool) \cup Permutations(Part)

-------------------------------------------------------------------------------
\* Whatever of the streams runs has the state it was declared with.
StreamsTypeOK ==
  /\ Is("search") => TypeOK
  /\ Is("chat") => Chat!TypeOK
  /\ Is("gemini") => Gemini!TypeOK
  /\ Is("responses") => Responses!TypeOK
  /\ Is("citations") => Cited!TypeOK

\* Nothing the upstream said is lost, doubled, or told as part of another block, and
\* a stream that is over without an error was a whole message.
StreamsConserved ==
  /\ StreamsTypeOK
  /\ Is("search") => Conserved /\ EndsProperly
  /\ Is("chat") => Chat!Conserved /\ Chat!EndsProperly
  /\ Is("gemini") => Gemini!Conserved /\ Gemini!EndsProperly
  /\ Is("responses") => Responses!Conserved /\ Responses!EndsProperly
  /\ Is("citations") => Cited!Conserved
================================================================================
