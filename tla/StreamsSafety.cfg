SPECIFICATION StreamsSpec
CONSTANTS
  Block = {0, 1, 2, 3, 4, 5}
  k1 = k1
  k2 = k2
  Tool = {k1, k2}
  p1 = p1
  p2 = p2
  Part = {p1, p2}
  None = None
  Raw = {0, 1, 2}
  Letter = {"a", "b"}
  OneLetter = {"a"}
  MaxAdded = 2
  MaxTold = 1
  WhitespaceLimit = 2
  MaxUses = 1
  MaxLetters = 3
  MaxSearches = 2
  ChatInputs = 4
  GeminiInputs = 3
  ResponsesInputs = 4
  MaxInputs = 6
SYMMETRY Symmetry
INVARIANTS StreamsConserved SearchesAreTold
 
CHECK_DEADLOCK FALSE
