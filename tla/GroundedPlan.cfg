SPECIFICATION Spec
CONSTANTS
  f1 = f1
  f2 = f2
  f3 = f3
  None = None
  Scopes <- MCScopes
  Answers <- MCAnswers
  MaxPrompt = 20
  MaxAnswers = {7, 9}
  Reserve = 2
  Numerals = 2
  Frame = 4
  MaxRisk = 2
INVARIANTS
  EveryFactOnce
  TurnsAreBounded
  TooLargeIsKnownEarly
PROPERTY
  ReviewEnds
