CONSTANTS
  c1 = c1
  c2 = c2
  Caller <- TwoCallers
  MaxCalls = 3
  MaxPieces = 2
SPECIFICATION Spec
INVARIANTS
  TypeOK
  LoadsOneState
PROPERTIES
  AnsweredOnce
  CallsAnswered
