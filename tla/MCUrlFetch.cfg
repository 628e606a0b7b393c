CONSTANTS
  c1 = c1
  c2 = c2
  a1 = a1
  a2 = a2
  Caller <- TwoCallers
  Address <- TwoAddresses
  MaxRequests = 3
SPECIFICATION Spec
INVARIANTS
  TypeOK
  FetcherOwnership
  EntriesAreCurrent
  RegisteredAtCompletion
  LoaderIdsDistinct
PROPERTIES
  AnsweredOnce
  RequestsAnswered
CHECK_DEADLOCK FALSE
