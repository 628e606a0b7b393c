CONSTANTS
  p1 = p1
  o1 = o1
  o2 = o2
  Publisher <- Publishers
  Observer <- TwoObservers
  MaxCalls = 3
  MaxLists = 2
  MaxAdds = 2
SPECIFICATION Spec
INVARIANTS
  TypeOK
  ShownWasStored
  ToldOnce
PROPERTY
  RemovesAnswered
CHECK_DEADLOCK FALSE
