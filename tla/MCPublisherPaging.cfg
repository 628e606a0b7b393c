CONSTANTS
  MaxRows = 8
  Limits <- PageSizes
SPECIFICATION Spec
INVARIANTS
  TypeOK
  
PROPERTIES
  
  PagingEnds
CHECK_DEADLOCK FALSE
