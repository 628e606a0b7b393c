CONSTANTS
  Task = {1, 2, 3}
  NoTask = 0
  Programs <- ShortPrograms
SPECIFICATION LifecycleSpec
INVARIANTS
  TypeOK
  HandleOwnership
  LifecycleTypeOK
  SafePrograms
  NothingOutlivesService
PROPERTIES
  JoinWaitsForAll
  DisciplinedProgramsExit
CHECK_DEADLOCK FALSE
