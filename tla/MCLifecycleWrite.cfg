CONSTANTS
  Task = {1}
  NoTask = 0
  Programs <- SaveProgram
SPECIFICATION LifecycleSafe
INVARIANTS
  WriteCallbackIsSafe
CHECK_DEADLOCK FALSE
