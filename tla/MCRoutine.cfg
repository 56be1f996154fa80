SPECIFICATION Spec
CONSTANTS
  r1 = r1
  r2 = r2
  r3 = r3
  Main = Main
  NoRoutine = NoRoutine
  Routine <- MCRoutines
  Capacity <- MCCapacity
INVARIANTS
  StackWellFormed
  ContextsValid
  StackFits
PROPERTIES
  ContinuesWhereItStopped
  ImplementsCoroutine
CHECK_DEADLOCK FALSE
