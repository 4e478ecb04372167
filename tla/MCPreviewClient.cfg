\* Three requests of three kinds, a window of two, of which one is kept for the folder in
\* view, a queue of one or of four in the helper, one repetition after "busy", one fault.
SPECIFICATION Spec
CONSTANTS
  BypassLimit = 1
  FolderBypassLimit = 1
  MaxRemembered = 2
  Capacities = {1, 4}
  Kinds <- MCKinds
  Window = 2
  Reserve = 1
  MaxAttempts = 1
  Period = 2
  MaxRequests = 3
  MaxFaults = 1
INVARIANTS
  WindowIsExact
  CancelledJobIsStopped
  PassedOverAtMost
PROPERTIES
  TimeoutIsEarned
  EveryRequestIsAnswered
CHECK_DEADLOCK FALSE
