\* Two files in one operation, two faults, one change by another program.
SPECIFICATION Spec
CONSTANTS
  Count = 2
  MaxFaults = 2
  MaxMeddling = 1
INVARIANTS
  NothingHiddenIsForgotten
PROPERTIES
  SourceOutlivesItsCopying
  OverwrittenOnlyAsApproved
  OutcomeIsTrue
  RunEnds
CHECK_DEADLOCK FALSE
