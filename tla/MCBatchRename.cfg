\* Three files: every plan, swaps and cycles of names included; two faults, two changes by
\* other programs.
SPECIFICATION Spec
CONSTANTS
  Count = 3
  MaxFaults = 2
  MaxMeddling = 2
INVARIANTS
  OneDirection
PROPERTIES
  NoFileIsLost
  OutcomeIsTrue
  InterruptedIsRecovered
CHECK_DEADLOCK FALSE
