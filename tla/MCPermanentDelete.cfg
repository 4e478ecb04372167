\* Four files, three faults or stuck calls, two changes by other programs.
SPECIFICATION Spec
CONSTANTS
  Count = 4
  MaxFaults = 3
  MaxMeddling = 2
INVARIANTS
  ErasedOnlyWhenAllWereHidden
PROPERTIES
  OnlyRecordedFilesVanish
  OutcomeIsTrue
  UndecidedIsRecovered
CHECK_DEADLOCK FALSE
