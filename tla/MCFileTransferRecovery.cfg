\* One file, one fault, nobody else at the files.
SPECIFICATION PersistentSpec
CONSTANTS
  Count = 1
  MaxFaults = 1
  MaxMeddling = 0
PROPERTIES
  InterruptedIsRecovered
CHECK_DEADLOCK FALSE
