\* The transfer of a folder of two files: kills, torn files, power failures, edits.
SPECIFICATION Spec
CONSTANTS
  Entries = {a, b}
  MaxFaults = 3
  MaxMeddling = 2
INVARIANTS
  NothingIsLost
  AllOrNothing
PROPERTIES
  FolderPromise
  RecoversUnlessDamaged
CHECK_DEADLOCK FALSE
