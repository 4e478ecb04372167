\* A queue of a folder, a file and a folder, a batch of two folders, three faults.
SPECIFICATION CommandsSpec
CONSTANTS
  Count = 3
  Folders = {1, 3, 4, 5}
  Selected = 2
  MaxFaults = 3
INVARIANTS
  EveryOutcomeIsTrue
  NothingIsForgotten
PROPERTIES
  NothingBeginsTwice
  RecoversUnlessOutOfTouch
CHECK_DEADLOCK FALSE
