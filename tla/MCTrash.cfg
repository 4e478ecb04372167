\* Two files and a folder, two restores or purges, three faults, two changes by others.
SPECIFICATION Spec
CONSTANTS
  Count = 3
  Folders = {2}
  MaxRequests = 2
  MaxFaults = 3
  MaxMeddling = 2
INVARIANTS
  TrashIsListed
  OutcomeIsTrue
PROPERTIES
  RecoversUnlessOutlived
CHECK_DEADLOCK FALSE
