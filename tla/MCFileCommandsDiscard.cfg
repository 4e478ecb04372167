\* A file in the queue, a batch of one folder, two faults.
SPECIFICATION CommandsSpec
CONSTANTS
  Count = 1
  Folders = {2}
  Selected = 1
  MaxFaults = 2
INVARIANTS
  DeletedIsGone
CHECK_DEADLOCK FALSE
