\* Two versions of one source, two sizes, room for two artifacts; three
\* requests, two faults, and the helper killed at any time.
SPECIFICATION Spec
CONSTANTS
  v1 = v1
  v2 = v2
  Versions <- MCVersions
  LargestEdge = 2
  MaxEntries = 2
  MaxListed = 3
  MaxRequests = 3
  MaxFaults = 2
SYMMETRY Exchange
INVARIANTS ShownIsVerified SavedIsAvailable StoreIsCounted
