\* Two records tell a generation and its successor apart; one damaged file, two failed
\* system calls or process crashes, and any number of power losses.
SPECIFICATION Spec
CONSTANTS
  Payload = {p1, p2}
  None = None
  Corrupt = Corrupt
  Unknown = Unknown
  MaxFaults = 2
  MaxDecay = 1
SYMMETRY Symmetry
INVARIANTS
  TypeOK
  AcknowledgedOutcomeSurvives
  ClaimIsExclusive
  ReaderMissesNoRecord
PROPERTIES
  ImplementsRegister
