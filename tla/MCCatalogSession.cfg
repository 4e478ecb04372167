\* Three commands, four requests, one retry each, folders of up to two batches, a queue of one.
SPECIFICATION Spec
CONSTANTS
  MaxRequests = 4
  MaxSize = 2
  MaxWorkers = 2
  QueueCapacity = 1
  MaxCommands = 3
  MaxRetries = 1
INVARIANTS
  ViewIsOneListing
PROPERTIES
  FailureTakesNothing
  ListingsEnd
CHECK_DEADLOCK FALSE
