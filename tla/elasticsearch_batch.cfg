\* The events come to an end, so the output stops.
SPECIFICATION Spec
CONSTANTS
  Events = {1, 2, 3}
  Size <- Sizes
  BatchSize = 4
  MaxRequests = 1
INVARIANTS HandedOnce BatchBounded PendingHasTimer BulkOkMeansIndexed
PROPERTIES EventuallyCounted
CHECK_DEADLOCK FALSE
