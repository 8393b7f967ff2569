\* The events come to an end, or the worker is overrun.
SPECIFICATION Spec
CONSTANTS
  SegmentSize = 2
  BatchSize = 2
  MaxEvents = 8
  MaxFailures = 2
INVARIANTS UploadedBeforePassed
PROPERTIES UploadedOrOverrun
CHECK_DEADLOCK FALSE
