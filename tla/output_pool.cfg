SPECIFICATION Spec
CONSTANTS
  e1 = e1  e2 = e2  e3 = e3  w1 = w1  w2 = w2
  Events <- Events3
  Workers <- TwoWorkers
  QueueSize = 2
  MaxAttempts = 2
  Batching = FALSE
  BatchSize = 2
  FailureThreshold = 2
  SuccessThreshold = 2
SYMMETRY Symmetry
INVARIANTS BreakerConsistent ProbeOutstanding
PROPERTY OpenUntilTimeout
