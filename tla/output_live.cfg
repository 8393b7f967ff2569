SPECIFICATION FairSpec
CONSTANTS
  e1 = e1  e2 = e2  e3 = e3  w1 = w1  w2 = w2
  Events <- Events2
  Workers <- TwoWorkers
  QueueSize = 1
  MaxAttempts = 2
  Batching = TRUE
  BatchSize = 2
  FailureThreshold = 2
  SuccessThreshold = 1
PROPERTIES WorkersReturn EventuallySettled ProbeResolves
