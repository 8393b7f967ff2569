SPECIFICATION Spec
CONSTANTS
  e1 = e1  e2 = e2  e3 = e3
  Events <- MCEvents
  PriorityOf <- FalcoPriorities
  N = 2
  MinPriority <- MCMinPriority
  QueueSize = 1
CHECK_DEADLOCK FALSE
INVARIANT RoutedBySeverity
