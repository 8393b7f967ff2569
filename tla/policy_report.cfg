\* The events come to an end, so the output stops.
SPECIFICATION Spec
CONSTANTS
  e1 = e1  e2 = e2  e3 = e3
  Events <- MCEvents
  Attributes <- MCAttributes
  MaxEvents = 2
SYMMETRY Symmetry
INVARIANTS KeepsNewest OkMeansAdded
CHECK_DEADLOCK FALSE
