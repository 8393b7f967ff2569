\* The version 2 program with every output, alone and beside those that write to the
\* event they share. The events come to an end, so the program stops.
SPECIFICATION Spec
CONSTANTS
  Setups <- Cases
  MaxRequests = 1
INVARIANTS
  CountsAddUp
  OkMeansAccepted
  AtMostOnce
  
  TagsIntact
PROPERTIES
  PostsFinish
CHECK_DEADLOCK FALSE
