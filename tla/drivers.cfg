\* The batch comes to an end, so the model stops.
SPECIFICATION Spec
CONSTANTS
  e1 = e1  e2 = e2
  Batch <- MCBatch
  Hosts <- MCHosts
  MaxAttempts = 3
  FieldNames <- MCFieldNames
  Replaced <- MCReplaced
  EnricherSetups <- MCSetups
INVARIANTS EnrichedAlike DuplicatesNeedLostAnswer SentIsTaken
CHECK_DEADLOCK FALSE
