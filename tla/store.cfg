SPECIFICATION FairSpec
CONSTANTS
  e1 = e1  e2 = e2  e3 = e3  e4 = e4  NoEvent = NoEvent
  Events <- MCEvents
  Fields <- MCFields
  Values <- MCValues
  NoHost = ""
  Labels <- MCLabels
  Time <- MCTime
  Capacity = 2
  TTL = 1
  MaxNow = 4
INVARIANTS IndexExact LookupExact KeepsRecent CountCovers CountByAgrees
PROPERTY ExpiredLeave
