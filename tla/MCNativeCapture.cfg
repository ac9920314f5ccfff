SPECIFICATION FairSpec
CONSTANTS
  Rows <- MCRows
  InitialSources <- MCFull
  Headers = {"chat"}
  Large = {"film"}
  Values = {1, 2}
  Absent = 0
  Policies = {1, 2}
  Faulty = {}
  MaxPoints = 3
  MaxEvents = 3
INVARIANTS TypeOK PointExact MemoSound NothingLost SupersededStaysRetired SelectionComplete
PROPERTIES ImplementsHandoff EveryPointAcknowledged
CHECK_DEADLOCK FALSE
