SPECIFICATION FairSpec
CONSTANTS
  Rows <- MCRows
  InitialSources <- MCFull
  Headers = {"chat"}
  Large = {}
  Values = {1, 2}
  Absent = 0
  Policies = {1}
  Faulty = {"note"}
  MaxPoints = 2
  MaxEvents = 1
PROPERTIES EveryPointAcknowledged
CHECK_DEADLOCK FALSE
