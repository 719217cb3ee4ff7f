\* IT_rollback.cfg
INIT MCInit
NEXT MCNext
CONSTANTS
  Parts = {"sessions"}
  leg = leg
  waist = waist
  Chains <- BothChains
  Length <- LegAndWaist
  ContextGain = 500
  Lo = 100
  Hi = 5000
  Threshold = 30
  Anomalies = {20, 31, 60}
  LlmGains = {6000}
  Deltas <- SmallDeltas
  MaxStep = 15
  QueryLimit = 2
  MaxSessions = 2
  First = 10
  Every = 20
  PerVersion = 10
  MaxImproved = 0
  MaxJobs = 1
  MaxFailures = 0
PROPERTY RollbackRestores
\* The session files run out (MaxSessions).
CHECK_DEADLOCK FALSE
