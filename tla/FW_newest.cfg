\* FW_newest.cfg
INIT MCInit
NEXT MCNext
CONSTANTS
  Parts = {"flywheel"}
  leg = leg
  waist = waist
  Chains <- BothChains
  Length <- LegAndWaist
  ContextGain = 500
  Lo = 100
  Hi = 5000
  Threshold = 30
  Anomalies = {20}
  LlmGains = {6000}
  Deltas <- SmallDeltas
  MaxStep = 15
  QueryLimit = 2
  MaxSessions = 0
  First = 10
  Every = 20
  PerVersion = 10
  MaxImproved = 100
  MaxJobs = 1
  MaxFailures = 0
INVARIANT NewestModelInUse
