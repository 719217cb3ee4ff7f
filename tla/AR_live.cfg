\* AR_live.cfg
SPECIFICATION FairSpec
CONSTANTS
  GainLo = 1
  GainHi = 2
  RawGains <- MCRawGains
  DefaultPid = 1
  Blank = Blank
  MaxScore = 1
  PrintedScore <- MCPrintedScore
  PrintedPid <- MCPrintedPid
  TargetScore = 1
  MaxExperiments = 2
  GitAvailable = FALSE
  MaxRuns = 2
  MaxCrashes = 1
  MaxFaults = 1
PROPERTY RunEnds
\* A run that is over, with no run left, stops.
CHECK_DEADLOCK FALSE
