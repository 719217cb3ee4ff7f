\* AR_long.cfg
SPECIFICATION Spec
CONSTANTS
  GainLo = 1
  GainHi = 3
  RawGains <- MCRawGains
  DefaultPid = 0
  Blank = Blank
  MaxScore = 2
  PrintedScore <- MCPrintedScore
  PrintedPid <- MCPrintedPid
  TargetScore = 3
  MaxExperiments = 5
  GitAvailable = TRUE
  MaxRuns = 1
  MaxCrashes = 0
  MaxFaults = 1
INVARIANT BestOnDisk
INVARIANT BestIsLastKept
INVARIANT AppliedInBounds
\* A run that is over, with no run left, stops.
CHECK_DEADLOCK FALSE
