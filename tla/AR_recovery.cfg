\* AR_recovery.cfg
SPECIFICATION Spec
CONSTANTS
  GainLo = 1
  GainHi = 1
  RawGains <- MCRawGains
  DefaultPid = 0
  Blank = Blank
  MaxScore = 2
  PrintedScore <- MCPrintedScore
  PrintedPid <- MCPrintedPid
  TargetScore = 3
  MaxExperiments = 2
  GitAvailable = TRUE
  MaxRuns = 3
  MaxCrashes = 2
  MaxFaults = 1
INVARIANT TypeOK
INVARIANT NoHalfRecorded
INVARIANT TagNamesItsExperiment
INVARIANT LogIsPrefixChain
INVARIANT KeptRowsDominate
PROPERTY ImplementsExperimentLog
\* A run that is over, with no run left, stops.
CHECK_DEADLOCK FALSE
