\* LB_daily.cfg
INIT MCInit
NEXT MCNext
CONSTANTS
  Parts = {"budget"}
  Risky = {tune, rollback}
  Harmless = {status}
  RequireConfirmations = TRUE
  TTL = 2
  MaxTime = 4
  MaxTokens = 2
  MaxLives = 2
  MaxEpisodic = 4
  MaxSummary = 3
  MinLines = 1
  MaxInsights = 2
  Streak = 3
  MaxEvents = 8
  MaxProcs = 2
  MaxName = 3
  Identity = 2
  Safety = 3
  MaxIndexLines = 10
  MaxIndexBytes = 4
  ScanLimit = 2
  Extra = 1
  RecallBudget = 4
  PlanKinds = {"llm"}
  MaxItems = 1
  MaxFailures = 0
  DailyBudget = 4
  SessionLimit = 5
  Prompts = {0, 1}
  Answers = {1, 2}
  MaxContext = 1
  LastDay = 1
  MaxStarts = 2
  Order <- LegOrder
  ProfileIds <- TwoIds
  Outcomes <- LowAndHigh
  CtTarget = 80
  CtMaxExperiments = 2
  NoRun = NoRun
  MaxJobs = 2
INVARIANT FirstCallOfDayPasses
\* The bounds run out.
CHECK_DEADLOCK FALSE
