\* AG_agent.cfg
INIT MCInit
NEXT MCNext
CONSTANTS
  Parts = {"gate", "memory", "memdir", "budget", "chain"}
  Risky = {tune, rollback}
  Harmless = {status}
  RequireConfirmations = TRUE
  TTL = 2
  MaxTime = 4
  MaxTokens = 2
  MaxLives = 2
  MaxEpisodic = 4
  MaxSummary = 3
  MinLines = 2
  MaxInsights = 2
  Streak = 3
  MaxEvents = 7
  MaxProcs = 2
  MaxName = 3
  Identity = 2
  Safety = 3
  MaxIndexLines = 10
  MaxIndexBytes = 4
  ScanLimit = 2
  Extra = 1
  RecallBudget = 4
  PlanKinds = {"llm_long", "llm_bracket"}
  MaxItems = 2
  MaxFailures = 1
  DailyBudget = 4
  SessionLimit = 5
  Prompts = {0, 1}
  Answers = {1, 2}
  MaxContext = 1
  LastDay = 1
  MaxStarts = 2
  Order <- LegOrder
  ProfileIds <- TwoIds
  Outcomes <- LowAndHigh
  CtTarget = 80
  CtMaxExperiments = 2
  NoRun = NoRun
  MaxJobs = 2
INVARIANT TypesOK
INVARIANT ConfirmedInTime
INVARIANT SettledOncePerLife
PROPERTY FreshRequestStays
INVARIANT SummaryIsOfTheCycle
INVARIANT InsightsAreEarned
INVARIANT MemoriesStay
PROPERTY OnlyPlansTouchSafety
INVARIANT LimitsHold
INVARIANT DayWithinBudget
INVARIANT ChainHolds
\* Events and processes of the memory run out (MaxEvents, MaxProcs).
CHECK_DEADLOCK FALSE
