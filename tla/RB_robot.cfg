\* RB_robot.cfg
INIT MCInit
NEXT MCNext
CONSTANTS
  Parts = {"gains", "repo", "monitor", "phase", "schedule", "profile", "knowledge"}
  Joints = {knee}
  Lo = 100
  Hi = 5000
  MaxChange = 15
  MaxNudge = 5
  Suggestions = {0, 450, 9000}
  Deltas <- SmallDeltas
  Anomalies = {20, 50, 80}
  Start <- StartGains
  Nudges = 3
  LrProfiles = {walk, run}
  LrFiles = {a, b}
  LrMaxWrites = 3
  NJoints = 1
  Capacity = 2
  Window = 0
  Day = 1
  QueryLimit = 3
  Temps = {60, 80}
  RmMaxTime = 1
  RmMaxSetBack = 1
  RmMaxEvents = 3
  Chains = {leg}
  RlMaxCalls = 4
  RlMaxProcs = 3
  MinInterval = 1
  DailyMax = 2
  Cooldown = 2
  DayLength = 4
  TsMaxTime = 6
  TsMaxShift = 1
  Ranked <- TwoProfiles
  EnergySaver = "energy_saver"
  CollisionSafe = "collision_safe"
  PsVersions = {"v1", "v2"}
  KbRobots = {r1, r2}
  Templates = {t1}
  Models = {m1}
  KbMaxRecords = 3
  KbMaxCrashes = 2
INVARIANT TypesOK
INVARIANT GuardHolds
PROPERTY ChangeLimited
PROPERTY HistoryIsTrue
INVARIANT ContextIsMeasured
INVARIANT PhaseSurvives
PROPERTY ScheduleKept
INVARIANT SwitchIsTold
INVARIANT KnowledgeHolds
\* Writes, calls, processes, records and time run out (the bounds).
CHECK_DEADLOCK FALSE
