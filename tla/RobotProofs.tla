----------------------------- MODULE RobotProofs -----------------------------
(***************************************************************************)
(* Proofs about what is kept for one robot beside its repository: its      *)
(* phase (RobotLifecycle), the schedule of its sessions (TuningSchedule),  *)
(* what is told of its profile (ProfileSwitch) and what its joints and its *)
(* event log tell of it (RuntimeMonitor); and, with what is proved of the  *)
(* other parts, the types of all of them.                                  *)
(***************************************************************************)
EXTENDS MCRobot, LifecycleRepoProofs, KnowledgeBaseProofs, SafetyPipelineProofs,
        FiniteSetTheorems, SequenceTheorems, WellFoundedInduction, TLAPS
-----------------------------------------------------------------------------
(***************************************************************************)
(* RobotLifecycle, for every chain and any number of calls, failing saves, *)
(* crashes and power losses: a robot wakes up in the phase its last        *)
(* transition has led it to.                                               *)
(***************************************************************************)
\* A file is torn only by a call that did not return since the last one that
\* did: this is why a process whose calls all returned can trust its file.
TornIsTried == rlTorn => rlTried # {}

Saved == rlSaved \in Seq(States)

LifecycleInv == RlTypeOK /\ Saved /\ TornIsTried /\ PhaseSurvives
-----------------------------------------------------------------------------
LEMMA DownIsNoState == Down \notin States
BY DEF Down, States, Phases

LEMMA FreshIsState == Fresh0 \in States
BY DEF Fresh0, States, Phases

\* The checkpoint that counts is the one written last.
LEMMA LastOfAppend ==
  ASSUME NEW q \in Seq(States), NEW s \in States
  PROVE  /\ Append(q, s) \in Seq(States)
         /\ Append(q, s) # <<>>
         /\ Last(Append(q, s)) = s
BY DEF Last

LEMMA LastIsState ==
  ASSUME NEW q \in Seq(States), q # <<>>
  PROVE  Last(q) \in States
<1>1. Len(q) \in DOMAIN q
  OBVIOUS
<1>. QED BY <1>1 DEF Last

LEMMA LoadedIsState ==
  ASSUME Saved
  PROVE  Loaded \in States
BY LastIsState, FreshIsState DEF Saved, Loaded

\* Where a transition leads is a state of a robot.
LEMMA EnteredIsState ==
  ASSUME NEW e, NEW c, NEW s \in States, Call(e, c, s), RlTypeOK
  PROVE  rlCalls' \in 0..RlMaxCalls
BY RobotLifecycleAssumption DEF Call, RlTypeOK

\* The conjunct of the type invariant about the checkpoints is their type.
LEMMA SavedHasType ==
  ASSUME NEW q \in Seq(States)
  PROVE  \A i \in DOMAIN q : q[i] \in States
OBVIOUS
-----------------------------------------------------------------------------
LEMMA LifecycleStarts == RlInit => LifecycleInv
<1> SUFFICES ASSUME RlInit PROVE LifecycleInv
  OBVIOUS
<1>1. Saved /\ TornIsTried
  BY DEF RlInit, Saved, TornIsTried
<1>2. RlTypeOK
  BY <1>1, FreshIsState, SavedHasType, RobotLifecycleAssumption
     DEF RlInit, RlTypeOK, Saved
<1>3. PhaseSurvives
  BY DEF RlInit, PhaseSurvives, WakesWhereItWas, CheckpointIsCurrent, Loaded
<1>. QED BY <1>1, <1>2, <1>3 DEF LifecycleInv

LEMMA StartKeeps ==
  ASSUME LifecycleInv, RlStart
  PROVE  LifecycleInv'
<1>1. Saved' /\ TornIsTried' /\ Loaded' = Loaded
  BY DEF LifecycleInv, RlStart, Saved, TornIsTried, Loaded
<1>2. RlTypeOK'
  <2>1. Loaded \in States
    BY LoadedIsState DEF LifecycleInv
  <2>. QED BY <2>1, RobotLifecycleAssumption DEF LifecycleInv, RlStart, RlTypeOK
<1>3. WakesWhereItWas'
  BY <1>1 DEF LifecycleInv, PhaseSurvives, WakesWhereItWas, RlStart
<1>4. CheckpointIsCurrent'
  BY <1>1, <1>3 DEF LifecycleInv, TornIsTried, WakesWhereItWas,
                    CheckpointIsCurrent, RlStart
<1>. QED BY <1>1, <1>2, <1>3, <1>4 DEF LifecycleInv, PhaseSurvives

LEMMA TransitionKeeps ==
  ASSUME LifecycleInv, NEW e, NEW c, NEW s \in States, Transition(e, c, s)
  PROVE  LifecycleInv'
<1>1. rlSaved' = Append(rlSaved, s) /\ rlTorn' = FALSE
  BY DEF Transition, Checkpoint
<1>2. Saved' /\ Loaded' = s
  BY <1>1, LastOfAppend DEF LifecycleInv, Saved, Loaded
<1>3. TornIsTried'
  BY <1>1 DEF TornIsTried
<1>4. RlTypeOK'
  BY <1>1, <1>2, EnteredIsState, SavedHasType
     DEF LifecycleInv, Saved, RlTypeOK, Transition
<1>5. PhaseSurvives'
  BY <1>2 DEF PhaseSurvives, WakesWhereItWas, CheckpointIsCurrent, Transition
<1>. QED BY <1>2, <1>3, <1>4, <1>5 DEF LifecycleInv

LEMMA RaisingSaveKeeps ==
  ASSUME LifecycleInv, NEW e, NEW c, NEW s \in States, SaveRaises(e, c, s)
  PROVE  LifecycleInv'
<1>1. rlSaved' = rlSaved /\ rlTried' = rlTried \cup {s}
  BY DEF SaveRaises
<1>2. Saved' /\ TornIsTried'
  BY <1>1 DEF LifecycleInv, Saved, TornIsTried
<1>3. RlTypeOK'
  BY <1>1, EnteredIsState DEF LifecycleInv, RlTypeOK, SaveRaises, MayTear
<1>4. WakesWhereItWas'
  <2> SUFFICES ASSUME ~rlTorn', ~rlPower'
               PROVE  Loaded' \in {rlRobot'} \cup rlTried'
    BY DEF WakesWhereItWas
  <2>1. ~rlTorn /\ ~rlPower /\ Loaded' = Loaded /\ rlRobot' = rlRobot
    BY DEF SaveRaises, Loaded
  <2>. QED BY <1>1, <2>1 DEF LifecycleInv, PhaseSurvives, WakesWhereItWas
<1>5. CheckpointIsCurrent'
  BY <1>1 DEF CheckpointIsCurrent
<1>. QED BY <1>2, <1>3, <1>4, <1>5 DEF LifecycleInv, PhaseSurvives

LEMMA CrashInSaveKeeps ==
  ASSUME LifecycleInv, NEW e, NEW c, NEW s \in States, CrashInSave(e, c, s)
  PROVE  LifecycleInv'
<1>1. /\ rlMem' = Down /\ rlTried' = rlTried \cup {s}
      /\ rlRobot' = rlRobot /\ rlPower' = rlPower
  BY DEF CrashInSave
<1>2. CheckpointIsCurrent' /\ TornIsTried'
  BY <1>1 DEF CheckpointIsCurrent, TornIsTried
<1>3. CASE rlSaved' = Append(rlSaved, s) /\ rlTorn' = FALSE
  <2>1. Saved' /\ Loaded' = s
    BY <1>3, LastOfAppend DEF LifecycleInv, Saved, Loaded
  <2>2. RlTypeOK'
    BY <1>3, <2>1, EnteredIsState, SavedHasType
       DEF LifecycleInv, Saved, RlTypeOK, CrashInSave
  <2>3. WakesWhereItWas'
    BY <1>1, <2>1 DEF WakesWhereItWas
  <2>. QED BY <1>2, <2>1, <2>2, <2>3 DEF LifecycleInv, PhaseSurvives
<1>4. CASE /\ rlSaved' = rlSaved
           /\ rlTorn' = rlTorn \/ (rlTorn' = TRUE /\ MayTear)
  <2>1. Saved'
    BY <1>4 DEF LifecycleInv, Saved
  <2>2. RlTypeOK'
    BY <1>4, EnteredIsState DEF LifecycleInv, RlTypeOK, CrashInSave, MayTear
  <2>3. WakesWhereItWas'
    <3> SUFFICES ASSUME ~rlTorn', ~rlPower'
                 PROVE  Loaded' \in {rlRobot'} \cup rlTried'
      BY DEF WakesWhereItWas
    <3>1. ~rlTorn /\ ~rlPower /\ Loaded' = Loaded
      BY <1>1, <1>4 DEF Loaded
    <3>. QED BY <1>1, <3>1 DEF LifecycleInv, PhaseSurvives, WakesWhereItWas
  <2>. QED BY <1>2, <2>1, <2>2, <2>3 DEF LifecycleInv, PhaseSurvives
<1>. QED BY <1>3, <1>4 DEF CrashInSave, Checkpoint

LEMMA StopKeeps ==
  ASSUME LifecycleInv, RlCrash \/ PowerLoss
  PROVE  LifecycleInv'
<1>1. CASE RlCrash
  <2>1. Saved' /\ TornIsTried' /\ Loaded' = Loaded
    BY <1>1 DEF LifecycleInv, RlCrash, Saved, TornIsTried, Loaded
  <2>2. RlTypeOK'
    BY <1>1 DEF LifecycleInv, RlCrash, RlTypeOK
  <2>3. PhaseSurvives'
    BY <1>1, <2>1 DEF LifecycleInv, PhaseSurvives, WakesWhereItWas,
                      CheckpointIsCurrent, RlCrash
  <2>. QED BY <2>1, <2>2, <2>3 DEF LifecycleInv
<1>2. CASE PowerLoss
  <2>1. PICK k \in 0..Len(rlSaved) : rlSaved' = SubSeq(rlSaved, 1, k)
    BY <1>2 DEF PowerLoss
  <2>2. Saved'
    BY <2>1 DEF LifecycleInv, Saved
  <2>3. RlTypeOK'
    BY <1>2, <2>2, SavedHasType DEF LifecycleInv, Saved, PowerLoss, RlTypeOK
  <2>4. PhaseSurvives' /\ TornIsTried'
    BY <1>2 DEF LifecycleInv, PhaseSurvives, WakesWhereItWas,
                CheckpointIsCurrent, TornIsTried, PowerLoss
  <2>. QED BY <2>2, <2>3, <2>4 DEF LifecycleInv
<1>. QED BY <1>1, <1>2

LEMMA LifecycleStep == LifecycleInv /\ [RlNext]_rlVars => LifecycleInv'
<1> SUFFICES ASSUME LifecycleInv, [RlNext]_rlVars PROVE LifecycleInv'
  OBVIOUS
<1>1. CASE RlStart
  BY <1>1, StartKeeps
<1>2. CASE RlCrash \/ PowerLoss
  BY <1>2, StopKeeps
<1>3. ASSUME NEW e, NEW c, NEW s \in States, Transition(e, c, s)
      PROVE  LifecycleInv'
  BY <1>3, TransitionKeeps
<1>4. ASSUME NEW e, NEW c, NEW s \in States, SaveRaises(e, c, s)
      PROVE  LifecycleInv'
  BY <1>4, RaisingSaveKeeps
<1>5. ASSUME NEW e, NEW c, NEW s \in States, CrashInSave(e, c, s)
      PROVE  LifecycleInv'
  BY <1>5, CrashInSaveKeeps
<1>6. CASE UNCHANGED rlVars
  BY <1>6 DEF rlVars, LifecycleInv, RlTypeOK, Saved, TornIsTried, PhaseSurvives,
              WakesWhereItWas, CheckpointIsCurrent, Loaded
<1>. QED BY <1>1, <1>2, <1>3, <1>4, <1>5, <1>6 DEF RlNext
-----------------------------------------------------------------------------
\* RobotLifecycle.transition, _save_state and _load_state: the phase a process
\* loads is where the last transition that returned has led the robot, or a
\* call that raised or was cut off after it, unless the file is torn or power
\* was lost; and the process believes nothing else.
THEOREM PhaseIsKept == RlSpec => []PhaseSurvives
<1>1. RlSpec => []LifecycleInv
  BY LifecycleStarts, LifecycleStep, PTL DEF RlSpec
<1>2. LifecycleInv => PhaseSurvives
  BY DEF LifecycleInv
<1>. QED BY <1>1, <1>2, PTL
-----------------------------------------------------------------------------
(***************************************************************************)
(* TuningSchedule, for all limits and every way the clock is set:          *)
(* interval, cooldown and daily maximum are kept.                          *)
(***************************************************************************)
\* The types the proofs need.  A session that runs was counted below the
\* limit when it began, whatever day it ends on.
ScheduleShape ==
  /\ tsNow \in TsStart..(TsStart + TsMaxTime) /\ tsShift \in -TsMaxShift..TsMaxShift
  /\ tsTune \in Int /\ tsRollback \in Int /\ tsBusy \in BOOLEAN
  /\ tsCount \in 0..DailyMax /\ tsDate \in Days
  /\ tsEnd \in Int /\ tsBack \in Int /\ tsEnded \in [Days -> Nat]

BusyWasAllowed == tsBusy => tsCount < DailyMax

\* The clock readings the orchestrator holds are those of the history.
TimesAgree ==
  /\ tsEnd # Never => tsTune = tsEnd + tsShift
  /\ tsBack # Never => tsRollback = tsBack + tsShift

\* What the counter says of today is at least what ended today; nothing has
\* ended on a day to come, which is why a new day may begin at 0.
CountCovers ==
  /\ tsEnded[Today] <= CountToday
  /\ \A d \in Days : d > Today => tsEnded[d] = 0

ScheduleInv == ScheduleShape /\ BusyWasAllowed /\ TimesAgree /\ CountCovers /\ DailyMaxKept
-----------------------------------------------------------------------------
(* Days                                                                    *)

LEMMA Quotient ==
  ASSUME NEW n \in Nat
  PROVE  /\ n \div DayLength \in Nat
         /\ DayLength * (n \div DayLength) <= n
         /\ n < DayLength * (n \div DayLength) + DayLength
BY TuningScheduleAssumption

LEMMA LaterDay ==
  ASSUME NEW a \in Nat, NEW b \in Nat, a <= b
  PROVE  a \div DayLength <= b \div DayLength
<1> DEFINE p == a \div DayLength
           q == b \div DayLength
<1>1. /\ p \in Nat /\ q \in Nat /\ DayLength \in Nat
      /\ DayLength * p <= a /\ b < DayLength * q + DayLength
  BY Quotient, TuningScheduleAssumption
<1> HIDE DEF p, q
<1>2. SUFFICES ASSUME q + 1 <= p PROVE FALSE
  BY <1>1 DEF p, q
<1>3. DayLength * (q + 1) <= DayLength * p
  BY <1>1, <1>2
<1>4. DayLength * (q + 1) = DayLength * q + DayLength
  BY <1>1
<1>. QED BY <1>1, <1>3, <1>4

\* Every reading of the clock is a time of one of the days.
LEMMA TimeHasDay ==
  ASSUME NEW n \in TsStart..(TsStart + TsMaxTime), NEW s \in -TsMaxShift..TsMaxShift
  PROVE  /\ n + s \in Nat
         /\ (n + s) \div DayLength \in Days
<1>1. /\ n + s \in Nat /\ TsStart + TsMaxTime + TsMaxShift \in Nat
      /\ n + s <= TsStart + TsMaxTime + TsMaxShift
  BY TuningScheduleAssumption DEF TsStart
<1>2. /\ (n + s) \div DayLength
           <= (TsStart + TsMaxTime + TsMaxShift) \div DayLength
      /\ (n + s) \div DayLength \in Nat
      /\ (TsStart + TsMaxTime + TsMaxShift) \div DayLength \in Nat
  BY <1>1, LaterDay, Quotient
<1>. QED BY <1>1, <1>2 DEF Days

LEMMA TodayIsDay == ASSUME ScheduleShape PROVE Today \in Days /\ WallTime \in Int
BY TimeHasDay DEF ScheduleShape, Today, WallTime

LEMMA DaysAreInts == \A d \in Days : d \in Int
BY DEF Days

LEMMA CountIsBounded ==
  ASSUME ScheduleShape
  PROVE  /\ CountToday \in 0..DailyMax
         /\ BusyWasAllowed /\ tsBusy => CountToday < DailyMax
BY TuningScheduleAssumption DEF ScheduleShape, CountToday, BusyWasAllowed

\* Setting the clock or starting again begins the history anew.
LEMMA NewHistory ==
  ASSUME ScheduleShape', NoHistory, BusyWasAllowed'
  PROVE  ScheduleInv'
<1>1. TimesAgree'
  BY DEF NoHistory, TimesAgree
<1>2. Today' \in Days /\ CountToday' \in 0..DailyMax
  BY TimeHasDay, TuningScheduleAssumption
     DEF ScheduleShape, Today, WallTime, CountToday
<1>3. CountCovers'
  BY <1>2 DEF NoHistory, CountCovers
<1>4. DailyMaxKept'
  BY TuningScheduleAssumption DEF NoHistory, DailyMaxKept
<1>. QED BY <1>1, <1>3, <1>4 DEF ScheduleInv
-----------------------------------------------------------------------------
LEMMA ScheduleStarts == TsInit => ScheduleInv
<1> SUFFICES ASSUME TsInit PROVE ScheduleInv
  OBVIOUS
<1>0. /\ tsNow \in TsStart..(TsStart + TsMaxTime)
      /\ tsShift \in -TsMaxShift..TsMaxShift
  BY TuningScheduleAssumption DEF TsInit, TsStart
<1>1. Today \in Days
  BY <1>0, TimeHasDay DEF Today, WallTime
<1>2. ScheduleShape
  <2>1. tsCount \in 0..DailyMax /\ tsDate \in Days /\ tsBusy = FALSE
    BY <1>1, TuningScheduleAssumption DEF TsInit
  <2>2. tsEnded \in [Days -> Nat]
    BY DEF TsInit
  <2>3. tsTune \in Int /\ tsRollback \in Int /\ tsEnd \in Int /\ tsBack \in Int
    BY DEF TsInit, Never
  <2>. QED BY <1>0, <2>1, <2>2, <2>3 DEF ScheduleShape
<1>3. BusyWasAllowed /\ TimesAgree /\ DailyMaxKept
  BY TuningScheduleAssumption
     DEF TsInit, BusyWasAllowed, TimesAgree, DailyMaxKept, Never
<1>4. CountCovers
  BY <1>1, <1>2 DEF TsInit, CountCovers, CountToday
<1>. QED BY <1>2, <1>3, <1>4 DEF ScheduleInv

\* Asking brings the counter to the day, and changes nothing it says.
LEMMA AskKeeps ==
  ASSUME ScheduleInv, Ask
  PROVE  ScheduleInv' /\ IntervalKept /\ CooldownKept
<1> USE DEF ScheduleInv
<1>1. Today \in Days /\ CountToday \in 0..DailyMax /\ WallTime \in Int
  BY TodayIsDay, CountIsBounded
<1>2. ScheduleShape' /\ BusyWasAllowed' /\ TimesAgree' /\ DailyMaxKept'
  BY <1>1 DEF Ask, ScheduleShape, BusyWasAllowed, TimesAgree, DailyMaxKept, UnderDailyMax
<1>3. Today' = Today /\ CountToday' = CountToday
  BY DEF Ask, Today, WallTime, CountToday
<1>4. CountCovers'
  BY <1>3 DEF Ask, CountCovers
<1>5. IntervalKept
  BY <1>1, TuningScheduleAssumption
     DEF Ask, IntervalKept, IntervalOver, TimesAgree, WallTime, ScheduleShape, TsStart
<1>6. CooldownKept
  BY <1>1, TuningScheduleAssumption
     DEF Ask, CooldownKept, CooledDown, TimesAgree, WallTime, ScheduleShape, TsStart
<1>. QED BY <1>2, <1>4, <1>5, <1>6

LEMMA RecordTuneKeeps ==
  ASSUME ScheduleInv, RecordTune
  PROVE  ScheduleInv'
<1> USE DEF ScheduleInv
<1>1. Today \in Days /\ CountToday \in 0..DailyMax /\ CountToday < DailyMax
      /\ WallTime \in Int
  BY TodayIsDay, CountIsBounded DEF RecordTune
<1>2. tsNow \in Int /\ tsShift \in Int /\ TsStart \in Int
  BY TuningScheduleAssumption DEF ScheduleShape, TsStart
<1>3. ScheduleShape'
  <2>1. tsCount' \in 0..DailyMax
    BY <1>1, TuningScheduleAssumption DEF RecordTune
  <2>2. tsEnded' \in [Days -> Nat]
    BY <1>1 DEF RecordTune, ScheduleShape
  <2>. QED BY <1>1, <1>2, <2>1, <2>2 DEF RecordTune, ScheduleShape
<1>4. BusyWasAllowed' /\ TimesAgree'
  BY <1>2 DEF RecordTune, BusyWasAllowed, TimesAgree, WallTime
<1>5. /\ Today' = Today
      /\ CountToday' = CountToday + 1
      /\ tsEnded'[Today] = tsEnded[Today] + 1
      /\ \A d \in Days : d # Today => tsEnded'[d] = tsEnded[d]
  BY <1>1 DEF RecordTune, Today, WallTime, CountToday, ScheduleShape
<1>6. tsEnded[Today] \in Nat /\ tsEnded[Today] <= CountToday
  BY <1>1 DEF ScheduleShape, CountCovers
<1>7. CountCovers'
  BY <1>1, <1>5, <1>6, DaysAreInts DEF CountCovers
<1>8. DailyMaxKept'
  <2> SUFFICES ASSUME NEW d \in Days PROVE tsEnded'[d] <= DailyMax
    BY DEF DailyMaxKept
  <2>1. CASE d = Today
    BY <1>1, <1>5, <1>6, <2>1, TuningScheduleAssumption
  <2>2. CASE d # Today
    BY <1>5, <2>2 DEF DailyMaxKept
  <2>. QED BY <2>1, <2>2
<1>. QED BY <1>3, <1>4, <1>7, <1>8

LEMMA RecordRollbackKeeps ==
  ASSUME ScheduleInv, RecordRollback
  PROVE  ScheduleInv'
<1> USE DEF ScheduleInv
<1>1. tsNow \in Int /\ tsShift \in Int /\ WallTime \in Int
  BY TodayIsDay, TuningScheduleAssumption DEF ScheduleShape, TsStart
<1>2. ScheduleShape' /\ BusyWasAllowed' /\ DailyMaxKept'
  BY <1>1 DEF RecordRollback, ScheduleShape, BusyWasAllowed, DailyMaxKept
<1>3. TimesAgree'
  BY <1>1 DEF RecordRollback, TimesAgree, WallTime
<1>4. CountCovers'
  BY DEF RecordRollback, CountCovers, Today, WallTime, CountToday
<1>. QED BY <1>2, <1>3, <1>4

\* A day that begins has seen no session end.
LEMMA TickKeeps ==
  ASSUME ScheduleInv, TsTick
  PROVE  ScheduleInv'
<1> USE DEF ScheduleInv
<1>1. /\ tsNow \in TsStart..(TsStart + TsMaxTime) /\ tsNow' = tsNow + 1
      /\ tsNow' \in TsStart..(TsStart + TsMaxTime)
      /\ tsShift \in -TsMaxShift..TsMaxShift /\ tsShift' = tsShift
  BY TuningScheduleAssumption DEF TsTick, ScheduleShape, TsStart
<1>2. ScheduleShape' /\ BusyWasAllowed' /\ DailyMaxKept' /\ TimesAgree'
  BY <1>1 DEF TsTick, ScheduleShape, BusyWasAllowed, DailyMaxKept, TimesAgree, fields
<1>3. Today \in Days /\ Today' \in Days /\ Today <= Today'
  <2>1. tsNow + tsShift <= tsNow' + tsShift
    BY <1>1, TuningScheduleAssumption DEF TsStart
  <2>2. tsNow + tsShift \in Nat /\ tsNow' + tsShift \in Nat
    BY <1>1, TimeHasDay
  <2>. QED BY <1>1, <2>1, <2>2, TimeHasDay, LaterDay DEF Today, WallTime
<1>4. CountToday \in 0..DailyMax /\ CountToday' \in 0..DailyMax
  BY <1>2, TuningScheduleAssumption DEF CountToday, ScheduleShape
<1>5. tsEnded' = tsEnded /\ tsDate' = tsDate /\ tsCount' = tsCount
  BY DEF TsTick, fields
<1>6. tsEnded'[Today'] <= CountToday'
  <2>1. CASE Today' = Today
    BY <1>5, <2>1 DEF CountCovers, CountToday
  <2>2. CASE Today' # Today
    <3>1. tsEnded[Today'] = 0
      BY <1>3, <2>2, DaysAreInts DEF CountCovers
    <3>. QED BY <1>4, <1>5, <3>1, TuningScheduleAssumption
  <2>. QED BY <2>1, <2>2
<1>7. CountCovers'
  BY <1>3, <1>5, <1>6, DaysAreInts DEF CountCovers
<1>. QED BY <1>2, <1>7

LEMMA SetClockKeeps ==
  ASSUME ScheduleInv, SetClock
  PROVE  ScheduleInv'
<1>1. ScheduleShape' /\ BusyWasAllowed'
  BY TuningScheduleAssumption
     DEF ScheduleInv, SetClock, NoHistory, fields, ScheduleShape, BusyWasAllowed, Never
<1>. QED BY <1>1, NewHistory DEF SetClock

LEMMA RestartKeeps ==
  ASSUME ScheduleInv, TsRestart
  PROVE  ScheduleInv'
<1>1. Today \in Days
  BY TodayIsDay DEF ScheduleInv
<1>2. tsCount' \in 0..DailyMax /\ tsDate' \in Days /\ tsBusy' = FALSE
  BY <1>1, TuningScheduleAssumption DEF TsRestart
<1>3. tsEnded' \in [Days -> Nat]
  BY DEF TsRestart, NoHistory
<1>4. tsTune' \in Int /\ tsRollback' \in Int /\ tsEnd' \in Int /\ tsBack' \in Int
  BY DEF TsRestart, NoHistory, Never
<1>5. ScheduleShape' /\ BusyWasAllowed'
  BY <1>2, <1>3, <1>4 DEF ScheduleInv, TsRestart, ScheduleShape, BusyWasAllowed
<1>. QED BY <1>5, NewHistory DEF TsRestart

\* Only Ask lets a session begin.
LEMMA OthersDoNotAsk ==
  ASSUME RecordTune \/ RecordRollback \/ TsTick \/ SetClock \/ TsRestart
         \/ UNCHANGED tsVars, ScheduleInv
  PROVE  ~Ask
BY DEF Ask, RecordTune, RecordRollback, TsTick, SetClock, TsRestart, tsVars,
       ScheduleInv, ScheduleShape, fields, UnderDailyMax

LEMMA ScheduleStep ==
  ASSUME ScheduleInv, [TsNext]_tsVars
  PROVE  ScheduleInv' /\ (TsNext => IntervalKept /\ CooldownKept)
<1>1. CASE Ask
  BY <1>1, AskKeeps
<1>2. CASE RecordTune \/ RecordRollback \/ TsTick \/ SetClock \/ TsRestart
  <2>1. ~Ask /\ ScheduleInv'
    BY <1>2, OthersDoNotAsk, RecordTuneKeeps, RecordRollbackKeeps, TickKeeps,
       SetClockKeeps, RestartKeeps
  <2>. QED BY <2>1 DEF IntervalKept, CooldownKept
<1>3. CASE UNCHANGED tsVars
  <2>1. ScheduleInv'
    BY <1>3 DEF tsVars, fields, ScheduleInv, ScheduleShape, BusyWasAllowed, TimesAgree,
                CountCovers, DailyMaxKept, Today, WallTime, CountToday
  <2>2. ~Ask
    BY <1>3, OthersDoNotAsk
  <2>. QED BY <2>1, <2>2 DEF IntervalKept, CooldownKept
<1>. QED BY <1>1, <1>2, <1>3 DEF TsNext
-----------------------------------------------------------------------------
\* SessionOrchestrator.can_tune with record_tune and record_rollback: as long
\* as nobody sets the clock and the process lives, no session begins within
\* the interval after another or the cooldown after a rollback, and no day
\* sees more sessions end than the maximum.
THEOREM ScheduleCorrect == TsSpec => ScheduleKept
<1>1. ScheduleInv /\ [TsNext]_tsVars
        => ScheduleInv' /\ [DailyMaxKept' /\ IntervalKept /\ CooldownKept]_tsVars
  BY ScheduleStep DEF ScheduleInv
<1>. QED BY <1>1, ScheduleStarts, PTL DEF TsSpec, ScheduleKept
-----------------------------------------------------------------------------
(***************************************************************************)
(* ProfileSwitch, for all profiles and versions of gains: through switches *)
(* that fail anywhere, the stream tells which gains the robot runs with.   *)
(***************************************************************************)

\* Whatever rules have chosen the profile, a switch that returns tells of the
\* gains the writer was given, and one whose writer raises tells nothing.
LEMMA SwitchToTells ==
  ASSUME SwitchIsTold, NEW p, NEW returns \in BOOLEAN, SwitchTo(p, returns)
  PROVE  SwitchIsTold'
<1>1. CASE Gains(p) = None
  <2>1. psApplied' = psApplied
    BY <1>1 DEF SwitchTo, Writes
  <2>2. psTold' = psTold /\ psCut' = psCut
    BY <1>1 DEF SwitchTo, Emits
  <2> QED BY <2>1, <2>2 DEF SwitchIsTold
<1>2. CASE Gains(p) # None /\ returns
  <2>1. psApplied' = OwnGains(p)
    BY <1>2 DEF SwitchTo, Writes
  <2>2. psTold' = OwnGains(p)
    BY <1>2 DEF SwitchTo, Emits, EmitsAfterWriter
  <2> QED BY <2>1, <2>2 DEF SwitchIsTold
<1>3. CASE Gains(p) # None /\ ~returns
  <2>1. psCut'
    BY <1>3 DEF SwitchTo, Emits, EmitsAfterWriter
  <2> QED BY <2>1 DEF SwitchIsTold
<1> QED BY <1>1, <1>2, <1>3

\* A switch that raises before the writer has changed nothing but the branch,
\* and one that ends after the writer is remembered.
LEMMA CutOffTellsNothing ==
  ASSUME SwitchIsTold, NEW p, SwitchRaises(p) \/ SwitchCutOff(p)
  PROVE  SwitchIsTold'
BY DEF SwitchRaises, SwitchCutOff, SwitchIsTold

LEMMA RepositoryTellsNothing ==
  ASSUME SwitchIsTold,
         \/ \E reaches \in BOOLEAN : RepoInit(reaches)
         \/ \E p \in PsProfiles : CreateBranch(p)
         \/ \E p \in PsProfiles, v \in PsVersions \cup {"empty", "torn"} : WriteBest(p, v)
  PROVE  SwitchIsTold'
BY DEF RepoInit, CreateBranch, WriteBest, SwitchIsTold

LEMMA SwitchStep == SwitchIsTold /\ PsNext => SwitchIsTold'
<1> SUFFICES ASSUME SwitchIsTold, PsNext PROVE SwitchIsTold'
  OBVIOUS
<1>1. CASE \/ \E reaches \in BOOLEAN : RepoInit(reaches)
           \/ \E p \in PsProfiles : CreateBranch(p)
           \/ \E p \in PsProfiles, v \in PsVersions \cup {"empty", "torn"} : WriteBest(p, v)
  BY <1>1, RepositoryTellsNothing
<1>2. ASSUME NEW p \in PsProfiles, SwitchRaises(p) \/ SwitchCutOff(p)
      PROVE  SwitchIsTold'
  BY <1>2, CutOffTellsNothing
<1>3. ASSUME NEW p \in PsProfiles, NEW returns \in BOOLEAN, SwitchTo(p, returns)
      PROVE  SwitchIsTold'
  BY <1>3, SwitchToTells
<1>4. ASSUME NEW ctx \in Contexts, NEW returns \in BOOLEAN, AutoSwitch(ctx, returns)
      PROVE  SwitchIsTold'
  <2>1. SwitchTo(Decided(ctx), returns)
    BY <1>4 DEF AutoSwitch
  <2>. QED BY <2>1, SwitchToTells
<1>5. ASSUME NEW strategy \in {"manual", "score_based", "anomaly_based"},
             NEW wrongSide \in BOOLEAN, NEW returns \in BOOLEAN,
             EvaluatedSwitch(strategy, wrongSide, returns)
      PROVE  SwitchIsTold'
  <2>1. PICK p : SwitchTo(p, returns)
    BY <1>5 DEF EvaluatedSwitch
  <2>. QED BY <2>1, SwitchToTells
<1>. QED BY <1>1, <1>2, <1>3, <1>4, <1>5 DEF PsNext

\* The stream tells which gains the robot runs with, whatever checkouts, files
\* and writers have failed, unless a switch ended between its call of the writer
\* and its event (switching.py:122-135).
THEOREM SwitchTold == PsSpec => []SwitchIsTold
<1>1. PsInit => SwitchIsTold
  BY DEF PsInit, SwitchIsTold
<1>2. SwitchIsTold /\ UNCHANGED psVars => SwitchIsTold'
  BY DEF psVars, SwitchIsTold
<1>. QED BY <1>1, <1>2, SwitchStep, PTL DEF PsSpec
-----------------------------------------------------------------------------
(***************************************************************************)
(* RuntimeMonitor, for any joints, messages and events: what a context     *)
(* tells was measured or reported.                                         *)
(***************************************************************************)
\* Samples, the types of the events, and events with such values.
MonitorSamples == [ts : Int, at : Int, of : RmJoints, pos : Int, vel : Int, eff : Int]
EventTypes == TempTypes \cup {"torque_spike", "torque_critical", "tracking_error_high",
                              "comm_lost", "velocity_spike", "efficiency_low"}
EventsWith(values) == [ts : Int, joint : RmJoints, type : EventTypes, value : values,
                       source : {"rule", "reported"}]

MonitorShape ==
  /\ rmNow \in Nat /\ rmSetBack \in Nat
  /\ rmBuf \in [RmJoints -> Seq(MonitorSamples)]
  /\ \E values : rmLog \in Seq(EventsWith(values))
  /\ rmScore \in [RmJoints -> Int]

\* A sample was stamped by a wall clock that had been set back by no more
\* than it has been by now.
SamplesAreDated ==
  \A j \in RmJoints : \A i \in DOMAIN rmBuf[j] :
    /\ rmBuf[j][i].at - rmBuf[j][i].ts >= 0
    /\ rmBuf[j][i].at - rmBuf[j][i].ts <= rmSetBack

\* While the clock was never set back, the rows are in order of time.
LogInOrder ==
  rmSetBack = 0 =>
    /\ \A i \in DOMAIN rmLog : rmLog[i].ts <= rmNow
    /\ \A i, k \in DOMAIN rmLog : i < k => rmLog[i].ts <= rmLog[k].ts

TempsAreNumbers ==
  \A i \in DOMAIN rmLog : rmLog[i].type \in TempTypes => rmLog[i].value \in Nat

MonitorInv ==
  /\ MonitorShape /\ SamplesAreDated /\ LogInOrder /\ TempsAreNumbers
  /\ TempsWereReported /\ ScoreAtMostHalf
-----------------------------------------------------------------------------
(* The row the temperature is taken from                                   *)

\* A finite set has an element that no other is above.
LEMMA MaximalExists ==
  ASSUME NEW T, IsFiniteSet(T), T # {}, NEW R,
         \A i \in T : <<i, i>> \notin R,
         \A i, k, l \in T : <<i, k>> \in R /\ <<k, l>> \in R => <<i, l>> \in R
  PROVE  \E i \in T : \A k \in T : <<k, i>> \notin R
<1> DEFINE Above(i) == {k \in T : <<k, i>> \in R}
           Sets == {Above(i) : i \in T}
<1>1. Sets \subseteq SUBSET T /\ Sets # {}
  <2>1. \A i \in T : Above(i) \subseteq T
    OBVIOUS
  <2>2. PICK i : i \in T
    OBVIOUS
  <2> HIDE DEF Above
  <2>3. Sets \subseteq SUBSET T
    BY <2>1
  <2>4. Above(i) \in Sets
    BY <2>2
  <2> QED BY <2>3, <2>4
<1>2. IsWellFoundedOn(StrictSubsetOrdering(T), SUBSET T)
  BY FS_StrictSubsetOrderingWellFounded, FS_FiniteSubsetsOfFinite
<1> HIDE DEF Sets
<1>3. PICK s \in Sets : \A t \in Sets : <<t, s>> \notin StrictSubsetOrdering(T)
  BY <1>1, <1>2, WFMin
<1>4. PICK i \in T : s = Above(i)
  BY <1>3 DEF Sets
<1>5. ASSUME NEW k \in T, <<k, i>> \in R PROVE FALSE
  <2>1. Above(k) \in Sets
    BY DEF Sets
  <2>2. k \in Above(i) /\ k \notin Above(k)
    BY <1>5
  <2>3. Above(k) \subseteq Above(i)
    BY <1>5
  <2>4. <<Above(k), Above(i)>> \in StrictSubsetOrdering(T)
    <3>1. Above(k) \in SUBSET T /\ Above(i) \in SUBSET T /\ Above(k) # Above(i)
      BY <2>2
    <3> HIDE DEF Above
    <3> QED BY <2>3, <3>1 DEF StrictSubsetOrdering
  <2> QED BY <1>3, <1>4, <2>1, <2>4
<1> QED BY <1>5

\* Later orders the rows.
LEMMA LaterIsOrder ==
  ASSUME MonitorShape
  PROVE  /\ \A i \in DOMAIN rmLog : ~Later(i, i)
         /\ \A i, k, l \in DOMAIN rmLog : Later(i, k) /\ Later(k, l) => Later(i, l)
         /\ \A i, k \in DOMAIN rmLog : i # k => Later(i, k) \/ Later(k, i)
         /\ \A i, k \in DOMAIN rmLog : ~(Later(i, k) /\ Later(k, i))
<1>1. \A i \in DOMAIN rmLog : rmLog[i].ts \in Int /\ i \in Nat
  <2>1. PICK values : rmLog \in Seq(EventsWith(values))
    BY DEF MonitorShape
  <2>2. \A i \in DOMAIN rmLog : rmLog[i] \in EventsWith(values) /\ i \in Nat
    BY <2>1
  <2> QED BY <2>2 DEF EventsWith
<1> QED BY <1>1 DEF Later

LEMMA LatestExists ==
  ASSUME MonitorShape, NEW T, T \subseteq DOMAIN rmLog, T # {}
  PROVE  \E i \in T : \A k \in T \ {i} : Later(i, k)
<1> DEFINE R == {p \in T \X T : Later(p[1], p[2])}
<1>1. IsFiniteSet(T)
  <2>1. Len(rmLog) \in Nat /\ DOMAIN rmLog = 1..Len(rmLog)
    BY DEF MonitorShape
  <2>2. IsFiniteSet(1..Len(rmLog))
    BY <2>1, FS_Interval
  <2> QED BY <2>1, <2>2, FS_Subset
<1>2. \A i, k \in T : <<i, k>> \in R <=> Later(i, k)
  OBVIOUS
<1> HIDE DEF R
<1>3. \A i \in T : <<i, i>> \notin R
  BY <1>2, LaterIsOrder
<1>4. \A i, k, l \in T : <<i, k>> \in R /\ <<k, l>> \in R => <<i, l>> \in R
  <2> SUFFICES ASSUME NEW i \in T, NEW k \in T, NEW l \in T, <<i, k>> \in R, <<k, l>> \in R
               PROVE  <<i, l>> \in R
    OBVIOUS
  <2>1. Later(i, k) /\ Later(k, l)
    BY <1>2
  <2>2. Later(i, l)
    BY <2>1, LaterIsOrder
  <2> QED BY <1>2, <2>2
<1>5. \E i \in T : \A k \in T : <<k, i>> \notin R
  BY <1>1, <1>3, <1>4, MaximalExists
<1>6. PICK i \in T : \A k \in T : ~Later(k, i)
  BY <1>2, <1>5
<1> QED BY <1>6, LaterIsOrder

\* A temperature other than the default is that of a row of the joint.
LEMMA TempIsLogged ==
  ASSUME MonitorShape, TempsAreNumbers, NEW j \in RmJoints
  PROVE  LET t == ExtractTemp(Recent(j)) IN
         /\ t \in Nat
         /\ t # 25 => \E m \in DOMAIN rmLog : /\ rmLog[m].type \in TempTypes
                                              /\ rmLog[m].joint = j /\ rmLog[m].value = t
<1> DEFINE temps == OfTypes(Recent(j), TypesOfTemp)
           top == CHOOSE i \in temps : \A k \in temps \ {i} : Later(i, k)
<1>1. \A i \in temps : i \in DOMAIN rmLog /\ rmLog[i].joint = j /\ rmLog[i].type \in TempTypes
  BY DEF OfTypes, Recent, RowsOfDay, TypesOfTemp
<1>2. CASE temps = {}
  BY <1>2 DEF ExtractTemp
<1>3. CASE temps # {}
  <2>1. \E i \in temps : \A k \in temps \ {i} : Later(i, k)
    <3> HIDE DEF temps
    <3> QED BY <1>1, <1>3, LatestExists
  <2>2. top \in temps
    <3> HIDE DEF temps
    <3> QED BY <2>1
  <2>3. ExtractTemp(Recent(j)) = rmLog[top].value
    BY <1>3 DEF ExtractTemp
  <2>4. top \in DOMAIN rmLog /\ rmLog[top].joint = j /\ rmLog[top].type \in TempTypes
    <3> HIDE DEF temps, top
    <3> QED BY <1>1, <2>2
  <2> HIDE DEF top, temps
  <2>5. rmLog[top].value \in Nat
    BY <2>4 DEF TempsAreNumbers
  <2> QED BY <2>3, <2>4, <2>5
<1> QED BY <1>2, <1>3

\* The newest row of a temperature is found, if it is within the answer.
LEMMA NewestIsTaken ==
  ASSUME MonitorInv PROVE NewestTempCounts
<1> SUFFICES ASSUME rmSetBack = 0, NEW j \in RmJoints, NEW i \in DOMAIN rmLog,
                    rmLog[i].joint = j, rmLog[i].type \in TempTypes,
                    rmLog[i].ts > Wall - Day,
                    \A k \in {k \in (i + 1)..Len(rmLog) : rmLog[k].joint = j} :
                      rmLog[k].type \notin TempTypes,
                    Cardinality({k \in (i + 1)..Len(rmLog) : rmLog[k].joint = j}) < QueryLimit
             PROVE  ExtractTemp(Recent(j)) = rmLog[i].value
  BY DEF NewestTempCounts
<1> DEFINE after == {k \in (i + 1)..Len(rmLog) : rmLog[k].joint = j}
           above == {k \in RowsOfDay(j) : Later(k, i)}
           temps == OfTypes(Recent(j), TypesOfTemp)
<1>1. DOMAIN rmLog = 1..Len(rmLog) /\ Len(rmLog) \in Nat
      /\ \A k \in DOMAIN rmLog : rmLog[k].ts \in Int
  <2>1. PICK values : rmLog \in Seq(EventsWith(values))
    BY DEF MonitorInv, MonitorShape
  <2>2. \A k \in DOMAIN rmLog : rmLog[k] \in EventsWith(values)
    BY <2>1
  <2> QED BY <2>1, <2>2 DEF EventsWith
<1>2. \A m, k \in DOMAIN rmLog : m < k => rmLog[m].ts <= rmLog[k].ts
  BY DEF MonitorInv, LogInOrder
<1>3. \A m, k \in DOMAIN rmLog : Later(k, m) <=> k > m \/ (rmLog[k].ts > rmLog[m].ts)
  BY <1>1, <1>2 DEF Later
<1>4. \A k \in DOMAIN rmLog : Later(k, i) => k > i
  BY <1>1, <1>2 DEF Later
<1>5. above \subseteq after
  <2> SUFFICES ASSUME NEW k \in above PROVE k \in after
    OBVIOUS
  <2>1. k \in DOMAIN rmLog /\ rmLog[k].joint = j /\ Later(k, i)
    BY DEF RowsOfDay
  <2>2. k > i
    BY <1>4, <2>1
  <2> QED BY <1>1, <2>1, <2>2
<1>6. IsFiniteSet(after)
  <2>1. after \subseteq 1..Len(rmLog)
    BY <1>1
  <2>2. IsFiniteSet(1..Len(rmLog))
    <3>1. Len(rmLog) \in Int /\ 1 \in Int
      BY <1>1
    <3> QED BY <3>1, FS_Interval
  <2> QED BY <2>1, <2>2, FS_Subset
<1>7. Cardinality(above) < QueryLimit
  <2>1. /\ Cardinality(above) \in Nat /\ Cardinality(after) \in Nat
        /\ Cardinality(above) <= Cardinality(after)
    <3> HIDE DEF above, after
    <3> QED BY <1>5, <1>6, FS_Subset, FS_CardinalityType
  <2>2. Cardinality(after) < QueryLimit
    OBVIOUS
  <2> HIDE DEF above, after
  <2> QED BY <2>1, <2>2, RuntimeMonitorAssumption
<1>8. i \in temps
  <2>1. i \in RowsOfDay(j)
    BY DEF RowsOfDay
  <2>2. i \in Recent(j)
    BY <1>7, <2>1 DEF Recent
  <2> QED BY <2>2 DEF OfTypes, TypesOfTemp
<1>9. \A k \in temps : k \in DOMAIN rmLog /\ rmLog[k].joint = j /\ rmLog[k].type \in TempTypes
  BY DEF OfTypes, Recent, RowsOfDay, TypesOfTemp
<1>10. \A k \in temps \ {i} : Later(i, k)
  <2> SUFFICES ASSUME NEW k \in temps, k # i PROVE Later(i, k)
    OBVIOUS
  <2>1. k \in DOMAIN rmLog /\ rmLog[k].joint = j /\ rmLog[k].type \in TempTypes
    BY <1>9
  <2>2. ~(k > i)
    <3> SUFFICES ASSUME k > i PROVE FALSE
      OBVIOUS
    <3>1. k \in after
      BY <1>1, <2>1
    <3> QED BY <2>1, <3>1
  <2>3. i > k
    BY <1>1, <2>1, <2>2
  <2> QED BY <1>1, <1>3, <2>1, <2>3
<1> DEFINE top == CHOOSE m \in temps : \A k \in temps \ {m} : Later(m, k)
<1> HIDE DEF temps
<1>11. top \in temps /\ \A k \in temps \ {top} : Later(top, k)
  BY <1>8, <1>10
<1>12. top = i
  <2> HIDE DEF top
  <2> QED BY <1>8, <1>9, <1>10, <1>11, LaterIsOrder DEF MonitorInv
<1>13. ExtractTemp(Recent(j)) = rmLog[top].value
  BY <1>8 DEF ExtractTemp, temps
<1> QED BY <1>12, <1>13
-----------------------------------------------------------------------------
(* The events of the rules                                                 *)

\* What the rules may derive from a context of joint j: temperature events
\* only for a temperature above the lower threshold.
RuleEvents(j, c) ==
  {e \in {EventOf(j, "joint_temp_warning", c.temp), EventOf(j, "joint_temp_critical", c.temp),
          EventOf(j, "torque_spike", c.torque), EventOf(j, "torque_critical", c.torque),
          EventOf(j, "tracking_error_high", c.tracking), EventOf(j, "comm_lost", c.commLost),
          EventOf(j, "velocity_spike", c.velocity), EventOf(j, "efficiency_low", c.efficiency)} :
     e.type \in TempTypes => c.temp > 50}

LEMMA FiredIn ==
  ASSUME NEW S, NEW cond, NEW e, cond => e \in S
  PROVE  Fired(cond, e) \in Seq(S)
BY DEF Fired

LEMMA RulesDerive ==
  ASSUME NEW j, NEW c, c.temp \in Int
  PROVE  /\ EventsOf(j, c) \in Seq(RuleEvents(j, c))
         /\ \A e \in RuleEvents(j, c) :
              /\ e.ts = Wall /\ e.joint = j /\ e.source = "rule" /\ e.type \in EventTypes
              /\ e \in [ts : {Wall}, joint : {j}, type : EventTypes, source : {"rule"},
                        value : {c.temp, c.torque, c.tracking, c.commLost, c.velocity,
                                 c.efficiency}]
              /\ e.type \in TempTypes => e.value = c.temp /\ c.temp > 50
<1> DEFINE S == RuleEvents(j, c)
<1>1. /\ c.temp > 50 => EventOf(j, "joint_temp_warning", c.temp) \in S
      /\ c.temp > 70 => EventOf(j, "joint_temp_critical", c.temp) \in S
      /\ EventOf(j, "torque_spike", c.torque) \in S
      /\ EventOf(j, "torque_critical", c.torque) \in S
      /\ EventOf(j, "tracking_error_high", c.tracking) \in S
      /\ EventOf(j, "comm_lost", c.commLost) \in S
      /\ EventOf(j, "velocity_spike", c.velocity) \in S
      /\ EventOf(j, "efficiency_low", c.efficiency) \in S
  <2>1. c.temp > 70 => c.temp > 50
    OBVIOUS
  <2>2. \A t, v : EventOf(j, t, v).type = t
    BY DEF EventOf
  <2> QED BY <2>1, <2>2 DEF RuleEvents, TempTypes
<1> HIDE DEF S
<1>2. /\ Fired(c.temp > 50, EventOf(j, "joint_temp_warning", c.temp)) \in Seq(S)
      /\ Fired(c.temp > 70, EventOf(j, "joint_temp_critical", c.temp)) \in Seq(S)
      /\ Fired(AbsOf(c.torque) > 40, EventOf(j, "torque_spike", c.torque)) \in Seq(S)
      /\ Fired(AbsOf(c.torque) > 60, EventOf(j, "torque_critical", c.torque)) \in Seq(S)
      /\ Fired(c.tracking > 5, EventOf(j, "tracking_error_high", c.tracking)) \in Seq(S)
      /\ Fired(c.commLost > 0, EventOf(j, "comm_lost", c.commLost)) \in Seq(S)
      /\ Fired(AbsOf(c.velocity) > 15, EventOf(j, "velocity_spike", c.velocity)) \in Seq(S)
      /\ Fired(c.efficiency < 5, EventOf(j, "efficiency_low", c.efficiency)) \in Seq(S)
  BY <1>1, FiredIn
<1>3. EventsOf(j, c) \in Seq(S)
  <2> DEFINE f1 == Fired(c.temp > 50, EventOf(j, "joint_temp_warning", c.temp))
             f2 == Fired(c.temp > 70, EventOf(j, "joint_temp_critical", c.temp))
             f3 == Fired(AbsOf(c.torque) > 40, EventOf(j, "torque_spike", c.torque))
             f4 == Fired(AbsOf(c.torque) > 60, EventOf(j, "torque_critical", c.torque))
             f5 == Fired(c.tracking > 5, EventOf(j, "tracking_error_high", c.tracking))
             f6 == Fired(c.commLost > 0, EventOf(j, "comm_lost", c.commLost))
             f7 == Fired(AbsOf(c.velocity) > 15, EventOf(j, "velocity_spike", c.velocity))
             f8 == Fired(c.efficiency < 5, EventOf(j, "efficiency_low", c.efficiency))
  <2>1. \A a, b \in Seq(S) : a \o b \in Seq(S)
    BY ConcatProperties
  <2>2. EventsOf(j, c) = f1 \o f2 \o f3 \o f4 \o f5 \o f6 \o f7 \o f8
    BY DEF EventsOf
  <2>3. /\ f1 \in Seq(S) /\ f2 \in Seq(S) /\ f3 \in Seq(S) /\ f4 \in Seq(S)
        /\ f5 \in Seq(S) /\ f6 \in Seq(S) /\ f7 \in Seq(S) /\ f8 \in Seq(S)
    BY <1>2, Zenon
  <2> HIDE DEF f1, f2, f3, f4, f5, f6, f7, f8
  <2>4. f1 \o f2 \o f3 \o f4 \in Seq(S)
    BY <2>1, <2>3
  <2>5. f1 \o f2 \o f3 \o f4 \o f5 \o f6 \in Seq(S)
    BY <2>1, <2>3, <2>4
  <2> QED BY <2>1, <2>2, <2>3, <2>5
<1>4. ASSUME NEW e \in RuleEvents(j, c)
      PROVE  /\ e.ts = Wall /\ e.joint = j /\ e.source = "rule" /\ e.type \in EventTypes
             /\ e \in [ts : {Wall}, joint : {j}, type : EventTypes, source : {"rule"},
                       value : {c.temp, c.torque, c.tracking, c.commLost, c.velocity,
                                c.efficiency}]
             /\ e.type \in TempTypes => e.value = c.temp /\ c.temp > 50
  <2>1. \/ /\ e \in {EventOf(j, "joint_temp_warning", c.temp),
                    EventOf(j, "joint_temp_critical", c.temp)}
           /\ c.temp > 50
        \/ e \in {EventOf(j, "torque_spike", c.torque), EventOf(j, "torque_critical", c.torque),
                 EventOf(j, "tracking_error_high", c.tracking),
                 EventOf(j, "comm_lost", c.commLost),
                 EventOf(j, "velocity_spike", c.velocity),
                 EventOf(j, "efficiency_low", c.efficiency)}
    <3>1. \A v : EventOf(j, "joint_temp_warning", v).type \in TempTypes
               /\ EventOf(j, "joint_temp_critical", v).type \in TempTypes
      BY DEF EventOf, TempTypes
    <3> QED BY <3>1, Zenon DEF RuleEvents
  <2>2. PICK t \in EventTypes, v \in {c.temp, c.torque, c.tracking, c.commLost, c.velocity,
                                  c.efficiency} :
          /\ e = EventOf(j, t, v)
          /\ t \in TempTypes => v = c.temp /\ c.temp > 50
    <3> DEFINE values == {c.temp, c.torque, c.tracking, c.commLost, c.velocity, c.efficiency}
               P(t, v) == e = EventOf(j, t, v) /\ (t \in TempTypes => v = c.temp /\ c.temp > 50)
    <3> SUFFICES \E u \in EventTypes, w \in values : P(u, w)
      OBVIOUS
    <3>1. ASSUME NEW t \in EventTypes, NEW v \in values, P(t, v)
          PROVE  \E u \in EventTypes, w \in values : P(u, w)
      <4> HIDE DEF values, P, EventTypes
      <4> QED BY <3>1
    <3>2. /\ \A t \in TempTypes : t \in EventTypes
          /\ \A t \in {"torque_spike", "torque_critical", "tracking_error_high",
                     "comm_lost", "velocity_spike", "efficiency_low"} :
               t \in EventTypes /\ t \notin TempTypes
      BY DEF TempTypes, EventTypes
    <3>3. /\ c.temp \in values /\ c.torque \in values /\ c.tracking \in values
          /\ c.commLost \in values /\ c.velocity \in values /\ c.efficiency \in values
      OBVIOUS
    <3> HIDE DEF values
    <3>4. CASE e = EventOf(j, "joint_temp_warning", c.temp) /\ c.temp > 50
      <4>1. P("joint_temp_warning", c.temp) /\ "joint_temp_warning" \in EventTypes
        BY <3>4 DEF TempTypes, EventTypes
      <4> QED BY <3>1, <3>3, <4>1
    <3>5. CASE e = EventOf(j, "joint_temp_critical", c.temp) /\ c.temp > 50
      <4>1. P("joint_temp_critical", c.temp) /\ "joint_temp_critical" \in EventTypes
        BY <3>5 DEF TempTypes, EventTypes
      <4> QED BY <3>1, <3>3, <4>1
    <3>6. ASSUME NEW t \in {"torque_spike", "torque_critical", "tracking_error_high",
                            "comm_lost", "velocity_spike", "efficiency_low"},
                 NEW v \in values, e = EventOf(j, t, v)
          PROVE  \E u \in EventTypes, w \in values : P(u, w)
      <4>1. t \in EventTypes /\ P(t, v)
        BY <3>2, <3>6
      <4> QED BY <3>1, <4>1
    <3> HIDE DEF P
    <3>7. CASE e = EventOf(j, "torque_spike", c.torque)
               \/ e = EventOf(j, "torque_critical", c.torque)
      BY <3>3, <3>6, <3>7
    <3>8. CASE e = EventOf(j, "tracking_error_high", c.tracking)
               \/ e = EventOf(j, "comm_lost", c.commLost)
      BY <3>3, <3>6, <3>8
    <3>9. CASE e = EventOf(j, "velocity_spike", c.velocity)
               \/ e = EventOf(j, "efficiency_low", c.efficiency)
      BY <3>3, <3>6, <3>9
    <3> QED BY <2>1, <3>4, <3>5, <3>7, <3>8, <3>9
  <2> QED BY <2>2 DEF EventOf
<1> QED BY <1>3, <1>4 DEF S
-----------------------------------------------------------------------------
(* The log                                                                 *)

\* An event that may be logged: stamped now, and a temperature is a number
\* that is reported or comes from the log.
Sound(e) ==
  /\ e.ts = Wall
  /\ e.type \in TempTypes =>
       /\ e.value \in Nat
       /\ \/ e.source = "reported"
          \/ \E m \in DOMAIN rmLog : /\ rmLog[m].type \in TempTypes
                                     /\ rmLog[m].joint = e.joint /\ rmLog[m].value = e.value

LEMMA LogGrows ==
  ASSUME MonitorInv, NEW values, NEW new \in Seq(EventsWith(values)),
         \A k \in DOMAIN new : Sound(new[k]),
         rmLog' = rmLog \o new, UNCHANGED <<rmNow, rmSetBack>>
  PROVE  /\ \E vs : rmLog' \in Seq(EventsWith(vs))
         /\ (LogInOrder /\ TempsAreNumbers /\ TempsWereReported)'
<1> DEFINE n == Len(rmLog)
<1>1. PICK old : rmLog \in Seq(EventsWith(old))
  BY DEF MonitorInv, MonitorShape
<1> DEFINE E == EventsWith(old \cup values)
<1>2. rmLog \in Seq(E) /\ new \in Seq(E)
  <2>1. EventsWith(old) \subseteq E /\ EventsWith(values) \subseteq E
    BY DEF EventsWith
  <2> HIDE DEF E
  <2> QED BY <1>1, <2>1
<1>3. \A e \in E : e.ts \in Int
  BY DEF EventsWith
<1>4. \E vs : E = EventsWith(vs)
  OBVIOUS
<1> HIDE DEF E
<1>5. /\ rmLog' \in Seq(E) /\ Len(rmLog') = n + Len(new)
      /\ \A i \in 1..(n + Len(new)) : rmLog'[i] = IF i <= n THEN rmLog[i] ELSE new[i - n]
  BY <1>2, ConcatProperties
<1>6. /\ n \in Nat /\ Len(new) \in Nat /\ DOMAIN rmLog = 1..n /\ DOMAIN new = 1..Len(new)
      /\ DOMAIN rmLog' = 1..(n + Len(new))
  BY <1>2, <1>5
<1> HIDE DEF n
<1>7. \A i \in DOMAIN rmLog : i \in DOMAIN rmLog' /\ rmLog'[i] = rmLog[i]
  BY <1>5, <1>6
<1>8. \A i \in DOMAIN rmLog' : i \in DOMAIN rmLog \/ (i > n /\ Sound(rmLog'[i]))
  <2> SUFFICES ASSUME NEW i \in DOMAIN rmLog', i \notin DOMAIN rmLog
               PROVE  i > n /\ Sound(rmLog'[i])
    OBVIOUS
  <2>1. i > n /\ i - n \in DOMAIN new /\ rmLog'[i] = new[i - n]
    BY <1>5, <1>6
  <2> QED BY <2>1
<1>9. \A i \in DOMAIN rmLog' : rmLog'[i].ts \in Int
  BY <1>3, <1>5
<1>10. TempsAreNumbers'
  BY <1>7, <1>8 DEF MonitorInv, TempsAreNumbers, Sound
<1>11. LogInOrder'
  <2> SUFFICES ASSUME rmSetBack = 0
               PROVE  /\ \A i \in DOMAIN rmLog' : rmLog'[i].ts <= rmNow
                      /\ \A i, k \in DOMAIN rmLog' : i < k => rmLog'[i].ts <= rmLog'[k].ts
    BY DEF LogInOrder
  <2>1. Wall = rmNow /\ rmNow \in Nat
    BY DEF Wall, MonitorInv, MonitorShape
  <2>2. \A i \in DOMAIN rmLog : rmLog[i].ts <= rmNow
    BY DEF MonitorInv, LogInOrder
  <2>3. \A i, k \in DOMAIN rmLog : i < k => rmLog[i].ts <= rmLog[k].ts
    BY DEF MonitorInv, LogInOrder
  <2>4. \A i \in DOMAIN rmLog' : i \in DOMAIN rmLog \/ (i > n /\ rmLog'[i].ts = rmNow)
    BY <1>8, <2>1 DEF Sound
  <2>5. \A i \in DOMAIN rmLog' : rmLog'[i].ts <= rmNow
    BY <1>7, <2>1, <2>2, <2>4
  <2>6. ASSUME NEW i \in DOMAIN rmLog', NEW k \in DOMAIN rmLog', i < k
        PROVE  rmLog'[i].ts <= rmLog'[k].ts
    <3>1. CASE k \in DOMAIN rmLog
      <4>1. i \in DOMAIN rmLog
        BY <1>6, <2>6, <3>1
      <4> QED BY <1>7, <2>3, <2>6, <3>1, <4>1
    <3>2. CASE k \notin DOMAIN rmLog
      BY <2>4, <2>5, <3>2
    <3> QED BY <3>1, <3>2
  <2> QED BY <2>5, <2>6
<1>12. TempsWereReported'
  <2> SUFFICES ASSUME NEW i \in DOMAIN rmLog', rmLog'[i].type \in TempTypes
               PROVE  \E k \in 1..i :
                        /\ rmLog'[k].source = "reported" /\ rmLog'[k].type \in TempTypes
                        /\ rmLog'[k].joint = rmLog'[i].joint /\ rmLog'[k].value = rmLog'[i].value
    BY DEF TempsWereReported
  <2>1. ASSUME NEW m \in DOMAIN rmLog, rmLog[m].type \in TempTypes
        PROVE  \E k \in 1..m :
                 /\ rmLog'[k].source = "reported" /\ rmLog'[k].type \in TempTypes
                 /\ rmLog'[k].joint = rmLog[m].joint /\ rmLog'[k].value = rmLog[m].value
    <3>1. PICK k \in 1..m : /\ rmLog[k].source = "reported" /\ rmLog[k].type \in TempTypes
                            /\ rmLog[k].joint = rmLog[m].joint /\ rmLog[k].value = rmLog[m].value
      BY <2>1 DEF MonitorInv, TempsWereReported
    <3>2. k \in DOMAIN rmLog
      BY <1>6
    <3> QED BY <1>7, <3>1, <3>2
  <2>2. CASE i \in DOMAIN rmLog
    BY <1>7, <2>1, <2>2
  <2>3. CASE i \notin DOMAIN rmLog
    <3>1. i > n /\ Sound(rmLog'[i]) /\ i \in Nat
      BY <1>6, <1>8, <2>3
    <3>2. CASE rmLog'[i].source = "reported"
      <4>1. i \in 1..i
        BY <1>6, <3>1
      <4> QED BY <3>2, <4>1
    <3>3. CASE rmLog'[i].source # "reported"
      <4>1. PICK m \in DOMAIN rmLog : /\ rmLog[m].type \in TempTypes
                                      /\ rmLog[m].joint = rmLog'[i].joint
                                      /\ rmLog[m].value = rmLog'[i].value
        BY <3>1, <3>3 DEF Sound
      <4>2. \A k \in 1..m : k \in 1..i
        BY <1>6, <3>1
      <4> QED BY <2>1, <4>1, <4>2, ZenonT(30)
    <3> QED BY <3>2, <3>3
  <2> QED BY <2>2, <2>3
<1> QED BY <1>4, <1>5, <1>10, <1>11, <1>12
-----------------------------------------------------------------------------
(* The steps                                                               *)

LEMMA MonitorStarts == RmInit => MonitorInv
<1> SUFFICES ASSUME RmInit PROVE MonitorInv
  OBVIOUS
<1>1. \A j \in RmJoints : rmBuf[j] = <<>> /\ rmScore[j] = 0
  BY DEF RmInit
<1>2. rmLog \in Seq(EventsWith({}))
  BY DEF RmInit
<1>3. MonitorShape
  BY <1>2 DEF RmInit, MonitorShape
<1> QED BY <1>1, <1>3 DEF RmInit, MonitorInv, SamplesAreDated, LogInOrder, TempsAreNumbers,
                          TempsWereReported, ScoreAtMostHalf

\* A message: the sample of each joint that has one is measured and dated.
LEMMA MessageKeeps ==
  ASSUME MonitorInv, NEW r \in Readings, NEW lost \in 0..NJoints, JointStates(r, lost)
  PROVE  MonitorInv'
<1> DEFINE new(i) == [ts |-> Wall, at |-> rmNow, of |-> EntryOwner(i, lost),
                      pos |-> r.pos, vel |-> r.vel, eff |-> r.eff]
<1>1. NJoints \in Nat \ {0} /\ Capacity \in Nat \ {0}
  BY RuntimeMonitorAssumption
<1>2. rmNow \in Nat /\ rmSetBack \in Nat /\ Wall = rmNow - rmSetBack
      /\ rmBuf \in [RmJoints -> Seq(MonitorSamples)]
  BY DEF MonitorInv, MonitorShape, Wall
<1>3. ASSUME NEW i \in RmJoints
      PROVE  /\ rmBuf'[i] \in Seq(MonitorSamples)
             /\ \A k \in DOMAIN rmBuf'[i] : /\ rmBuf'[i][k].at - rmBuf'[i][k].ts >= 0
                                            /\ rmBuf'[i][k].at - rmBuf'[i][k].ts <= rmSetBack
  <2>1. rmBuf[i] \in Seq(MonitorSamples)
        /\ \A k \in DOMAIN rmBuf[i] : /\ rmBuf[i][k].at - rmBuf[i][k].ts >= 0
                                      /\ rmBuf[i][k].at - rmBuf[i][k].ts <= rmSetBack
    BY <1>2 DEF MonitorInv, SamplesAreDated
  <2>2. CASE Skipped(i, lost)
    <3>1. rmBuf'[i] = rmBuf[i]
      BY <2>2 DEF JointStates
    <3> QED BY <2>1, <3>1
  <2>3. CASE ~Skipped(i, lost)
    <3>1. EntryOwner(i, lost) \in RmJoints
      BY <1>1, <2>3 DEF Skipped, EntryOwner, Entries, RmJoints
    <3>2. r.pos \in Int /\ r.vel \in Int /\ r.eff \in Int
      BY DEF Readings
    <3>3. new(i) \in MonitorSamples /\ new(i).at - new(i).ts = rmSetBack
      BY <1>2, <3>1, <3>2 DEF MonitorSamples
    <3> HIDE DEF new
    <3>4. PICK s : s = Append(rmBuf[i], new(i))
      OBVIOUS
    <3>5. /\ s \in Seq(MonitorSamples) /\ Len(s) = Len(rmBuf[i]) + 1
          /\ \A k \in 1..Len(rmBuf[i]) : s[k] = rmBuf[i][k]
          /\ s[Len(rmBuf[i]) + 1] = new(i)
      BY <2>1, <3>3, <3>4, AppendProperties
    <3>6. \A k \in DOMAIN s : s[k].at - s[k].ts >= 0 /\ s[k].at - s[k].ts <= rmSetBack
      <4> SUFFICES ASSUME NEW k \in DOMAIN s
                   PROVE  s[k].at - s[k].ts >= 0 /\ s[k].at - s[k].ts <= rmSetBack
        OBVIOUS
      <4>1. CASE k \in 1..Len(rmBuf[i])
        <5>1. k \in DOMAIN rmBuf[i] /\ s[k] = rmBuf[i][k]
          BY <2>1, <3>5, <4>1
        <5> QED BY <2>1, <5>1
      <4>2. CASE k = Len(rmBuf[i]) + 1
        <5>1. s[k] = new(i)
          BY <3>5, <4>2
        <5> QED BY <1>2, <3>3, <5>1
      <4> QED BY <2>1, <3>5, <4>1, <4>2
    <3>7. rmBuf'[i] = Keep(s)
      BY <2>3, <3>4 DEF JointStates, new
    <3>8. CASE Len(s) > Capacity
      <4>1. Keep(s) = Tail(s)
        BY <3>8 DEF Keep
      <4>2. /\ Tail(s) \in Seq(MonitorSamples)
            /\ \A k \in DOMAIN Tail(s) : k + 1 \in DOMAIN s /\ Tail(s)[k] = s[k + 1]
        BY <2>1, <3>5
      <4> QED BY <3>6, <3>7, <4>1, <4>2
    <3>9. CASE ~(Len(s) > Capacity)
      <4>1. Keep(s) = s
        BY <3>9 DEF Keep
      <4> QED BY <3>5, <3>6, <3>7, <4>1
    <3> QED BY <3>8, <3>9
  <2> QED BY <2>2, <2>3
<1>4. rmBuf' \in [RmJoints -> Seq(MonitorSamples)]
  BY <1>3 DEF JointStates
<1>5. UNCHANGED <<rmNow, rmSetBack, rmLog, rmScore>>
  BY DEF JointStates
<1> HIDE DEF new
<1>6. MonitorShape'
  BY <1>4, <1>5 DEF MonitorInv, MonitorShape
<1>7. SamplesAreDated'
  BY <1>3, <1>5 DEF SamplesAreDated
<1>8. (LogInOrder /\ TempsAreNumbers /\ TempsWereReported /\ ScoreAtMostHalf)'
  BY <1>5 DEF MonitorInv, LogInOrder, TempsAreNumbers, TempsWereReported, ScoreAtMostHalf
<1> QED BY <1>6, <1>7, <1>8 DEF MonitorInv

\* A step that adds sound events to the log and may set a score.
LEMMA LoggingKeeps ==
  ASSUME MonitorInv, NEW values, NEW new \in Seq(EventsWith(values)),
         \A k \in DOMAIN new : Sound(new[k]),
         rmLog' = rmLog \o new, UNCHANGED <<rmNow, rmSetBack, rmBuf>>,
         rmScore' \in [RmJoints -> Int], \A j \in RmJoints : rmScore'[j] <= 21000
  PROVE  MonitorInv'
<1>1. (\E vs : rmLog' \in Seq(EventsWith(vs)))
      /\ (LogInOrder /\ TempsAreNumbers /\ TempsWereReported)'
  BY LogGrows
<1>2. MonitorShape'
  BY <1>1 DEF MonitorInv, MonitorShape
<1>3. SamplesAreDated' /\ ScoreAtMostHalf'
  BY DEF MonitorInv, SamplesAreDated, ScoreAtMostHalf
<1> QED BY <1>1, <1>2, <1>3 DEF MonitorInv

LEMMA ReportKeeps ==
  ASSUME MonitorInv, NEW j \in RmJoints, NEW type \in EventTypes, NEW v \in Nat,
         Report([EventOf(j, type, v) EXCEPT !.source = "reported"])
  PROVE  MonitorInv'
<1> DEFINE e == [EventOf(j, type, v) EXCEPT !.source = "reported"]
           new == <<e>>
<1>1. Wall \in Int
  BY DEF Wall, MonitorInv, MonitorShape
<1>2. e \in EventsWith(Nat) /\ e.source = "reported" /\ e.ts = Wall /\ e.value \in Nat
  BY <1>1 DEF EventsWith, EventOf
<1>3. rmLog' = Append(rmLog, e) /\ UNCHANGED <<rmNow, rmSetBack, rmBuf, rmScore>>
  BY DEF Report
<1> HIDE DEF e
<1>4. Sound(e)
  BY <1>2 DEF Sound
<1>5. new \in Seq(EventsWith(Nat)) /\ \A k \in DOMAIN new : Sound(new[k])
  BY <1>2, <1>4
<1>6. rmLog' = rmLog \o new
  <2>1. PICK vs : rmLog \in Seq(EventsWith(vs))
    BY DEF MonitorInv, MonitorShape
  <2>2. EventsWith(vs) \subseteq EventsWith(vs \cup Nat)
        /\ EventsWith(Nat) \subseteq EventsWith(vs \cup Nat)
    BY DEF EventsWith
  <2>3. rmLog \in Seq(EventsWith(vs \cup Nat)) /\ e \in EventsWith(vs \cup Nat)
    <3>1. rmLog \in Seq(EventsWith(vs \cup Nat))
      BY <2>1, <2>2, SeqMonotonic
    <3> QED BY <1>2, <2>2, <3>1
  <2> QED BY <1>3, <2>3, AppendIsConcat
<1> HIDE DEF new
<1>7. rmScore' \in [RmJoints -> Int] /\ \A i \in RmJoints : rmScore'[i] <= 21000
  BY <1>3 DEF MonitorInv, MonitorShape, ScoreAtMostHalf
<1> QED BY <1>3, <1>5, <1>6, <1>7, LoggingKeeps

\* What is scored is below one half.
LEMMA HalfScore ==
  ASSUME NEW c, NEW n \in Nat, c.temp \in Nat, c.torque \in Int,
         c.tracking = 0, c.efficiency = 10, c.commLost = 0
  PROVE  Score(c, n) \in Int /\ Score(c, n) <= 21000
<1>1. AbsOf(c.torque) \in Nat
  BY DEF AbsOf
<1>2. /\ Lesser(6 * c.temp, 420) \in Int /\ Lesser(6 * c.temp, 420) <= 420
      /\ Lesser(7 * AbsOf(c.torque), 420) \in Int /\ Lesser(7 * AbsOf(c.torque), 420) <= 420
      /\ Lesser(21 * n, 420) \in Int /\ Lesser(21 * n, 420) <= 420
  BY <1>1 DEF Lesser
<1>3. /\ Lesser(42 * c.tracking, 420) = 0 /\ Lesser(84 * c.commLost, 420) = 0
      /\ Lesser(10, c.efficiency) = 10
  BY DEF Lesser
<1> QED BY <1>2, <1>3 DEF Score

LEMMA EvaluateKeeps ==
  ASSUME MonitorInv, NEW j \in RmJoints, Evaluate(j)
  PROVE  MonitorInv'
<1> DEFINE c == ContextOf(j)
           new == EventsOf(j, c)
           values == {c.temp, c.torque, c.tracking, c.commLost, c.velocity, c.efficiency}
<1>1. c.temp = ExtractTemp(Recent(j)) /\ c.torque \in Int
  <2>1. rmBuf[j] # <<>> => Latest(j) \in MonitorSamples
    <3>1. rmBuf[j] \in Seq(MonitorSamples)
      BY DEF MonitorInv, MonitorShape
    <3>2. rmBuf[j] # <<>> => Len(rmBuf[j]) \in DOMAIN rmBuf[j]
      BY <3>1
    <3> QED BY <3>1, <3>2 DEF Latest
  <2> QED BY <2>1 DEF ContextOf, MonitorSamples
<1>2. /\ c.temp \in Nat
      /\ c.temp # 25 => \E m \in DOMAIN rmLog : /\ rmLog[m].type \in TempTypes
                                                /\ rmLog[m].joint = j /\ rmLog[m].value = c.temp
  BY <1>1, TempIsLogged DEF MonitorInv
<1>3. /\ rmScore' = [rmScore EXCEPT ![j] = Score(Scored(c), Cardinality(Recent(j)))]
      /\ rmLog' = rmLog \o new
      /\ UNCHANGED <<rmNow, rmSetBack, rmBuf, rmCtxFile, rmBest>>
  BY DEF Evaluate
<1>4. c = [temp |-> c.temp, torque |-> c.torque, velocity |-> c.velocity,
           tracking |-> c.tracking, efficiency |-> c.efficiency, commLost |-> c.commLost]
  BY DEF ContextOf
<1> HIDE DEF c
<1>5. /\ new \in Seq(RuleEvents(j, c))
      /\ \A e \in RuleEvents(j, c) :
           /\ e.ts = Wall /\ e.joint = j
           /\ e \in [ts : {Wall}, joint : {j}, type : EventTypes, source : {"rule"}, value : values]
           /\ e.type \in TempTypes => e.value = c.temp /\ c.temp > 50
  <2>1. c.temp \in Int
    BY <1>2
  <2> QED BY <2>1, RulesDerive
<1> HIDE DEF new, values
<1>6. Wall \in Int
  BY DEF Wall, MonitorInv, MonitorShape
<1>7. RuleEvents(j, c) \subseteq EventsWith(values)
  <2>1. [ts : {Wall}, joint : {j}, type : EventTypes, source : {"rule"}, value : values]
          \subseteq EventsWith(values)
    BY <1>6 DEF EventsWith
  <2> QED BY <1>5, <2>1
<1>8. \A e \in RuleEvents(j, c) : Sound(e)
  BY <1>2, <1>5 DEF Sound
<1>9. new \in Seq(EventsWith(values)) /\ \A k \in DOMAIN new : Sound(new[k])
  <2>1. \A k \in DOMAIN new : new[k] \in RuleEvents(j, c)
    BY <1>5
  <2> QED BY <1>5, <1>7, <1>8, <2>1
<1>10. Score(Scored(c), Cardinality(Recent(j))) \in Int
       /\ Score(Scored(c), Cardinality(Recent(j))) <= 21000
  <2>1. /\ Scored(c).temp = c.temp /\ Scored(c).torque = c.torque /\ Scored(c).tracking = 0
        /\ Scored(c).efficiency = 10 /\ Scored(c).commLost = 0
    BY <1>4 DEF Scored
  <2>2. Cardinality(Recent(j)) \in Nat
    <3>1. DOMAIN rmLog = 1..Len(rmLog) /\ Len(rmLog) \in Nat
      BY DEF MonitorInv, MonitorShape
    <3>2. Recent(j) \subseteq 1..Len(rmLog)
      BY <3>1 DEF Recent, RowsOfDay
    <3>3. IsFiniteSet(1..Len(rmLog))
      BY <3>1, FS_Interval
    <3>4. IsFiniteSet(Recent(j))
      BY <3>2, <3>3, FS_Subset
    <3> QED BY <3>4, FS_CardinalityType
  <2>3. PICK d, n : d = Scored(c) /\ n = Cardinality(Recent(j))
    OBVIOUS
  <2>4. /\ n \in Nat /\ d.temp \in Nat /\ d.torque \in Int /\ d.tracking = 0
        /\ d.efficiency = 10 /\ d.commLost = 0
    BY <1>1, <1>2, <2>1, <2>2, <2>3
  <2>5. Score(d, n) \in Int /\ Score(d, n) <= 21000
    BY <2>4, HalfScore
  <2>6. Score(d, n) = Score(Scored(c), Cardinality(Recent(j)))
    BY <2>3, Zenon
  <2> QED BY <2>5, <2>6
<1>11. rmScore' \in [RmJoints -> Int] /\ \A i \in RmJoints : rmScore'[i] <= 21000
  BY <1>3, <1>10 DEF MonitorInv, MonitorShape, ScoreAtMostHalf
<1> QED BY <1>3, <1>9, <1>11, LoggingKeeps

\* The other steps.
LEMMA QuietMonitor ==
  ASSUME MonitorInv, UNCHANGED rmLog,
         rmNow' \in {rmNow, rmNow + 1}, rmSetBack' \in {rmSetBack, rmSetBack + 1},
         \/ UNCHANGED <<rmBuf, rmScore>>
         \/ /\ rmBuf' = [j \in RmJoints |-> <<>>] /\ rmScore' = [j \in RmJoints |-> 0]
  PROVE  MonitorInv'
<1>1. /\ rmNow \in Nat /\ rmSetBack \in Nat /\ rmNow' \in Nat /\ rmSetBack' \in Nat
      /\ rmNow <= rmNow' /\ rmSetBack <= rmSetBack'
      /\ rmSetBack' = 0 => rmSetBack = 0
  BY DEF MonitorInv, MonitorShape
<1>2. PICK values : rmLog \in Seq(EventsWith(values))
  BY DEF MonitorInv, MonitorShape
<1>3. \A i \in DOMAIN rmLog : rmLog[i].ts \in Int
  <2>1. \A i \in DOMAIN rmLog : rmLog[i] \in EventsWith(values)
    BY <1>2
  <2> QED BY <2>1 DEF EventsWith
<1>4. rmBuf' \in [RmJoints -> Seq(MonitorSamples)] /\ rmScore' \in [RmJoints -> Int]
  <2>1. CASE UNCHANGED <<rmBuf, rmScore>>
    BY <2>1 DEF MonitorInv, MonitorShape
  <2>2. CASE /\ rmBuf' = [j \in RmJoints |-> <<>>] /\ rmScore' = [j \in RmJoints |-> 0]
    <3>1. <<>> \in Seq(MonitorSamples)
      OBVIOUS
    <3> QED BY <2>2, <3>1
  <2> QED BY <2>1, <2>2
<1>5. MonitorShape'
  BY <1>1, <1>2, <1>4 DEF MonitorShape
<1>6. ASSUME NEW j \in RmJoints, NEW i \in DOMAIN rmBuf'[j]
      PROVE  /\ rmBuf'[j][i].at - rmBuf'[j][i].ts >= 0
             /\ rmBuf'[j][i].at - rmBuf'[j][i].ts <= rmSetBack'
  <2>1. rmBuf'[j] = rmBuf[j]
    <3>1. CASE UNCHANGED <<rmBuf, rmScore>>
      BY <3>1
    <3>2. CASE rmBuf' = [k \in RmJoints |-> <<>>]
      BY <1>6, <3>2
    <3> QED BY <3>1, <3>2
  <2>2. rmBuf[j][i] \in MonitorSamples
    BY <1>6, <2>1 DEF MonitorInv, MonitorShape
  <2>3. /\ rmBuf[j][i].at - rmBuf[j][i].ts >= 0
        /\ rmBuf[j][i].at - rmBuf[j][i].ts <= rmSetBack
    BY <1>6, <2>1 DEF MonitorInv, SamplesAreDated
  <2>4. rmBuf[j][i].at \in Int /\ rmBuf[j][i].ts \in Int
    BY <2>2 DEF MonitorSamples
  <2> QED BY <1>1, <2>1, <2>3, <2>4
<1>7. SamplesAreDated'
  BY <1>6 DEF SamplesAreDated
<1>8. LogInOrder'
  BY <1>1, <1>3 DEF MonitorInv, LogInOrder
<1>9. TempsAreNumbers' /\ TempsWereReported'
  BY DEF MonitorInv, TempsAreNumbers, TempsWereReported
<1>10. ScoreAtMostHalf'
  BY DEF MonitorInv, ScoreAtMostHalf
<1> QED BY <1>5, <1>7, <1>8, <1>9, <1>10 DEF MonitorInv

LEMMA MonitorStep == MonitorInv /\ [RmNext]_rmVars => MonitorInv'
<1> SUFFICES ASSUME MonitorInv, [RmNext]_rmVars PROVE MonitorInv'
  OBVIOUS
<1>1. ASSUME NEW r \in Readings, NEW lost \in 0..NJoints, JointStates(r, lost)
      PROVE  MonitorInv'
  BY <1>1, MessageKeeps
<1>2. ASSUME NEW j \in RmJoints, Evaluate(j) PROVE MonitorInv'
  BY <1>2, EvaluateKeeps
<1>3. ASSUME NEW j \in RmJoints, ReportLoss(j) PROVE MonitorInv'
  <2>1. "comm_lost" \in EventTypes /\ 1 \in Nat
    BY DEF EventTypes
  <2> QED BY <1>3, <2>1, ReportKeeps DEF ReportLoss
<1>4. ASSUME NEW j \in RmJoints, NEW v \in Temps, ReportTemp(j, v) PROVE MonitorInv'
  <2>1. "joint_temp_warning" \in EventTypes /\ v \in Nat
    BY RuntimeMonitorAssumption DEF EventTypes, TempTypes
  <2> QED BY <1>4, <2>1, ReportKeeps DEF ReportTemp
<1>5. CASE Export \/ CrashInExport \/ RmRestart
  BY <1>5, QuietMonitor DEF Export, CrashInExport, RmRestart, Restarted
<1>6. CASE RmTick \/ ClockBack
  BY <1>6, QuietMonitor DEF RmTick, ClockBack
<1>7. CASE UNCHANGED rmVars
  BY <1>7, QuietMonitor DEF rmVars
<1> QED BY <1>1, <1>2, <1>3, <1>4, <1>5, <1>6, <1>7 DEF RmNext

\* What the stamps of the samples say of the window.
LEMMA MonitorImplies == MonitorInv => ContextIsMeasured
<1> SUFFICES ASSUME MonitorInv PROVE ContextIsMeasured
  OBVIOUS
<1>1. SamplesAreMeasured
  <2>1. \A j \in RmJoints : rmBuf[j] \in Seq(MonitorSamples)
    BY DEF MonitorInv, MonitorShape
  <2>2. \A j \in RmJoints : \A i \in DOMAIN rmBuf[j] : rmBuf[j][i] \in MonitorSamples
    BY <2>1
  <2> QED BY <2>2 DEF SamplesAreMeasured, MonitorSamples
<1>2. WindowSpans
  <2> SUFFICES ASSUME NEW j \in RmJoints, rmBuf[j] # <<>>, NEW i \in WindowOf(j)
               PROVE  Latest(j).at - rmBuf[j][i].at <= Window + rmSetBack
    BY DEF WindowSpans
  <2>1. rmBuf[j] \in Seq(MonitorSamples) /\ rmSetBack \in Nat
    BY DEF MonitorInv, MonitorShape
  <2>2. i \in DOMAIN rmBuf[j] /\ rmBuf[j][i].ts >= Latest(j).ts - Window
    BY DEF WindowOf, InWindow
  <2>3. Len(rmBuf[j]) \in DOMAIN rmBuf[j]
    BY <2>1
  <2>4. Latest(j) \in MonitorSamples /\ rmBuf[j][i] \in MonitorSamples
    BY <2>1, <2>2, <2>3 DEF Latest
  <2>5. /\ Latest(j).at - Latest(j).ts <= rmSetBack
        /\ rmBuf[j][i].at - rmBuf[j][i].ts >= 0
    BY <2>2, <2>3 DEF MonitorInv, SamplesAreDated, Latest
  <2>6. Latest(j).at \in Int /\ Latest(j).ts \in Int
        /\ rmBuf[j][i].at \in Int /\ rmBuf[j][i].ts \in Int
    BY <2>4 DEF MonitorSamples
  <2> QED BY <2>1, <2>2, <2>5, <2>6, RuntimeMonitorAssumption, SMTT(30)
<1>3. NewestTempCounts
  BY NewestIsTaken
<1> QED BY <1>1, <1>2, <1>3 DEF MonitorInv, ContextIsMeasured

\* What a context tells was measured by a sensor or reported, within the
\* window it is about, and the newest temperature counts; and no score rises
\* above one half (ring_buffer.py, context_bridge.py:76-159).
THEOREM ContextMeasured == RmSpec => []ContextIsMeasured
<1>1. RmSpec => []MonitorInv
  BY MonitorStarts, MonitorStep, PTL DEF RmSpec
<1> QED BY <1>1, MonitorImplies, PTL
-----------------------------------------------------------------------------
(***************************************************************************)
(* The types of all parts, whichever of them moves.                        *)
(***************************************************************************)

LEMMA RepoTyped == LrSpec => []LrTypeOK
<1>1. RepoInv => LrTypeOK
  <2> SUFFICES ASSUME RepoInv PROVE LrTypeOK
    OBVIOUS
  <2>1. WholeTrees \subseteq LrTrees
    BY LifecycleRepoAssumption DEF WholeTrees, LrTrees, Versions, Torn
  <2>2. ASSUME NEW p \in LrBranches, NEW i \in DOMAIN lrBranch[p]
        PROVE  lrBranch[p][i].tree \in LrTrees
    <3>1. lrBranch[p] \in Seq(WholeCommits)
      BY DEF RepoInv, LrShape
    <3>2. lrBranch[p][i] \in WholeCommits
      BY <3>1
    <3> QED BY <2>1, <3>2 DEF WholeCommits
  <2> QED BY <2>1, <2>2 DEF RepoInv, LrShape, LrTypeOK, LrBranches, NoBranch
<1> QED BY <1>1, RepoInvariant, PTL
-----------------------------------------------------------------------------
(* RuntimeMonitor                                                          *)

\* What MonitorInv leaves open: bounds of clocks, buffers and scores.
MonitorTypes ==
  /\ rmNow <= RmMaxTime /\ rmSetBack <= RmMaxSetBack
  /\ \A j \in RmJoints : Len(rmBuf[j]) <= Capacity /\ rmScore[j] >= 0
  /\ rmCtxFile \in {"absent", "torn", "empty", "tuned"}

LEMMA ScoreIsNat ==
  ASSUME NEW c, NEW n \in Nat, c.temp \in Nat, c.torque \in Int,
         c.tracking = 0, c.efficiency = 10, c.commLost = 0
  PROVE  Score(c, n) >= 0
<1>1. AbsOf(c.torque) \in Nat
  BY DEF AbsOf
<1>2. /\ Lesser(6 * c.temp, 420) \in Nat /\ Lesser(7 * AbsOf(c.torque), 420) \in Nat
      /\ Lesser(21 * n, 420) \in Nat
  BY <1>1 DEF Lesser
<1>3. /\ Lesser(42 * c.tracking, 420) = 0 /\ Lesser(84 * c.commLost, 420) = 0
      /\ Lesser(10, c.efficiency) = 10
  BY DEF Lesser
<1> QED BY <1>2, <1>3 DEF Score

\* A full buffer loses its oldest sample.
LEMMA BufferBound ==
  ASSUME MonitorInv, MonitorTypes, NEW r \in Readings, NEW lost \in 0..NJoints,
         JointStates(r, lost), NEW i \in RmJoints
  PROVE  Len(rmBuf'[i]) <= Capacity
<1>1. Capacity \in Nat \ {0} /\ rmBuf[i] \in Seq(MonitorSamples) /\ Len(rmBuf[i]) <= Capacity
  BY RuntimeMonitorAssumption DEF MonitorInv, MonitorShape, MonitorTypes
<1>2. CASE Skipped(i, lost)
  BY <1>1, <1>2 DEF JointStates
<1>3. CASE ~Skipped(i, lost)
  <2>1. PICK x : rmBuf'[i] = Keep(Append(rmBuf[i], x))
    BY <1>3 DEF JointStates
  <2>2. PICK s : s = Append(rmBuf[i], x)
    OBVIOUS
  <2>3. PICK S : S = MonitorSamples \cup {x}
    OBVIOUS
  <2>4. rmBuf[i] \in Seq(S)
    BY <1>1, <2>3, SeqMonotonic
  <2>5. s \in Seq(S) /\ Len(s) = Len(rmBuf[i]) + 1
    BY <2>2, <2>3, <2>4, AppendProperties
  <2>6. Len(s) \in Nat /\ Len(rmBuf[i]) \in Nat
    BY <1>1, <2>5
  <2>7. s # <<>> /\ Len(Tail(s)) = Len(s) - 1
    BY <2>5, <2>6
  <2> QED BY <1>1, <2>1, <2>2, <2>5, <2>6, <2>7 DEF Keep
<1> QED BY <1>2, <1>3

LEMMA EvaluateBound ==
  ASSUME MonitorInv, MonitorTypes, NEW j \in RmJoints, Evaluate(j), NEW i \in RmJoints
  PROVE  rmScore'[i] >= 0
<1> DEFINE c == ContextOf(j)
           n == Cardinality(Recent(j))
<1>1. c.temp = ExtractTemp(Recent(j)) /\ c.torque \in Int
  <2>1. rmBuf[j] # <<>> => Latest(j) \in MonitorSamples
    <3>1. rmBuf[j] \in Seq(MonitorSamples)
      BY DEF MonitorInv, MonitorShape
    <3>2. rmBuf[j] # <<>> => Len(rmBuf[j]) \in DOMAIN rmBuf[j]
      BY <3>1
    <3> QED BY <3>1, <3>2 DEF Latest
  <2> QED BY <2>1 DEF ContextOf, MonitorSamples
<1>2. c.temp \in Nat
  BY <1>1, TempIsLogged DEF MonitorInv
<1>3. n \in Nat
  <2>1. IsFiniteSet(DOMAIN rmLog)
    <3>1. PICK values : rmLog \in Seq(EventsWith(values))
      BY DEF MonitorInv, MonitorShape
    <3>2. DOMAIN rmLog = 1..Len(rmLog) /\ Len(rmLog) \in Int /\ 1 \in Int
      BY <3>1
    <3> QED BY <3>2, FS_Interval
  <2>2. Recent(j) \subseteq DOMAIN rmLog
    BY DEF Recent, RowsOfDay
  <2>3. IsFiniteSet(Recent(j))
    BY <2>1, <2>2, FS_Subset
  <2> QED BY <2>3, FS_CardinalityType
<1>4. c = [temp |-> c.temp, torque |-> c.torque, velocity |-> c.velocity,
           tracking |-> c.tracking, efficiency |-> c.efficiency, commLost |-> c.commLost]
  BY DEF ContextOf
<1>5. rmScore' = [rmScore EXCEPT ![j] = Score(Scored(c), n)]
  BY DEF Evaluate
<1> HIDE DEF c, n
<1>6. /\ Scored(c).temp = c.temp /\ Scored(c).torque = c.torque /\ Scored(c).tracking = 0
      /\ Scored(c).efficiency = 10 /\ Scored(c).commLost = 0
  BY <1>4 DEF Scored
<1>7. Score(Scored(c), n) >= 0
  BY <1>1, <1>2, <1>3, <1>6, ScoreIsNat
<1>8. rmScore \in [RmJoints -> Int] /\ rmScore[i] >= 0
  BY DEF MonitorInv, MonitorShape, MonitorTypes
<1> QED BY <1>5, <1>7, <1>8

LEMMA MonitorTypesStep ==
  ASSUME MonitorInv, MonitorTypes, [RmNext]_rmVars
  PROVE  MonitorTypes'
<1>1. ASSUME NEW r \in Readings, NEW lost \in 0..NJoints, JointStates(r, lost)
      PROVE  MonitorTypes'
  BY <1>1, BufferBound DEF JointStates, MonitorTypes
<1>2. ASSUME NEW j \in RmJoints, Evaluate(j) PROVE MonitorTypes'
  BY <1>2, EvaluateBound DEF Evaluate, MonitorTypes
<1>3. CASE \/ \E j \in RmJoints : ReportLoss(j)
           \/ \E j \in RmJoints, v \in Temps : ReportTemp(j, v)
  BY <1>3 DEF ReportLoss, ReportTemp, Report, MonitorTypes
<1>4. CASE Export
  BY <1>4 DEF Export, MonitorTypes
<1>5. CASE CrashInExport \/ RmRestart
  <2>1. \A j \in RmJoints : Len(rmBuf'[j]) = 0 /\ rmScore'[j] = 0
    BY <1>5 DEF CrashInExport, RmRestart, Restarted
  <2> QED BY <1>5, <2>1, RuntimeMonitorAssumption
          DEF CrashInExport, RmRestart, Restarted, MonitorTypes
<1>6. CASE RmTick \/ ClockBack
  <2>1. rmNow \in Nat /\ rmSetBack \in Nat /\ RmMaxTime \in Nat /\ RmMaxSetBack \in Nat
    BY RuntimeMonitorAssumption DEF MonitorInv, MonitorShape
  <2>2. rmNow' <= RmMaxTime /\ rmSetBack' <= RmMaxSetBack
    BY <1>6, <2>1 DEF RmTick, ClockBack, MonitorTypes
  <2> QED BY <1>6, <2>2 DEF RmTick, ClockBack, MonitorTypes
<1>7. CASE UNCHANGED rmVars
  BY <1>7 DEF rmVars, MonitorTypes
<1> QED BY <1>1, <1>2, <1>3, <1>4, <1>5, <1>6, <1>7 DEF RmNext

LEMMA InRangeOfScores ==
  ASSUME NEW x \in Int, x >= 0, x <= 21000
  PROVE  x \in 0..FullScore
<1>1. FullScore \in Int /\ 21000 <= FullScore
  BY DEF FullScore
<1> QED BY <1>1

LEMMA MonitorTyped == RmSpec => []RmTypeOK
<1>1. RmInit => MonitorTypes
  BY RuntimeMonitorAssumption DEF RmInit, MonitorTypes
<1>2. MonitorInv /\ MonitorTypes => RmTypeOK
  <2> SUFFICES ASSUME MonitorInv, MonitorTypes PROVE RmTypeOK
    OBVIOUS
  <2>1. ASSUME NEW j \in RmJoints PROVE rmScore[j] \in 0..FullScore
    <3>1. rmScore[j] \in Int /\ rmScore[j] >= 0 /\ rmScore[j] <= 21000
      BY DEF MonitorInv, MonitorShape, MonitorTypes, ScoreAtMostHalf
    <3> QED BY <3>1, InRangeOfScores
  <2>2. rmNow \in 0..RmMaxTime /\ rmSetBack \in 0..RmMaxSetBack
    BY RuntimeMonitorAssumption DEF MonitorInv, MonitorShape, MonitorTypes
  <2>3. /\ \A j \in RmJoints : Len(rmBuf[j]) <= Capacity
        /\ rmCtxFile \in {"absent", "torn", "empty", "tuned"}
    BY DEF MonitorTypes
  <2> QED BY <2>1, <2>2, <2>3, Zenon DEF RmTypeOK
<1>3. RmSpec => []MonitorInv /\ [][RmNext]_rmVars
  BY MonitorStarts, MonitorStep, PTL DEF RmSpec
<1> QED BY <1>1, <1>2, <1>3, MonitorTypesStep, PTL DEF RmSpec
-----------------------------------------------------------------------------
(* ProfileSwitch                                                           *)

\* Whatever rules have chosen the profile, it is one of the robot's.
LEMMA FirstOtherIs ==
  ASSUME NEW current, FirstOther(Ranked, current) # None
  PROVE  FirstOther(Ranked, current) \in PsProfiles
<1> DEFINE others == {i \in DOMAIN Ranked : Ranked[i] # current}
<1>1. others # {} /\ others \subseteq Nat
  BY ProfileSwitchAssumption DEF FirstOther
<1>2. PICK i \in others : \A k \in others : <<k, i>> \notin OpToRel(<, Nat)
  BY <1>1, WFMin, NatLessThanWellFounded
<1>3. \A k \in others : i <= k
  <2> HIDE DEF others
  <2>1. \A k \in others : ~(k < i)
    BY <1>1, <1>2 DEF OpToRel
  <2>2. i \in Nat /\ \A k \in others : k \in Nat
    BY <1>1, <1>2
  <2> QED BY <2>1, <2>2
<1>4. (CHOOSE m \in others : \A k \in others : m <= k) \in others
  BY <1>3
<1> QED BY <1>1, <1>4 DEF FirstOther, PsProfiles

LEMMA DecidedIs ==
  /\ \A ctx \in Contexts : Decided(ctx) # None => Decided(ctx) \in PsProfiles
  /\ \A strategy, wrongSide :
       LET target == EvaluateStrategy(strategy, Ranked, psEvent, wrongSide)
       IN  target # None => target \in PsProfiles
<1>1. ASSUME NEW ctx \in Contexts, Decided(ctx) # None
      PROVE  Decided(ctx) \in PsProfiles
  BY <1>1, FirstOtherIs, ProfileSwitchAssumption DEF Decided, ShouldSwitch, Contexts
<1>2. ASSUME NEW strategy, NEW wrongSide,
             NEW target, target = EvaluateStrategy(strategy, Ranked, psEvent, wrongSide),
             target # None
      PROVE  target \in PsProfiles
  <2>1. (\E i \in DOMAIN Ranked : Ranked[i] = CollisionSafe) => CollisionSafe \in PsProfiles
    BY DEF PsProfiles
  <2>2. \/ target = FirstOther(Ranked, psEvent)
        \/ target = CollisionSafe /\ \E i \in DOMAIN Ranked : Ranked[i] = CollisionSafe
    BY <1>2 DEF EvaluateStrategy
  <2> QED BY <1>2, <2>1, <2>2, FirstOtherIs
<1> QED BY <1>1, <1>2

LEMMA SwitchToTypes ==
  ASSUME PsTypeOK, NEW p \in PsProfiles, NEW returns \in BOOLEAN,
         SwitchTo(p, returns) \/ SwitchRaises(p) \/ SwitchCutOff(p)
  PROVE  PsTypeOK'
<1>1. /\ psHead' \in PsProfiles \cup {"main"}
      /\ psGit # "unborn" => psHead' \in psBranches \cup {"main"}
  BY DEF SwitchTo, SwitchRaises, SwitchCutOff, Checkout, PsTypeOK
<1>2. Gains(p) \in PsVersions \cup {None, "torn"}
  BY DEF Gains, PsTypeOK, None
<1>3. Gains(p) \notin {None, "torn"} => OwnGains(p) \in Given
  BY <1>2 DEF OwnGains, Given
<1>4. psApplied' \in Given \cup {Nothing}
  <2>1. CASE SwitchTo(p, returns)
    BY <1>3, <2>1 DEF SwitchTo, Writes, PsTypeOK
  <2>2. CASE SwitchRaises(p)
    BY <2>2 DEF SwitchRaises, PsTypeOK
  <2>3. CASE SwitchCutOff(p)
    BY <1>3, <2>3, ProfileSwitchAssumption DEF SwitchCutOff, None
  <2> QED BY <2>1, <2>2, <2>3
<1>5. /\ psTold' \in Given \cup {Nothing}
      /\ psEvent' \in PsProfiles \cup {None} /\ psCut' \in BOOLEAN
  <2>1. CASE SwitchTo(p, returns)
    BY <1>3, <2>1 DEF SwitchTo, Emits, EmitsAfterWriter, PsTypeOK
  <2>2. CASE SwitchRaises(p) \/ SwitchCutOff(p)
    BY <2>2 DEF SwitchRaises, SwitchCutOff, PsTypeOK
  <2> QED BY <2>1, <2>2
<1>6. UNCHANGED <<psGit, psBranches, psBest>>
  BY DEF SwitchTo, SwitchRaises, SwitchCutOff
<1> QED BY <1>1, <1>4, <1>5, <1>6 DEF PsTypeOK

LEMMA SwitchTyped == PsSpec => []PsTypeOK
<1>1. PsInit => PsTypeOK
  BY DEF PsInit, PsTypeOK
<1>2. PsTypeOK /\ [PsNext]_psVars => PsTypeOK'
  <2> SUFFICES ASSUME PsTypeOK, [PsNext]_psVars PROVE PsTypeOK'
    OBVIOUS
  <2>1. CASE UNCHANGED psVars
    BY <2>1 DEF psVars, PsTypeOK
  <2>2. CASE \E reaches \in BOOLEAN : RepoInit(reaches)
    BY <2>2 DEF RepoInit, PsTypeOK
  <2>3. CASE \E p \in PsProfiles : CreateBranch(p)
    <3>1. PICK p \in PsProfiles : CreateBranch(p)
      BY <2>3
    <3>2. /\ psBranches' \subseteq PsProfiles /\ psBranches \subseteq psBranches'
          /\ psHead' \in PsProfiles \cup {"main"}
      BY <3>1 DEF CreateBranch, PsTypeOK
    <3>3. psGit' # "unborn" => psHead' \in psBranches' \cup {"main"}
      <4>1. CASE psGit = "born"
        BY <3>1, <3>2, <4>1 DEF CreateBranch, PsTypeOK
      <4>2. CASE psGit = "unborn"
        BY <3>1, <4>2 DEF CreateBranch
      <4> QED BY <3>1, <4>1, <4>2 DEF CreateBranch, HasRepo
    <3> QED BY <3>1, <3>2, <3>3 DEF CreateBranch, PsTypeOK
  <2>4. CASE \E p \in PsProfiles, v \in PsVersions \cup {"empty", "torn"} :
               WriteBest(p, v)
    BY <2>4 DEF WriteBest, PsTypeOK
  <2>5. CASE \E p \in PsProfiles, returns \in BOOLEAN :
               SwitchTo(p, returns) \/ SwitchRaises(p) \/ SwitchCutOff(p)
    BY <2>5, SwitchToTypes
  <2>6. CASE \E ctx \in Contexts, returns \in BOOLEAN : AutoSwitch(ctx, returns)
    BY <2>6, DecidedIs, SwitchToTypes DEF AutoSwitch
  <2>7. CASE \E strategy \in {"manual", "score_based", "anomaly_based"},
                wrongSide, returns \in BOOLEAN : EvaluatedSwitch(strategy, wrongSide, returns)
    BY <2>7, DecidedIs, SwitchToTypes DEF EvaluatedSwitch
  <2> QED BY <2>1, <2>2, <2>3, <2>4, <2>5, <2>6, <2>7 DEF PsNext
<1> QED BY <1>1, <1>2, PTL DEF PsSpec
-----------------------------------------------------------------------------
(* KnowledgeBase                                                           *)

\* A line is begun by an append that returns or by a crash.
KbBounds ==
  /\ kbCrashes <= KbMaxCrashes
  /\ \A f \in JsonFiles : /\ kbKept[f] <= KbMaxRecords
                          /\ Len(kbLines[f]) <= kbKept[f] + kbCrashes

LEMMA WrittenBound ==
  ASSUME KbInv, NEW f \in JsonFiles, NEW r
  PROVE  /\ Len(kbLines[f]) \in Nat /\ Len(Written(f, r)) \in Nat
         /\ Len(Written(f, r)) <= Len(kbLines[f]) + 1
<1>1. kbLines[f] \in Seq(Seq(KbRecs))
  BY DEF KbInv, FilesInv, FilesTyped
<1>2. kbOpen[f] => Len(Written(f, r)) = Len(kbLines[f])
  BY <1>1 DEF Written
<1>3. ~kbOpen[f] => Len(Written(f, r)) = Len(kbLines[f]) + 1
  <2>1. PICK x : x = <<r>>
    OBVIOUS
  <2>2. PICK S : S = Seq(KbRecs) \cup {x}
    OBVIOUS
  <2>3. kbLines[f] \in Seq(S)
    BY <1>1, <2>2, SeqMonotonic
  <2>4. Len(Append(kbLines[f], x)) = Len(kbLines[f]) + 1
    BY <2>2, <2>3, AppendProperties
  <2> QED BY <2>1, <2>4 DEF Written
<1>4. Len(kbLines[f]) \in Nat
  BY <1>1
<1> QED BY <1>2, <1>3, <1>4

LEMMA AppendBound ==
  ASSUME KbInv, KbBounds, NEW f \in JsonFiles, NEW r, Appends(f, r), UNCHANGED kbCrashes
  PROVE  KbBounds'
<1> SUFFICES ASSUME NEW g \in JsonFiles
             PROVE  kbKept'[g] <= KbMaxRecords /\ Len(kbLines'[g]) <= kbKept'[g] + kbCrashes
  BY DEF KbBounds
<1>1. /\ kbKept[g] <= KbMaxRecords /\ Len(kbLines[g]) <= kbKept[g] + kbCrashes
      /\ kbKept[g] \in Nat /\ kbCrashes \in Nat
  BY DEF KbBounds, KbInv, FilesInv, FilesTyped
<1>2. /\ kbLines' = [kbLines EXCEPT ![f] = Written(f, r)]
      /\ kbKept' = [kbKept EXCEPT ![f] = @ + 1] /\ kbKept[f] < KbMaxRecords
  BY DEF Appends, Room
<1>3. CASE g # f
  <2>1. kbKept'[g] = kbKept[g] /\ kbLines'[g] = kbLines[g]
    BY <1>2, <1>3 DEF KbInv, FilesInv, FilesTyped
  <2> QED BY <1>1, <2>1
<1>4. CASE g = f
  <2>1. kbKept'[g] = kbKept[g] + 1 /\ kbLines'[g] = Written(f, r)
    BY <1>2, <1>4 DEF KbInv, FilesInv, FilesTyped
  <2>2. PICK n : n = Len(Written(f, r))
    OBVIOUS
  <2>3. n <= Len(kbLines[g]) + 1 /\ Len(kbLines[g]) \in Nat
    BY <1>4, <2>2, WrittenBound
  <2>4. n \in Nat
    BY <2>2, WrittenBound
  <2>5. kbKept[g] + 1 <= KbMaxRecords
    BY <1>1, <1>2, <1>4, KnowledgeBaseAssumption
  <2> QED BY <1>1, <2>1, <2>2, <2>3, <2>4, <2>5
<1> QED BY <1>3, <1>4

LEMMA CutBound ==
  ASSUME KbInv, KbBounds, NEW f \in JsonFiles, NEW r, NEW own, CutShort(own), CutOff(f, r)
  PROVE  KbBounds'
<1>1. /\ kbCrashes' = kbCrashes + 1 /\ kbCrashes < KbMaxCrashes /\ kbKept' = kbKept
      /\ kbCrashes \in Nat
  BY DEF CutShort, KbInv, FilesInv, FilesTyped
<1>2. /\ kbCrashes' <= KbMaxCrashes
      /\ \A g \in JsonFiles : kbKept'[g] <= KbMaxRecords
  BY <1>1, KnowledgeBaseAssumption DEF KbBounds
<1> SUFFICES ASSUME NEW g \in JsonFiles
             PROVE  Len(kbLines'[g]) <= kbKept'[g] + kbCrashes'
  BY <1>1, <1>2, Zenon DEF KbBounds
<1>3. Len(kbLines[g]) <= kbKept[g] + kbCrashes /\ kbKept[g] \in Nat
  BY DEF KbBounds, KbInv, FilesInv, FilesTyped
<1>4. Len(kbLines[g]) \in Nat
  BY WrittenBound
<1>5. CASE kbLines'[g] = kbLines[g]
  BY <1>1, <1>3, <1>4, <1>5
<1>6. CASE \E x : g = f /\ kbLines'[g] = Written(f, x)
  <2>1. PICK x : g = f /\ kbLines'[g] = Written(f, x)
    BY <1>6
  <2>2. Len(kbLines'[g]) \in Nat /\ Len(kbLines'[g]) <= Len(kbLines[g]) + 1
    BY <2>1, WrittenBound
  <2> QED BY <1>1, <1>3, <1>4, <2>2
<1>7. kbLines'[g] = kbLines[g] \/ \E x : g = f /\ kbLines'[g] = Written(f, x)
  BY DEF CutOff, KbInv, FilesInv, FilesTyped
<1> QED BY <1>5, <1>6, <1>7

LEMMA CrashBound ==
  ASSUME KbInv, KbBounds, NEW own, CutShort(own), UNCHANGED kbLines
  PROVE  KbBounds'
<1>1. /\ kbCrashes' = kbCrashes + 1 /\ kbCrashes < KbMaxCrashes /\ kbKept' = kbKept
      /\ kbCrashes \in Nat
  BY DEF CutShort, KbInv, FilesInv, FilesTyped
<1>2. kbCrashes' <= KbMaxCrashes
  BY <1>1, KnowledgeBaseAssumption
<1>3. ASSUME NEW f \in JsonFiles PROVE Len(kbLines[f]) <= kbKept[f] + (kbCrashes + 1)
  <2>1. Len(kbLines[f]) \in Nat
    BY WrittenBound
  <2> QED BY <1>1, <2>1 DEF KbBounds, KbInv, FilesInv, FilesTyped
<1> QED BY <1>1, <1>2, <1>3 DEF KbBounds

LEMMA KbBoundsStep == KbInv /\ KbBounds /\ [KbNext]_kbVars => KbBounds'
<1> SUFFICES ASSUME KbInv, KbBounds, [KbNext]_kbVars PROVE KbBounds'
  OBVIOUS
<1>0. {"lineage", "stream"} = JsonFiles
  BY DEF JsonFiles
<1>1. CASE UNCHANGED kbVars
  BY <1>1 DEF kbVars, KbBounds
<1>2. CASE Emit \/ EmitCutOff
  BY <1>0, <1>2, AppendBound, CutBound DEF Emit, EmitCutOff
<1>3. ASSUME NEW t \in Templates, ExportTorn(t) PROVE KbBounds'
  BY <1>3, CrashBound DEF ExportTorn
<1>4. ASSUME NEW r \in KbRobots, NEW t \in Templates,
             Export_(r, t) \/ Inherit(r, t) \/ Adapted(r, t)
      PROVE  KbBounds'
  BY <1>0, <1>4, AppendBound DEF Export_, Inherit, Adapted
<1>5. ASSUME NEW r \in KbRobots, NEW t \in Templates,
             ExportCutOff(r, t) \/ InheritCutOff(r, t) \/ AdaptedCutOff(r, t)
      PROVE  KbBounds'
  BY <1>0, <1>5, CutBound DEF ExportCutOff, InheritCutOff, AdaptedCutOff
<1>6. ASSUME NEW m \in Models, NEW v \in {1, 2}, Publish(m, v) PROVE KbBounds'
  BY <1>6 DEF Publish, KbBounds
<1>7. ASSUME NEW m \in Models, NEW v \in {1, 2}, NEW k \in 1..3, PublishCutOff(m, v, k)
      PROVE  KbBounds'
  BY <1>7, CrashBound DEF PublishCutOff
<1> QED BY <1>1, <1>2, <1>3, <1>4, <1>5, <1>6, <1>7 DEF KbNext

LEMMA KnowledgeTyped == KbSpec => []KbTypeOK
<1>1. KbInit => KbBounds
  <2> SUFFICES ASSUME KbInit PROVE KbBounds
    OBVIOUS
  <2>1. \A f \in JsonFiles : kbKept[f] = 0 /\ kbLines[f] = <<>>
    BY DEF KbInit
  <2> QED BY <2>1, KnowledgeBaseAssumption DEF KbInit, KbBounds
<1>2. KbInv /\ KbBounds => KbTypeOK
  <2> SUFFICES ASSUME KbInv, KbBounds PROVE KbTypeOK
    OBVIOUS
  <2>1. kbCrashes \in 0..KbMaxCrashes
    BY KnowledgeBaseAssumption DEF KbInv, KbBounds, FilesInv, FilesTyped
  <2> QED BY <2>1 DEF KbInv, KbBounds, StoreTyped, TasksAreTold, KbTypeOK
<1> QED BY <1>1, <1>2, KbStarts, KbStep, KbBoundsStep, PTL DEF KbSpec
-----------------------------------------------------------------------------
(* All parts                                                               *)

LEMMA PhaseTyped == RlSpec => []RlTypeOK
<1>1. LifecycleInv => RlTypeOK
  BY DEF LifecycleInv
<1> QED BY <1>1, LifecycleStarts, LifecycleStep, PTL DEF RlSpec

LEMMA ScheduleTyped == TsSpec => []TsTypeOK
<1>1. ScheduleInv => TsTypeOK
  BY DEF ScheduleInv, ScheduleShape, TsTypeOK
<1> QED BY <1>1, ScheduleStarts, ScheduleStep, PTL DEF TsSpec

mcVars == <<part, vars, lrVars, rmVars, rlVars, tsVars, psVars, kbVars>>

\* Whichever part of the robot moves, all values are of the sorts they are
\* meant to be: a move of one part is none of the others.
THEOREM TypesCorrect == MCInit /\ [][MCNext]_mcVars => []TypesOK
<1>1. MCInit => /\ Init /\ LrInit /\ RmInit /\ RlInit /\ TsInit /\ PsInit /\ KbInit
  BY DEF MCInit
<1>2. [MCNext]_mcVars => /\ [Next]_vars /\ [LrNext]_lrVars /\ [RmNext]_rmVars
                         /\ [RlNext]_rlVars /\ [TsNext]_tsVars /\ [PsNext]_psVars
                         /\ [KbNext]_kbVars
  BY DEF MCNext, mcVars, Gains_, Repo_, Monitor_, Phase_, Schedule_, Profile_, Knowledge_
<1>3. MCInit /\ [][MCNext]_mcVars => /\ Spec /\ LrSpec /\ RmSpec /\ RlSpec /\ TsSpec
                                     /\ PsSpec /\ KbSpec
  BY <1>1, <1>2, PTL DEF Spec, LrSpec, RmSpec, RlSpec, TsSpec, PsSpec, KbSpec
<1>4. /\ TypeOK /\ LrTypeOK /\ RmTypeOK /\ RlTypeOK /\ TsTypeOK /\ PsTypeOK /\ KbTypeOK
      => TypesOK
  BY DEF TypesOK
<1> QED BY <1>3, <1>4, TypeCorrect, RepoTyped, MonitorTyped, PhaseTyped, ScheduleTyped,
           SwitchTyped, KnowledgeTyped, PTL
=============================================================================
