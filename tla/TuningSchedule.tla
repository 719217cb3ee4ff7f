--------------------------- MODULE TuningSchedule ---------------------------
(***************************************************************************)
(* SessionOrchestrator: when an idle-tuning session may start.  It reads   *)
(* the wall clock and the date at each call, and keeps its times and its   *)
(* counter in memory.  The caller asks, tunes and records afterwards.      *)
(***************************************************************************)
EXTENDS Integers

CONSTANTS
  MinInterval, DailyMax, Cooldown,  \* the arguments of SessionOrchestrator
  DayLength,     \* seconds of a day, in the unit of the others
  TsMaxTime,     \* bound: time
  TsMaxShift     \* bound: how far the wall clock is set forward or back

ASSUME TuningScheduleAssumption ==
  /\ MinInterval \in Nat /\ DailyMax \in Nat /\ Cooldown \in Nat
  /\ DayLength \in Nat \ {0} /\ TsMaxTime \in Nat /\ TsMaxShift \in Nat

VARIABLES
  tsNow,       \* time passed since the epoch of the wall clock
  tsShift,     \* wall clock minus tsNow
  tsTune, tsRollback, tsCount, tsDate,  \* fields of the orchestrator
  tsBusy,      \* a session is running
  tsEnd, tsBack, \* history: when the last session ended and the last rollback
                 \* was recorded, and
  tsEnded      \* history: how many sessions ended on which day, all since
               \* the clock was set or the process began

fields == <<tsTune, tsRollback, tsCount, tsDate>>
tsVars == <<tsNow, tsShift, fields, tsBusy, tsEnd, tsBack, tsEnded>>
-----------------------------------------------------------------------------
TsStart == Cooldown + MinInterval + TsMaxShift   \* well after time 0 of time.time()
WallTime == tsNow + tsShift
Today == WallTime \div DayLength
Days == 0..((TsStart + TsMaxTime + TsMaxShift) \div DayLength)
Never == -1

TsInit ==
  /\ tsNow = TsStart /\ tsShift = 0
  /\ tsTune = 0 /\ tsRollback = 0 /\ tsCount = 0 /\ tsDate = Today
  /\ tsBusy = FALSE
  /\ tsEnd = Never /\ tsBack = Never /\ tsEnded = [d \in Days |-> 0]

\* _reset_daily_count_if_new_day
CountToday == IF Today # tsDate THEN 0 ELSE tsCount

IntervalOver == MinInterval - (WallTime - tsTune) <= 0
UnderDailyMax == CountToday < DailyMax
CooledDown_Tune == Cooldown - (WallTime - tsTune) <= 0   \* mutant: wrong field
CooledDown == Cooldown - (WallTime - tsRollback) <= 0

\* can_tune, and the session starts
Ask ==
  /\ ~tsBusy /\ IntervalOver /\ UnderDailyMax /\ CooledDown
  /\ tsBusy' = TRUE
  /\ tsCount' = CountToday /\ tsDate' = Today
  /\ UNCHANGED <<tsNow, tsShift, tsTune, tsRollback, tsEnd, tsBack, tsEnded>>

\* record_tune when the session is over
RecordTune ==
  /\ tsBusy /\ tsBusy' = FALSE
  /\ tsTune' = WallTime /\ tsCount' = CountToday + 1 /\ tsDate' = Today
  /\ tsEnd' = tsNow /\ tsEnded' = [tsEnded EXCEPT ![Today] = @ + 1]
  /\ UNCHANGED <<tsNow, tsShift, tsRollback, tsBack>>

RecordRollback ==
  /\ tsRollback' = WallTime /\ tsBack' = tsNow
  /\ UNCHANGED <<tsNow, tsShift, tsTune, tsCount, tsDate, tsBusy, tsEnd, tsEnded>>

TsTick == /\ tsNow < TsStart + TsMaxTime /\ tsNow' = tsNow + 1
          /\ UNCHANGED <<tsShift, fields, tsBusy, tsEnd, tsBack, tsEnded>>

NoHistory == tsEnd' = Never /\ tsBack' = Never /\ tsEnded' = [d \in Days |-> 0]

SetClock == /\ \E s \in -TsMaxShift..TsMaxShift : s # tsShift /\ tsShift' = s
            /\ NoHistory /\ UNCHANGED <<tsNow, fields, tsBusy>>

TsRestart == /\ tsTune' = 0 /\ tsRollback' = 0 /\ tsCount' = 0 /\ tsDate' = Today
             /\ tsBusy' = FALSE /\ NoHistory /\ UNCHANGED <<tsNow, tsShift>>

TsNext == Ask \/ RecordTune \/ RecordRollback \/ TsTick \/ SetClock \/ TsRestart

TsSpec == TsInit /\ [][TsNext]_tsVars
-----------------------------------------------------------------------------
TsTypeOK ==
  /\ tsNow \in TsStart..(TsStart + TsMaxTime) /\ tsShift \in -TsMaxShift..TsMaxShift
  /\ tsBusy \in BOOLEAN /\ tsCount \in 0..DailyMax /\ tsDate \in Days

\* While the process runs on and nobody sets the clock, whatever was set
\* before: a session starts at least the interval after the end of the one
\* before, in the time that has really passed.
IntervalKept ==
  Ask => tsEnd = Never \/ tsNow - tsEnd >= MinInterval

\* No day sees more sessions end than the limit, although the counter is only
\* looked at when a session starts; one begun the day before counts when it
\* ends.
DailyMaxKept == \A d \in Days : tsEnded[d] <= DailyMax

\* No session begins within the cooldown of a rollback recorded before, be it
\* recorded within a session or between two.
CooldownKept ==
  Ask => tsBack = Never \/ tsNow - tsBack >= Cooldown

\* The three limits of the schedule together.
ScheduleKept == [][DailyMaxKept' /\ IntervalKept /\ CooldownKept]_tsVars
=============================================================================
