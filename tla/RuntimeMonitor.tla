--------------------------- MODULE RuntimeMonitor ---------------------------
(***************************************************************************)
(* Monitoring of the joints: ring buffers fed by /joint_states, the event  *)
(* log, the tuning context ContextBridge builds from both, its anomaly     *)
(* score and the semantic events the rules derive from it, which the       *)
(* caller writes to the log again (semantic_engine.py:5).                  *)
(*                                                                         *)
(* Positions and tracking errors are in hundredths of a rad, efficiency in *)
(* tenths, components of the score in 420ths of 1 and the score in 42000ths*)
(* so that the sums of the code are exact.                                 *)
(***************************************************************************)
EXTENDS Integers, Sequences, FiniteSets, FiniteSetsExt

CONSTANTS
  NJoints,      \* joints of a message, 1..NJoints in its order
  Capacity,     \* max_samples of a buffer
  Window,       \* seconds of the window of a context, 5.0
  Day,          \* the 24 hours of query_recent, in the same unit
  QueryLimit,   \* LIMIT of query_recent
  Temps,        \* temperatures reported from outside
  RmMaxTime,    \* bound: time
  RmMaxSetBack, \* bound: total by which the wall clock is set back
  RmMaxEvents   \* bound: evaluations start with fewer events

ASSUME RuntimeMonitorAssumption ==
  /\ NJoints \in Nat \ {0} /\ Capacity \in Nat \ {0} /\ QueryLimit \in Nat \ {0}
  /\ Window \in Nat /\ Day \in Nat /\ Window < Day
  /\ Temps \subseteq Nat
  /\ RmMaxTime \in Nat /\ RmMaxSetBack \in Nat /\ RmMaxEvents \in Nat

VARIABLES
  rmNow,      \* time passed
  rmSetBack,  \* by how much the wall clock was set back in all
  rmBuf,      \* ring buffer of each joint
  rmLog,      \* the event log in the order of its rows
  rmCtxFile,  \* initial_context.json: "absent", "torn", "empty", "tuned"
  rmBest,     \* a best_params.yaml lies where the export looks for it
  rmScore     \* the anomaly score of the last context of each joint

rmVars == <<rmNow, rmSetBack, rmBuf, rmLog, rmCtxFile, rmBest, rmScore>>
-----------------------------------------------------------------------------
RmJoints == 1..NJoints
Wall == rmNow - rmSetBack
Lesser(a, b) == IF a <= b THEN a ELSE b
AbsOf(x) == IF x < 0 THEN -x ELSE x

Readings == {[pos |-> 0, vel |-> 0, eff |-> 10], [pos |-> 10, vel |-> 10, eff |-> 55]}

RmInit == /\ rmNow = 0 /\ rmSetBack = 0
          /\ rmBuf = [j \in RmJoints |-> <<>>] /\ rmLog = <<>>
          /\ rmCtxFile = "absent" /\ rmBest \in BOOLEAN
          /\ rmScore = [j \in RmJoints |-> 0]

(* Ring buffers                                                            *)
Keep(s) == IF Len(s) > Capacity THEN Tail(s) ELSE s

\* Entries of the shortest array of a message that lacks the reading of the
\* joint `lost`: 0 when none is lost.
Entries(lost) == IF lost = 0 THEN NJoints ELSE NJoints - 1

\* Joint the i-th entry of that array is of; 0 for one made up.
EntryOwner(i, lost) ==
  IF i > Entries(lost) THEN 0 ELSE IF lost = 0 \/ i < lost THEN i ELSE i + 1

Skipped(i, lost) == i > Entries(lost)

JointStates(r, lost) ==
  /\ rmBuf' = [i \in RmJoints |->
       IF Skipped(i, lost) THEN rmBuf[i]
       ELSE Keep(Append(rmBuf[i], [ts |-> Wall, at |-> rmNow, of |-> EntryOwner(i, lost),
                                   pos |-> r.pos, vel |-> r.vel, eff |-> r.eff]))]
  /\ UNCHANGED <<rmNow, rmSetBack, rmLog, rmCtxFile, rmBest, rmScore>>

InWindow(s, last) == s.ts >= last.ts - Window

\* The places of the samples in the window.
Latest(j)   == rmBuf[j][Len(rmBuf[j])]
WindowOf(j) == {i \in DOMAIN rmBuf[j] : InWindow(rmBuf[j][i], Latest(j))}

(* Event log                                                               *)
Later(a, b) ==
  rmLog[a].ts > rmLog[b].ts \/ (rmLog[a].ts = rmLog[b].ts /\ a > b)

\* query_recent(joint, hours = 24): the numbers of the newest rows.
RowsOfDay(j) == {i \in DOMAIN rmLog : rmLog[i].joint = j /\ rmLog[i].ts > Wall - Day}
Recent(j) ==
  {i \in RowsOfDay(j) : Cardinality({k \in RowsOfDay(j) : Later(k, i)}) < QueryLimit}

TempTypes == {"joint_temp_warning", "joint_temp_critical"}
TypesOfTemp_Any == TempTypes \cup {"torque_spike", "torque_critical"}   \* mutant
TypesOfTemp == TempTypes

OfTypes(rows, types) == {i \in rows : rmLog[i].type \in types}

\* That of the first temperature event of the answer.
ExtractTemp(rows) ==
  LET temps == OfTypes(rows, TypesOfTemp)
  IN  IF temps = {} THEN 25
      ELSE rmLog[CHOOSE i \in temps : \A k \in temps \ {i} : Later(i, k)].value

CountOf(rows, type) == Cardinality(OfTypes(rows, {type}))

(* Tracking error and efficiency                                           *)
TrackingError(j) ==
  IF rmBuf[j] = <<>> \/ rmCtxFile # "tuned" THEN 0
  ELSE MapThenSumSet(LAMBDA i : AbsOf(rmBuf[j][i].pos - Latest(j).pos), WindowOf(j))
         \div Cardinality(WindowOf(j))

Efficiency(j) ==
  LET moving == {i \in WindowOf(j) : rmBuf[j][i].vel # 0}
  IN  IF moving = {} THEN 10
      ELSE Lesser(10, (10 * Cardinality(moving)) \div
             MapThenSumSet(LAMBDA i : AbsOf(rmBuf[j][i].vel * rmBuf[j][i].eff), moving))

(* AnomalyScorer.score: six terms, whose weights add up to 100.            *)
FullScore == 42000
Score(c, nEvents) ==
    15 * Lesser(6 * c.temp, 420)
  + 20 * Lesser(7 * AbsOf(c.torque), 420)
  + 25 * Lesser(42 * c.tracking, 420)
  + 15 * (420 - 42 * Lesser(10, c.efficiency))
  + 10 * Lesser(84 * c.commLost, 420)
  + 15 * Lesser(21 * nEvents, 420)

\* The score is of a context that has only these three fields yet.
Scored(c) == [c EXCEPT !.tracking = 0, !.efficiency = 10, !.commLost = 0]

\* build_tuning_context; it raises if the context file is torn.
ContextOf(j) ==
  LET latest == IF rmBuf[j] = <<>> THEN [pos |-> 0, vel |-> 0, eff |-> 0]
                ELSE Latest(j)
  IN  [temp |-> ExtractTemp(Recent(j)), torque |-> latest.eff, velocity |-> latest.vel,
       tracking |-> TrackingError(j), efficiency |-> Efficiency(j),
       commLost |-> CountOf(Recent(j), "comm_lost")]

EventOf(j, type, value) == [ts |-> Wall, joint |-> j, type |-> type, value |-> value,
                            source |-> "rule"]

\* SemanticEngine.evaluate: the rules in their order.
Fired(cond, e) == IF cond THEN <<e>> ELSE <<>>
EventsOf(j, c) ==
     Fired(c.temp > 50,            EventOf(j, "joint_temp_warning", c.temp))
  \o Fired(c.temp > 70,            EventOf(j, "joint_temp_critical", c.temp))
  \o Fired(AbsOf(c.torque) > 40,   EventOf(j, "torque_spike", c.torque))
  \o Fired(AbsOf(c.torque) > 60,   EventOf(j, "torque_critical", c.torque))
  \o Fired(c.tracking > 5,         EventOf(j, "tracking_error_high", c.tracking))
  \o Fired(c.commLost > 0,         EventOf(j, "comm_lost", c.commLost))
  \o Fired(AbsOf(c.velocity) > 15, EventOf(j, "velocity_spike", c.velocity))
  \o Fired(c.efficiency < 5,       EventOf(j, "efficiency_low", c.efficiency))

Evaluate(j) ==
  /\ rmCtxFile # "torn" /\ Len(rmLog) < RmMaxEvents
  /\ LET c == ContextOf(j)
     IN  /\ rmScore' = [rmScore EXCEPT ![j] = Score(Scored(c), Cardinality(Recent(j)))]
         /\ rmLog' = rmLog \o EventsOf(j, c)
  /\ UNCHANGED <<rmNow, rmSetBack, rmBuf, rmCtxFile, rmBest>>

\* An event some other part of the robot reports.
Report(e) ==
  /\ Len(rmLog) < RmMaxEvents
  /\ rmLog' = Append(rmLog, e)
  /\ UNCHANGED <<rmNow, rmSetBack, rmBuf, rmCtxFile, rmBest, rmScore>>

ReportTemp(j, v) ==
  Report([EventOf(j, "joint_temp_warning", v) EXCEPT !.source = "reported"])
ReportLoss(j) == Report([EventOf(j, "comm_lost", 1) EXCEPT !.source = "reported"])

(* Context file                                                            *)
Export == rmCtxFile' = (IF rmBest THEN "tuned" ELSE "empty")
          /\ UNCHANGED <<rmNow, rmSetBack, rmBuf, rmLog, rmBest, rmScore>>

Restarted == rmBuf' = [j \in RmJoints |-> <<>>] /\ rmScore' = [j \in RmJoints |-> 0]
             /\ UNCHANGED <<rmNow, rmSetBack, rmLog, rmBest>>
CrashInExport == rmCtxFile' = "torn" /\ Restarted
RmRestart == UNCHANGED rmCtxFile /\ Restarted

RmTick == /\ rmNow < RmMaxTime /\ rmNow' = rmNow + 1
          /\ UNCHANGED <<rmSetBack, rmBuf, rmLog, rmCtxFile, rmBest, rmScore>>
ClockBack == /\ rmSetBack < RmMaxSetBack /\ rmSetBack' = rmSetBack + 1
             /\ UNCHANGED <<rmNow, rmBuf, rmLog, rmCtxFile, rmBest, rmScore>>

RmNext ==
  \/ \E r \in Readings, lost \in 0..NJoints : JointStates(r, lost)
  \/ \E j \in RmJoints : Evaluate(j) \/ ReportLoss(j)
  \/ \E j \in RmJoints, v \in Temps : ReportTemp(j, v)
  \/ Export \/ CrashInExport \/ RmRestart
  \/ RmTick \/ ClockBack

RmSpec == RmInit /\ [][RmNext]_rmVars
-----------------------------------------------------------------------------
RmTypeOK ==
  /\ rmNow \in 0..RmMaxTime /\ rmSetBack \in 0..RmMaxSetBack
  /\ \A j \in RmJoints : Len(rmBuf[j]) <= Capacity
  /\ \A j \in RmJoints : rmScore[j] \in 0..FullScore
  /\ rmCtxFile \in {"absent", "torn", "empty", "tuned"}

\* Every value in a buffer was measured by some sensor: a message with short
\* arrays never puts a made-up 0.0 there (ring_buffer.py:73-77).
SamplesAreMeasured ==
  \A j \in RmJoints : \A i \in DOMAIN rmBuf[j] : rmBuf[j][i].of \in RmJoints

\* Not kept by the code (arrays of a short message are read by position):
\* each joint keeps the readings of its own sensors.
SamplesOfOwnJoint ==
  \A j \in RmJoints : \A i \in DOMAIN rmBuf[j] : rmBuf[j][i].of = j

\* The samples a context is computed from span no more than its window, by
\* the time that has really passed, plus what the wall clock was set back
\* meanwhile (ring_buffer.py:44 compares wall-clock times).
WindowSpans ==
  \A j \in RmJoints : rmBuf[j] # <<>> =>
    \A i \in WindowOf(j) : Latest(j).at - rmBuf[j][i].at <= Window + rmSetBack

\* Not kept by the code (the window ends at the newest sample, not now):
\* the samples of a window are of the most recent seconds.
WindowIsRecent ==
  \A j \in RmJoints : rmBuf[j] # <<>> =>
    \A i \in WindowOf(j) : rmNow - rmBuf[j][i].at <= Window + rmSetBack

\* The temperature events the rules add go back to a temperature someone has
\* reported for the same joint: the loop from the log through the context to
\* the log never makes one out of the values of other events.
TempsWereReported ==
  \A i \in DOMAIN rmLog : rmLog[i].type \in TempTypes =>
    \E k \in 1..i : /\ rmLog[k].source = "reported" /\ rmLog[k].type \in TempTypes
                    /\ rmLog[k].joint = rmLog[i].joint /\ rmLog[k].value = rmLog[i].value

\* A context takes the temperature of the newest temperature event of the
\* joint in the last day, as long as the wall clock was never set back and
\* no more than the limit of other events have come after it.
NewestTempCounts ==
  rmSetBack = 0 =>
    \A j \in RmJoints : \A i \in DOMAIN rmLog :
      LET ofJoint == {k \in (i + 1)..Len(rmLog) : rmLog[k].joint = j}
      IN  /\ rmLog[i].joint = j /\ rmLog[i].type \in TempTypes
          /\ rmLog[i].ts > Wall - Day
          /\ \A k \in ofJoint : rmLog[k].type \notin TempTypes
          /\ Cardinality(ofJoint) < QueryLimit
          => ExtractTemp(Recent(j)) = rmLog[i].value

\* The score of a context knows neither tracking nor efficiency nor losses of
\* communication (context_bridge.py:102-109), so whatever happens it never
\* rises above one half: the runtime threshold 0.3 is in its reach and the
\* protection at 0.7 (robot_schema) and the deep path above 0.5 are not.
ScoreAtMostHalf == \A j \in RmJoints : rmScore[j] <= 21000

\* What a context tells of a joint comes from sensors and reports, of the time
\* it is about, and of the newest of them.
ContextIsMeasured ==
  /\ SamplesAreMeasured /\ WindowSpans
  /\ TempsWereReported /\ NewestTempCounts /\ ScoreAtMostHalf
=============================================================================
