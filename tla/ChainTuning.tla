---------------------------- MODULE ChainTuning ----------------------------
(***************************************************************************)
(* Tuning the joints of a chain one after the other, from the root to the  *)
(* tip, for one profile (ManastoneAgent) or for all (MultiProfile-         *)
(* Commissioning).  What AutoResearch shows of the run of one joint is     *)
(* taken here as one step for each experiment: a row is appended to the    *)
(* log of the workspace, and the best row is the earliest one that scored  *)
(* most.                                                                   *)
(*                                                                         *)
(* Results are handed on in memory; only the logs survive.  An exception   *)
(* of any joint, or the end of the process, loses them, and the next job   *)
(* starts again at the root.  The LLM client and the mock runner block, so *)
(* jobs do not overlap.  Git commands that fail, rows a recovery takes     *)
(* back, and the rounding of rows are left to AutoResearch: the outcomes   *)
(* here are gains and scores that print as themselves.                     *)
(***************************************************************************)
EXTENDS Integers, Sequences, FiniteSets, SequencesExt, FiniteSetsExt

CONSTANTS
  Order,            \* get_chain_tuning_order: the joints, root first
  ProfileIds,       \* the profiles of a multi-profile job, in order
  Outcomes,         \* gains tried and their scores: [kp, score]
  CtTarget,         \* target_score
  CtMaxExperiments, \* max_experiments_per_joint
  NoRun,            \* no joint is being tuned (a model value)
  MaxJobs           \* bound: jobs started

ASSUME ChainTuningAssumption ==
  /\ Order \in Seq(ToSet(Order)) /\ Len(Order) > 0
  /\ ProfileIds \in Seq(ToSet(ProfileIds)) /\ Len(ProfileIds) > 0
  /\ IsInjective(Order) /\ IsInjective(ProfileIds)
  /\ CtMaxExperiments \in Nat \ {0} /\ MaxJobs \in Nat
  /\ Outcomes # {} /\ Outcomes \subseteq [kp : Nat, score : 0..100]

VARIABLES
  ctTodo,     \* calls of tune_chain left in the job: [robot, profile]
  ctResults,  \* joint_results of the call: a sequence, as Order
  ctRun,      \* rows of the run of a joint, or NoRun between two
  ctReports,  \* what the calls of the job returned
  ctLog,      \* results.tsv of each workspace
  ctStart,    \* tag chain_..._start: the rows there were, or -1
  ctJob       \* jobs started; rows name their job (history)

ctVars == <<ctTodo, ctResults, ctRun, ctReports, ctLog, ctStart, ctJob>>
-----------------------------------------------------------------------------
CtJoints == ToSet(Order)
Agent    == <<"robot">>            \* robot_id

\* A multi-profile job keeps the profiles apart by the name of the robot.
RobotOf(p) == Agent \o <<p>>

Robots     == {Agent} \cup {RobotOf(p) : p \in ToSet(ProfileIds)}
Workspaces == Robots \X CtJoints

CtInit == /\ ctTodo = <<>> /\ ctResults = <<>> /\ ctRun = NoRun
          /\ ctReports = <<>> /\ ctJob = 0
          /\ ctLog = [w \in Workspaces |-> <<>>]
          /\ ctStart = [w \in Workspaces |-> -1]

Call  == Head(ctTodo)
Joint == Order[Len(ctResults) + 1]
Here  == <<Call.robot, Joint>>

Start(calls) == /\ ctTodo = <<>> /\ ctJob < MaxJobs
                /\ ctTodo' = calls /\ ctJob' = ctJob + 1
                /\ ctReports' = <<>>
                /\ UNCHANGED <<ctResults, ctRun, ctLog, ctStart>>

TuneProfiles ==
  Start([i \in DOMAIN ProfileIds |->
           [robot |-> RobotOf(ProfileIds[i]), profile |-> ProfileIds[i]]])

\* chain_tune of the agent: the profile does not show in the workspace.
TuneAgent(p) == Start(<<[robot |-> Agent, profile |-> p]>>)

\* tag_chain_start takes a tag of the same name away first.
Tagged(w) == Len(ctLog[w])

OpenJoint == /\ ctTodo # <<>> /\ ctRun = NoRun /\ Len(ctResults) < Len(Order)
             /\ ctRun' = <<>>
             /\ ctStart' = [ctStart EXCEPT ![Here] = Tagged(Here)]
             /\ UNCHANGED <<ctTodo, ctResults, ctReports, ctLog, ctJob>>

\* The rows the loop keeps are those that beat all before; the last one wins.
BestOf(rows) == rows[Min({i \in DOMAIN rows :
                            \A j \in DOMAIN rows : rows[j].score <= rows[i].score})]

ResultOf(rows) == [kp |-> BestOf(rows).kp, score |-> BestOf(rows).score,
                   count |-> Len(rows)]

Enough(rows) == \/ Len(rows) = CtMaxExperiments
                \/ rows # <<>> /\ BestOf(rows).score >= CtTarget

Row(o) == [kp |-> o.kp, score |-> o.score, profile |-> Call.profile,
           job |-> ctJob, context |-> ctResults]

\* One experiment; the last one ends the run of the joint.
Experiment(o) ==
  /\ ctRun # NoRun
  /\ ctLog' = [ctLog EXCEPT ![Here] = Append(@, Row(o))]
  /\ LET rows == Append(ctRun, Row(o))
     IN  IF Enough(rows)
         THEN /\ ctResults' = Append(ctResults, ResultOf(rows))
              /\ ctRun' = NoRun
         ELSE ctRun' = rows /\ UNCHANGED ctResults
  /\ UNCHANGED <<ctTodo, ctReports, ctStart, ctJob>>

-----------------------------------------------------------------------------
(* The score of a chain, as a fraction num/of.                             *)

\* Neighbours whose gains differ by more than half cost five points.
Apart(r, s) == /\ r.kp > 0 /\ s.kp > 0
               /\ 2 * Max({r.kp, s.kp}) > 3 * Min({r.kp, s.kp})

MockChecks(rs) ==
  Max({0, 80 - 5 * Cardinality({i \in 1..(Len(rs) - 1) : Apart(rs[i], rs[i + 1])})})

\* From 0.3 at the root down to 0.05 at the tip.
Weight(rs, i) == LET d == Max({Len(rs) - 1, 1}) IN 6 * d - 5 * (i - 1)

Total(s) ==
  LET sum[i \in 0..Len(s)] == IF i = 0 THEN 0 ELSE sum[i - 1] + s[i]
  IN  sum[Len(s)]

TotalWeight(rs) == Total([i \in DOMAIN rs |-> Weight(rs, i)])

ChainScore(rs) ==
  [of  |-> 5 * TotalWeight(rs),
   num |-> Min({500 * TotalWeight(rs),
                2 * MockChecks(rs) * TotalWeight(rs)
                + 3 * Total([i \in DOMAIN rs |-> Weight(rs, i) * rs[i].score])})]

SumCounts(rs) == Total([i \in DOMAIN rs |-> rs[i].count])

\* Chain-level validation and the result of the call.
CloseChain ==
  /\ ctTodo # <<>> /\ ctRun = NoRun /\ Len(ctResults) = Len(Order)
  /\ ctReports' = Append(ctReports,
       [call |-> Call, results |-> ctResults, score |-> ChainScore(ctResults),
        total |-> SumCounts(ctResults)])
  /\ ctTodo' = Tail(ctTodo) /\ ctResults' = <<>>
  /\ UNCHANGED <<ctRun, ctLog, ctStart, ctJob>>

Abort_KeepsResult ==   \* mutant: a run cut off counts as one that ended
  /\ ctRun # NoRun /\ Len(ctRun) > 0 /\ ctRun' = NoRun
  /\ ctResults' = Append(ctResults, ResultOf(ctRun))
  /\ UNCHANGED <<ctTodo, ctReports, ctLog, ctStart, ctJob>>
\* An exception of a workspace, a runner or the LLM, or the end of the
\* process; nothing of the job but its rows is left, and a call that had
\* returned is lost with the others.
Abort == /\ ctTodo # <<>>
         /\ ctTodo' = <<>> /\ ctResults' = <<>> /\ ctRun' = NoRun
         /\ ctReports' = <<>>
         /\ UNCHANGED <<ctLog, ctStart, ctJob>>

CtNext == \/ TuneProfiles \/ \E p \in ToSet(ProfileIds) : TuneAgent(p)
          \/ OpenJoint \/ \E o \in Outcomes : Experiment(o)
          \/ CloseChain \/ Abort

CtSpec == CtInit /\ [][CtNext]_ctVars
-----------------------------------------------------------------------------
(* Properties                                                              *)

Results == [kp : Nat, score : 0..100, count : 1..CtMaxExperiments]
Rows    == [kp : Nat, score : 0..100, profile : ToSet(ProfileIds), job : Nat,
            context : Seq(Results)]

ASSUME NoRunAssumption == NoRun \notin Seq(Rows)

CtTypeOK ==
  /\ \A i \in DOMAIN ctTodo :
       ctTodo[i].robot \in Robots /\ ctTodo[i].profile \in ToSet(ProfileIds)
  /\ ctResults \in Seq(Results) /\ Len(ctResults) <= Len(Order)
  /\ ctRun # NoRun => Len(ctRun) < CtMaxExperiments
  /\ \A w \in Workspaces : ctStart[w] \in -1..Len(ctLog[w])
  /\ ctJob \in 0..MaxJobs

\* The rows job k has left in a log: they follow those of earlier jobs.
Before(log, k) == Cardinality({i \in DOMAIN log : log[i].job < k})
RowsOf(log, k) == SubSeq(log, Before(log, k) + 1, Before(log, k + 1))

JobsInOrder(log) == \A i, j \in DOMAIN log : i <= j => log[i].job <= log[j].job

\* Each joint was tuned knowing the joints above it, as the comment in
\* chain_orchestrator.py:50 has it: an experiment was told one result for
\* each of them, and this is the earliest best row that a whole run of the
\* same job has left in the log of that joint, whatever runs, profiles and
\* failed jobs have written there before.
TunedInOrder ==
  \A r \in Robots : \A i \in DOMAIN Order :
    \A row \in ToSet(ctLog[<<r, Order[i]>>]) :
      /\ Len(row.context) = i - 1
      /\ \A m \in 1..(i - 1) :
           LET rows == RowsOf(ctLog[<<r, Order[m]>>], row.job)
           IN  rows # <<>> /\ Enough(rows) /\ row.context[m] = ResultOf(rows)

\* A log of a multi-profile job holds scores of one profile, which is what
\* makes the best of them comparable.  (Those of the agent do not.)
OneProfilePerLog ==
  \A p \in ToSet(ProfileIds), j \in CtJoints :
    \A row \in ToSet(ctLog[<<RobotOf(p), j>>]) : row.profile = p

\* The rows of a job follow each other, and the start tag of a joint parts
\* those of its last run from all earlier.
TagPartsRuns ==
  \A w \in Workspaces :
    /\ JobsInOrder(ctLog[w])
    /\ \A i, j \in DOMAIN ctLog[w] : j > ctStart[w] =>
         /\ ctLog[w][j].job = ctLog[w][Len(ctLog[w])].job
         /\ i <= ctStart[w] => ctLog[w][i].job < ctLog[w][j].job

\* What a call returns is in the logs, and the score of its chain lies where
\* an average of the joints belongs: three fifths of their scores and two of
\* the checks, so at most 92 (test_chain_score_computed
\* asks for 0 to 100).
ReportsAreLogged ==
  \A k \in DOMAIN ctReports :
    LET rep == ctReports[k]
        rs  == rep.results
        scores == {rs[i].score : i \in DOMAIN rs}
    IN  /\ \A i \in DOMAIN Order :
             rs[i] = ResultOf(RowsOf(ctLog[<<rep.call.robot, Order[i]>>], ctJob))
        /\ 5 * rep.score.num <= rep.score.of * (160 + 3 * Max(scores))
        /\ 5 * rep.score.num >=
             rep.score.of * (2 * MockChecks(rs) + 3 * Min(scores))

\* A chain is tuned as its result and its logs tell.
ChainHolds ==
  TunedInOrder /\ OneProfilePerLog /\ TagPartsRuns /\ ReportsAreLogged
=============================================================================
