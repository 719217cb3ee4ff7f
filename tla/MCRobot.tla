------------------------------- MODULE MCRobot -------------------------------
(***************************************************************************)
(* Small instances of the parts that keep the state of one robot, for TLC: *)
(* its gains, its profile repositories, its phase, the schedule of its     *)
(* sessions, its monitor, and the knowledge it shares.  As in MCAgent, no  *)
(* variable of one part occurs in another: `part` chooses the part that    *)
(* moves, and the others stay as they began.                               *)
(***************************************************************************)
EXTENDS SafetyPipeline, LifecycleRepo, RuntimeMonitor, RobotLifecycle,
        TuningSchedule, ProfileSwitch, KnowledgeBase

CONSTANT Parts
VARIABLE part

SmallDeltas == {-300, 6, 30}
StartGains  == {NoGain, 0, 50, 500, 4900, 6000}
TwoProfiles == <<"collision_safe", "energy_saver">>

\* The type invariants of the parts.
TypesOK ==
  /\ TypeOK /\ LrTypeOK /\ RmTypeOK /\ RlTypeOK /\ TsTypeOK /\ PsTypeOK
  /\ KbTypeOK

\* A part that does not move has one initial state only.
MCInit ==
  /\ part \in Parts
  /\ Init /\ LrInit /\ RmInit /\ RlInit /\ TsInit /\ PsInit /\ KbInit
  /\ part = "gains"   \/ gain = [j \in Joints |-> 500]
  /\ part = "monitor" \/ ~rmBest
  /\ part = "phase"   \/ ~rlStore
  /\ part = "profile" \/ psGit = "absent"

Gains_      == part = "gains"    /\ Next
Repo_       == part = "repo"     /\ LrNext
Monitor_    == part = "monitor"  /\ RmNext
Phase_      == part = "phase"    /\ RlNext
Schedule_   == part = "schedule" /\ TsNext
Profile_    == part = "profile"  /\ PsNext
Knowledge_  == part = "knowledge" /\ KbNext

MCNext ==
  /\ UNCHANGED part
  /\ \/ Gains_ /\ UNCHANGED <<lrVars, rmVars, rlVars, tsVars, psVars, kbVars>>
     \/ Repo_ /\ UNCHANGED <<vars, rmVars, rlVars, tsVars, psVars, kbVars>>
     \/ Monitor_ /\ UNCHANGED <<vars, lrVars, rlVars, tsVars, psVars, kbVars>>
     \/ Phase_ /\ UNCHANGED <<vars, lrVars, rmVars, tsVars, psVars, kbVars>>
     \/ Schedule_ /\ UNCHANGED <<vars, lrVars, rmVars, rlVars, psVars, kbVars>>
     \/ Profile_ /\ UNCHANGED <<vars, lrVars, rmVars, rlVars, tsVars, kbVars>>
     \/ Knowledge_ /\ UNCHANGED <<vars, lrVars, rmVars, rlVars, tsVars, psVars>>
=============================================================================
