---------------------------- MODULE ProfileSwitch ----------------------------
(***************************************************************************)
(* Switching the tuning profile of a robot: the rules that choose one      *)
(* (ProfileSwitchController.evaluate and should_switch), execute_switch,   *)
(* which checks out the branch, gives the gains to the parameter writer    *)
(* and emits an event, and LifecycleRepository, the Git repository with a  *)
(* branch for each profile and, committed by nobody, the best_params.yaml  *)
(* of each.  Every step of a switch may fail: the checkout unnoticed, the  *)
(* others with an exception that ends the switch.                          *)
(***************************************************************************)
EXTENDS Integers, Sequences

CONSTANTS
  Ranked,        \* the profiles as list_compatible gives them
  EnergySaver,   \* "energy_saver"
  CollisionSafe, \* "collision_safe", which need not be one of them
  PsVersions     \* versions of the gains of a profile

PsProfiles == {Ranked[i] : i \in DOMAIN Ranked}

ASSUME ProfileSwitchAssumption ==
  /\ Ranked \in Seq(PsProfiles) /\ EnergySaver \in PsProfiles
  /\ PsVersions \cap {"none", "empty", "torn"} = {}

VARIABLES
  psGit,       \* "unavailable", "absent", "unborn" (no first commit), "born"
  psBranches,  \* branches of profiles that exist
  psHead,      \* the branch checked out, "main" at first
  psBest,      \* best_params.yaml of each profile: its version, "none",
               \* "empty" (no gains in it), "torn" (it cannot be read)
  psApplied,   \* what the parameter writer has given the robot last
  psEvent,     \* the profile of the last profile_switched event
  psTold,      \* history: profile and gains of the last event whose profile
               \* had gains
  psCut        \* history: since then a switch has ended between its call of
               \* the writer and its event

psVars == <<psGit, psBranches, psHead, psBest, psApplied, psEvent, psTold, psCut>>
-----------------------------------------------------------------------------
None == "none"
Nothing == [profile |-> None, gains |-> None]

PsInit ==
  /\ psGit \in {"unavailable", "absent"} /\ psBranches = {} /\ psHead = "main"
  /\ psBest = [p \in PsProfiles |-> None]
  /\ psApplied = Nothing /\ psTold = Nothing /\ psEvent = None /\ psCut = FALSE

\* init: git init and an empty first commit.  A crash or a failing commit
\* between them leaves a repository that every later init takes as it is.
RepoInit(reaches) ==
  /\ psGit = "absent"
  /\ psGit' = IF reaches THEN "born" ELSE "unborn"
  /\ UNCHANGED <<psBranches, psHead, psBest, psApplied, psEvent, psTold, psCut>>

HasRepo == psGit \in {"unborn", "born"}

\* create_profile_branch after init: git branch --list tells between checkout
\* -b and checkout.  Each of them may fail, which nobody looks at, or take 30
\* seconds and raise, its work done or not.  Without a first commit there is
\* nothing to branch from, though HEAD moves.
CreateBranch(p) ==
  /\ HasRepo
  /\ psBranches' \in {psBranches} \cup
       (IF psGit = "born" THEN {psBranches \cup {p}} ELSE {})
  /\ psHead' \in {psHead} \cup
       (IF psGit = "born" THEN psBranches' \cap {p} ELSE {p})
  /\ UNCHANGED <<psGit, psBest, psApplied, psEvent, psTold, psCut>>

\* write_best_params; a crash or an error within leaves the file without
\* gains, with a text that cannot be read, or with the gains of some joints,
\* which is one more version.
WriteBest(p, v) ==
  /\ psBest' = [psBest EXCEPT ![p] = v]
  /\ UNCHANGED <<psGit, psBranches, psHead, psApplied, psEvent, psTold, psCut>>

\* get_best_params reads the directory of the profile, on whatever branch.
Gains(p) == IF psBest[p] = "empty" THEN None ELSE psBest[p]

EmitsAfterWriter_Always(returns) == TRUE   \* mutant: the event in a finally
EmitsAfterWriter(returns) == returns

(***************************************************************************)
(* execute_switch with repository, writer and stream.                      *)
(***************************************************************************)
\* git checkout, whose result nobody looks at.
Checkout(p) ==
  psHead' \in {psHead} \cup (IF psGit = "born" THEN psBranches \cap {p} ELSE {})

OwnGains(p) == [profile |-> p, gains |-> Gains(p)]

\* The writer, which may raise before or after it has given the robot its
\* gains, and is not called without gains.
Writes(p, returns) ==
  psApplied' \in IF Gains(p) = None THEN {psApplied}
                 ELSE IF returns THEN {OwnGains(p)} ELSE {psApplied, OwnGains(p)}

Emits(p, really) ==
  /\ psEvent' = IF really THEN p ELSE psEvent
  /\ psTold'  = IF really /\ Gains(p) # None THEN OwnGains(p) ELSE psTold
  /\ psCut'   = IF Gains(p) # None THEN ~really ELSE psCut

SwitchTo(p, returns) ==
  /\ Checkout(p) /\ Gains(p) # "torn"
  /\ Writes(p, returns) /\ Emits(p, Gains(p) = None \/ EmitsAfterWriter(returns))
  /\ UNCHANGED <<psGit, psBranches, psBest>>

\* The checkout takes 30 seconds, or the file cannot be read.
SwitchRaises(p) ==
  /\ HasRepo \/ Gains(p) = "torn"
  /\ Checkout(p)
  /\ UNCHANGED <<psGit, psBranches, psBest, psApplied, psEvent, psTold, psCut>>

\* The process ends, or the stream raises, after the writer and before the
\* event.
SwitchCutOff(p) ==
  /\ Checkout(p) /\ Gains(p) \in PsVersions
  /\ psApplied' = OwnGains(p) /\ psCut' = TRUE
  /\ UNCHANGED <<psGit, psBranches, psBest, psEvent, psTold>>

(***************************************************************************)
(* should_switch                                                           *)
(***************************************************************************)
Contexts == [required : PsProfiles \cup {None}, longIdle : BOOLEAN, poor : BOOLEAN]

\* The first of the other profiles, if there is one.
FirstOther(available, current) ==
  LET others == {i \in DOMAIN available : available[i] # current}
  IN  IF others = {} THEN None
      ELSE available[CHOOSE i \in others : \A k \in others : i <= k]

ShouldSwitch(current, ctx) ==
  IF ctx.required # None /\ ctx.required # current THEN ctx.required
  ELSE IF ctx.longIdle /\ current # EnergySaver THEN EnergySaver
  ELSE IF ctx.poor THEN FirstOther(Ranked, current)
  ELSE None

\* evaluate: the strategy asks for a switch when its score is known and on the
\* wrong side of its threshold, and there is a profile to switch to.
EvaluateStrategy(strategy, available, current, wrongSide) ==
  CASE strategy = "score_based" /\ wrongSide -> FirstOther(available, current)
    [] strategy = "anomaly_based" /\ wrongSide /\ CollisionSafe # current
         /\ \E i \in DOMAIN available : available[i] = CollisionSafe -> CollisionSafe
    [] OTHER -> None

\* The caller takes the profile of the last event for the current one.
Decided(ctx) == ShouldSwitch(psEvent, ctx)

AutoSwitch(ctx, returns) ==
  Decided(ctx) # None /\ SwitchTo(Decided(ctx), returns)

EvaluatedSwitch(strategy, wrongSide, returns) ==
  LET target == EvaluateStrategy(strategy, Ranked, psEvent, wrongSide)
  IN  target # None /\ SwitchTo(target, returns)

PsNext ==
  \/ \E reaches \in BOOLEAN : RepoInit(reaches)
  \/ \E p \in PsProfiles : CreateBranch(p) \/ SwitchRaises(p) \/ SwitchCutOff(p)
  \/ \E p \in PsProfiles, v \in PsVersions \cup {"empty", "torn"} : WriteBest(p, v)
  \/ \E p \in PsProfiles, returns \in BOOLEAN : SwitchTo(p, returns)
  \/ \E ctx \in Contexts, returns \in BOOLEAN : AutoSwitch(ctx, returns)
  \/ \E strategy \in {"manual", "score_based", "anomaly_based"},
        wrongSide, returns \in BOOLEAN : EvaluatedSwitch(strategy, wrongSide, returns)

PsSpec == PsInit /\ [][PsNext]_psVars
-----------------------------------------------------------------------------
Given == [profile : PsProfiles, gains : PsVersions]

PsTypeOK ==
  /\ psGit \in {"unavailable", "absent", "unborn", "born"}
  /\ psBranches \subseteq PsProfiles /\ psHead \in PsProfiles \cup {"main"}
  /\ psGit # "unborn" => psHead \in psBranches \cup {"main"}
  /\ psBest \in [PsProfiles -> PsVersions \cup {None, "empty", "torn"}]
  /\ psApplied \in Given \cup {Nothing} /\ psTold \in Given \cup {Nothing}
  /\ psEvent \in PsProfiles \cup {None} /\ psCut \in BOOLEAN

\* The stream tells which gains the robot runs with: those of the last event
\* whose profile had gains, unless a switch has since ended between its call of
\* the writer and its event (switching.py:122-135).  Switches that fail before
\* the writer do not matter, nor do those to a profile without gains, nor do
\* checkouts that fail and leave another branch; and the next event with gains
\* is right again.
SwitchIsTold == ~psCut => psApplied = psTold

\* Not kept by the code (the rules for idle and poor quality come next): a
\* robot switched to the profile a task requires is not told to leave it while
\* the task goes on.
RequiredIsKept ==
  \A ctx \in Contexts : ctx.required = psEvent => Decided(ctx) = None

\* Not kept by the code (a profile without gains keeps those of the one before;
\* switching.py:125): the robot runs with gains of the profile announced last.
EventTellsGains == ~psCut /\ psEvent # None => psApplied.profile = psEvent

\* Not kept by the code (lifecycle_repo.py:178: the result of the checkout is
\* not looked at): the branch checked out is that of the profile announced
\* last.  Nobody commits to these branches, and no gains are read from them.
EventTellsBranch == psEvent # None => psHead = psEvent
=============================================================================
