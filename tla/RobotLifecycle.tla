--------------------------- MODULE RobotLifecycle ---------------------------
(***************************************************************************)
(* RobotLifecycle: the phase of a robot in memory and its checkpoint, in   *)
(* the event store (SQLite, WAL, synchronous=NORMAL) or, without one, in a *)
(* JSON file written in place.                                             *)
(***************************************************************************)
EXTENDS Integers, Sequences, SequencesExt

CONSTANTS
  Chains,         \* chain names given to transition
  RlMaxCalls,     \* bound: calls of transition
  RlMaxProcs      \* bound: processes

ASSUME RobotLifecycleAssumption ==
  RlMaxCalls \in Nat /\ RlMaxProcs \in Nat /\ "none" \notin Chains

VARIABLES
  rlStore,    \* the event store is used (else the file)
  rlMem,      \* [phase, chain] of the process; phase "down" without one
  rlSaved,    \* checkpoints written one after the other; the last one counts
  rlTorn,     \* the file holds the beginning of a checkpoint
  rlCalls, rlProcs,
  rlRobot,    \* history: where the last transition that returned has led
  rlTried,    \* history: where calls since then that did not return would have led
  rlPower     \* history: a power loss has happened since then

rlVars == <<rlStore, rlMem, rlSaved, rlTorn, rlCalls, rlProcs, rlRobot, rlTried,
            rlPower>>
-----------------------------------------------------------------------------
Phases == {"commissioning", "runtime", "idle_tuning", "maintenance"}
Down == [phase |-> "down", chain |-> "none"]
Fresh0 == [phase |-> "commissioning", chain |-> "none"]

ValidTransitions == {
  <<"commissioning", "export_complete",  "runtime">>,
  <<"runtime",       "idle_detected",    "idle_tuning">>,
  <<"idle_tuning",   "tuning_complete",  "runtime">>,
  <<"idle_tuning",   "anomaly_detected", "maintenance">>,
  <<"maintenance",   "manual_clear",     "runtime">>,
  <<"runtime",       "recommission",     "commissioning">> }

RlInit == /\ rlStore \in BOOLEAN /\ rlMem = Down /\ rlSaved = <<>>
          /\ rlTorn = FALSE /\ rlCalls = 0 /\ rlProcs = 0
          /\ rlRobot = Fresh0 /\ rlTried = {} /\ rlPower = FALSE

\* _load_state: a file that cannot be read counts as none.
Loaded == IF rlTorn \/ rlSaved = <<>> THEN Fresh0 ELSE Last(rlSaved)

RlStart ==
  /\ rlMem = Down /\ rlProcs < RlMaxProcs
  /\ rlProcs' = rlProcs + 1
  /\ rlMem' = Loaded
  /\ UNCHANGED <<rlStore, rlSaved, rlTorn, rlCalls, rlRobot, rlTried, rlPower>>

Checkpoint_Before(s) == rlMem   \* mutant: saved before the phase is set
Checkpoint(s) == s

MayTear == ~rlStore

Entered(e, c) ==
  {[phase |-> t[3], chain |-> c] :
     t \in {t \in ValidTransitions : t[1] = rlMem.phase /\ t[2] = e}}

\* A call of transition that is valid and leads to s.
Call(e, c, s) == /\ rlCalls < RlMaxCalls /\ rlCalls' = rlCalls + 1
                 /\ s \in Entered(e, c)

\* transition: the phase in memory, then the checkpoint.
Transition(e, c, s) ==
  /\ Call(e, c, s)
  /\ rlMem' = s /\ rlRobot' = s /\ rlTried' = {} /\ rlPower' = FALSE
  /\ rlSaved' = Append(rlSaved, Checkpoint(s)) /\ rlTorn' = FALSE
  /\ UNCHANGED <<rlStore, rlProcs>>

\* The save raises (a full disk, a locked database): the phase in memory is
\* the new one already; the file may have been emptied before.
SaveRaises(e, c, s) ==
  /\ Call(e, c, s)
  /\ rlMem' = s /\ rlTried' = rlTried \cup {s}
  /\ \/ UNCHANGED rlTorn
     \/ MayTear /\ rlTorn' = TRUE
  /\ UNCHANGED <<rlStore, rlSaved, rlProcs, rlRobot, rlPower>>

\* A crash in the save: it is done or not, and a file may be torn.
CrashInSave(e, c, s) ==
  /\ Call(e, c, s)
  /\ rlMem' = Down /\ rlTried' = rlTried \cup {s}
  /\ \/ rlSaved' = Append(rlSaved, Checkpoint(s)) /\ rlTorn' = FALSE
     \/ UNCHANGED <<rlSaved, rlTorn>>
     \/ MayTear /\ rlTorn' = TRUE /\ UNCHANGED rlSaved
  /\ UNCHANGED <<rlStore, rlProcs, rlRobot, rlPower>>

RlCrash ==
  /\ rlMem # Down /\ rlMem' = Down
  /\ UNCHANGED <<rlStore, rlSaved, rlTorn, rlCalls, rlProcs, rlRobot, rlTried, rlPower>>

\* A power loss may take the newest writes, which nothing has synced.
PowerLoss ==
  /\ rlMem # Down /\ rlMem' = Down
  /\ \E k \in 0..Len(rlSaved) : rlSaved' = SubSeq(rlSaved, 1, k)
  /\ rlPower' = TRUE
  /\ UNCHANGED <<rlStore, rlTorn, rlCalls, rlProcs, rlRobot, rlTried>>

Events == {t[2] : t \in ValidTransitions}

States == [phase : Phases, chain : Chains \cup {"none"}]

RlNext ==
  \/ RlStart \/ RlCrash \/ PowerLoss
  \/ \E e \in Events, c \in Chains \cup {"none"}, s \in States :
       Transition(e, c, s) \/ SaveRaises(e, c, s) \/ CrashInSave(e, c, s)

RlSpec == RlInit /\ [][RlNext]_rlVars
-----------------------------------------------------------------------------
RlTypeOK ==
  /\ rlMem \in States \cup {Down} /\ rlRobot \in States /\ rlTried \subseteq States
  /\ \A i \in DOMAIN rlSaved : rlSaved[i] \in States
  /\ rlTorn => ~rlStore
  /\ rlCalls \in 0..RlMaxCalls /\ rlProcs \in 0..RlMaxProcs

\* A robot wakes up where the last transition that returned has led it, with
\* its chain, over any number of crashes and restarts; or where a call has led
\* it that raised or was cut off.  A torn file and a power loss are the
\* exceptions (state_machine.py:41 promises a crash-safe persistence).
WakesWhereItWas ==
  ~rlTorn /\ ~rlPower => Loaded \in {rlRobot} \cup rlTried

\* What the process believes is what the next one would load, unless a save
\* has failed or power was lost since.
CheckpointIsCurrent ==
  rlMem # Down /\ rlTried = {} /\ ~rlPower => rlMem = Loaded /\ rlMem = rlRobot

\* The phase survives its process, and the process knows it.
PhaseSurvives == WakesWhereItWas /\ CheckpointIsCurrent

\* Not kept by the code (a torn state file counts as none): a robot in
\* maintenance leaves it only by manual_clear.
MaintenanceHolds ==
  [][rlRobot.phase = "maintenance" /\ RlStart =>
       rlMem'.phase \in {"maintenance", "runtime"}]_rlVars
=============================================================================
