--------------------------- MODULE SafetyPipeline ---------------------------
(***************************************************************************)
(* The gains of a chain under a long sequence of the two ways the runtime  *)
(* may change them: SafetyGuard.apply_chain_constraints on what a model or *)
(* an LLM suggests for some joints, and RuntimePredictor.suggest's nudges. *)
(* Writing the result to the joints is the caller's part (external).       *)
(***************************************************************************)
EXTENDS PIDParams

CONSTANTS
  Joints,
  Lo, Hi,         \* static bounds of the gain
  MaxChange,      \* max_change_pct of the chain constraints
  MaxNudge,       \* max_change_pct of the runtime predictor
  Suggestions,    \* gains suggested for a joint
  Deltas,         \* deltas predicted at run time, in percent
  Anomalies,      \* anomaly scores, in percent
  Start,          \* gains the joints may start with, also NoGain
  Nudges          \* bound: nudges

ASSUME SafetyPipelineAssumption ==
  /\ Lo \in Nat /\ Hi \in Nat /\ Lo <= Hi
  /\ MaxChange \in 0..100 /\ MaxNudge \in 0..100
  /\ Suggestions \subseteq Nat /\ Deltas \subseteq Int
  /\ Anomalies \subseteq 0..100 /\ Nudges \in Nat
  /\ Start \subseteq Nat \cup {NoGain}

VARIABLES
  gain,    \* gain[j]: last_params of the joint
  nudges,  \* nudges since the last constrained write of every joint
  stray    \* history: joints that started outside their bounds or were
           \* nudged, and had no constrained write since in a calm state (or
           \* as their first)

vars == <<gain, nudges, stray>>
-----------------------------------------------------------------------------
Init == /\ gain \in [Joints -> Start]
        /\ nudges = 0
        /\ stray = {j \in Joints : gain[j] \notin Lo..Hi}

\* Joints without a suggestion are left out.
ConstrainedWrite ==
  \E J \in SUBSET Joints : \E s \in [J -> Suggestions], a \in [J -> Anomalies] :
    /\ gain' = [j \in Joints |->
         IF j \in J
           THEN Constrain(s[j], gain[j], a[j], MaxChange, Lo, Hi)
           ELSE gain[j]]
    /\ nudges' = IF J = Joints THEN 0 ELSE nudges
    /\ stray' = stray \ {j \in J : a[j] <= 70 \/ gain[j] = NoGain}

\* suggest: from 30 % anomaly on, half the predicted delta, and no clip to
\* the static bounds; nothing where no gain is known.
Nudge(j) ==
  /\ nudges < Nudges /\ gain[j] # NoGain
  /\ \E a \in Anomalies, d \in Deltas :
       /\ a >= 30
       /\ gain' = [gain EXCEPT ![j] = ApplyDelta(@, d \div 2, MaxNudge)]
  /\ nudges' = nudges + 1
  /\ stray' = stray \cup {j}

Next == ConstrainedWrite \/ \E j \in Joints : Nudge(j)

Spec == Init /\ [][Next]_vars
-----------------------------------------------------------------------------
(* Properties                                                              *)

TypeOK == /\ gain \in [Joints -> Nat \cup {NoGain}]
          /\ nudges \in 0..Nudges
          /\ stray \subseteq Joints

\* Only nudges, and the gains a joint starts with, are outside the static
\* bounds: constrained writes keep a gain inside, in anomalous states too,
\* where the last step could undo the clip, and one of them in a calm state, or
\* where no gain was known, brings a gain back, from 0 as well, which no fraction of it changes.
ConstrainedInBounds == \A j \in Joints \ stray : gain[j] \in Lo..Hi

\* No step changes a gain inside the bounds by more than the larger of the
\* two limits (and one unit of rounding): a clip never throws a gain far.
Limit == GreatestOf(MaxChange, MaxNudge)
ChangeLimited ==
  [][\A j \in Joints :
       gain[j] \in Lo..Hi =>
         /\ gain'[j] <= Percent(gain[j], Limit)
         /\ gain'[j] >= Percent(gain[j], -Limit)]_vars

\* safety.py:209 promises of anomalous joints that only decreases are allowed;
\* this holds even of a joint whose gain is below its bounds, where the clip
\* alone would raise it.
AnomalousNeverRises ==
  \A j \in Joints : \A s \in Suggestions, a \in Anomalies :
    a > 70 /\ gain[j] # NoGain =>
      Constrain(s, gain[j], a, MaxChange, Lo, Hi) <= gain[j]

\* The guard as a whole: bounds and anomalies at once, though each of its
\* steps undoes a part of what another ensures.
GuardHolds == ConstrainedInBounds /\ AnomalousNeverRises
=============================================================================
