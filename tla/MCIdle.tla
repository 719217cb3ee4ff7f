------------------------------- MODULE MCIdle -------------------------------
(***************************************************************************)
(* Small instances, for TLC, of idle tuning and of the predictor it trains *)
(* in the background.  The sessions only hand the flywheel their number,   *)
(* and it hands them a predictor that IdleTuning takes any answer of, so   *)
(* the two are explored one after the other, as in MCAgent.                *)
(*                                                                         *)
(* A leg needs five joints for its score to fall low enough for a rollback.*)
(***************************************************************************)
EXTENDS IdleTuning, Flywheel, TLC

CONSTANTS leg, waist, Parts
VARIABLE part

BothChains == {leg, waist}
SmallDeltas == {-40}
LegAndWaist == (leg :> 5) @@ (waist :> 1)

\* The type invariants of both.
TypesOK == TypeOK /\ FwTypeOK

\* The sessions are the same whichever libraries there are.
MCInit == /\ part \in Parts /\ Init /\ FwInit
          /\ part = "sessions" => libs = Libraries

MCNext ==
  /\ UNCHANGED part
  /\ \/ part = "sessions" /\ Next   /\ UNCHANGED fwVars
     \/ part = "flywheel" /\ FwNext /\ UNCHANGED vars
=============================================================================
