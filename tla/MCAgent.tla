------------------------------- MODULE MCAgent -------------------------------
(***************************************************************************)
(* Small instances of the parts of one agent for TLC: the command gate,    *)
(* its memory with the observer, the memory files, the token limits, and   *)
(* the tuning jobs it starts.                                              *)
(* No variable of one part occurs in another, so a behaviour of the agent  *)
(* restricted to the variables of a part is one of that part alone, and    *)
(* TLC explores the parts one after the other: `part` is chosen at first   *)
(* and the other parts stay as they began.                                 *)
(***************************************************************************)
EXTENDS ConfirmGate, AgentMemory, MemDir, LLMBudget, ChainTuning

CONSTANT Parts
VARIABLE part

LegOrder   == <<"hip", "knee">>
TwoIds     == <<"classic_precision", "energy_saver">>
LowAndHigh == {[kp |-> 10, score |-> 40], [kp |-> 20, score |-> 90]}

\* The type invariants of the parts.
TypesOK == TypeOK /\ AmTypeOK /\ MdTypeOK /\ LbTypeOK /\ CtTypeOK

MCInit ==
  part \in Parts /\ Init /\ AmInit /\ MdInit /\ LbInit /\ CtInit

MCNext ==
  /\ UNCHANGED part
  /\ \/ /\ part = "gate" /\ Next
        /\ UNCHANGED <<amVars, mdVars, lbVars, ctVars>>
     \/ /\ part = "memory" /\ AmNext
        /\ UNCHANGED <<vars, mdVars, lbVars, ctVars>>
     \/ /\ part = "memdir" /\ MdNext
        /\ UNCHANGED <<vars, amVars, lbVars, ctVars>>
     \/ /\ part = "budget" /\ LbNext
        /\ UNCHANGED <<vars, amVars, mdVars, ctVars>>
     \/ /\ part = "chain" /\ CtNext
        /\ UNCHANGED <<vars, amVars, mdVars, lbVars>>
=============================================================================
