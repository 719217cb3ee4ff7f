--------------------------- MODULE ExperimentLog ---------------------------
(***************************************************************************)
(* What the workspace of a joint promises about its experiments: a log     *)
(* whose first `durable` entries are committed.  An experiment is recorded *)
(* at the end, commits make a longer prefix durable, and a restart after a *)
(* crash may cut the log back to its durable prefix, never further.        *)
(***************************************************************************)
EXTENDS Naturals, Sequences

CONSTANT Row   \* what one experiment records

VARIABLES log, durable

Init == log = <<>> /\ durable = 0

Record == /\ \E row \in Row : log' = Append(log, row)
          /\ UNCHANGED durable

Flush == /\ durable' \in (durable + 1)..Len(log)
         /\ UNCHANGED log

Lose == /\ log' = SubSeq(log, 1, durable)
        /\ UNCHANGED durable

Next == Record \/ Flush \/ Lose
Spec == Init /\ [][Next]_<<log, durable>>
=============================================================================
