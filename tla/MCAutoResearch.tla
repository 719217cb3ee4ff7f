--------------------------- MODULE MCAutoResearch ---------------------------
(* Small instances of AutoResearch for TLC.                                *)
EXTENDS AutoResearch

\* The gains inside the bounds and one proposal on each side of them.
MCRawGains == (GainLo - 1)..(GainHi + 1)

\* The best score and the one below it print alike, as 71.001 and 71.004 do;
\* so do all gains above the lower bound.
MCPrintedScore == [s \in 0..MaxScore |-> IF s = MaxScore /\ s > 1 THEN s - 1 ELSE s]
MCPrintedPid   == [g \in GainLo..GainHi |-> IF g = GainLo THEN g ELSE GainHi]
=============================================================================
