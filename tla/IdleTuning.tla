----------------------------- MODULE IdleTuning -----------------------------
(***************************************************************************)
(* IdleTuningLoop.run_once with the ParamWriter and the SessionStore: the  *)
(* chain with the highest anomaly gets new gains, the chain score decides  *)
(* whether they stay, and the session goes to a file.                      *)
(*                                                                         *)
(* run_once does not suspend before the session is saved (the LLM client   *)
(* blocks), and core_server calls it every 10 s, so its steps up to there  *)
(* are one action, and sessions are stored in the order of their file      *)
(* names.  What follows, the training, is module Flywheel.                 *)
(*                                                                         *)
(* One gain per joint (kp, hundredths); anomalies and deltas in percent.   *)
(***************************************************************************)
EXTENDS PIDParams, Sequences, FiniteSets

CONSTANTS
  Chains, Length,   \* chain_tuning_order: Length[c] joints of chain c
  ContextGain,      \* the gain _build_mock_chain_context takes for current
  Lo, Hi,           \* kp_range of the safety bounds
  Threshold,        \* anomaly_threshold
  Anomalies,        \* anomaly scores the provider may give
  LlmGains,         \* gains an LLM may answer
  Deltas,           \* deltas the predictor may predict
  MaxStep,          \* max_change_pct
  QueryLimit,       \* limit of query_by_chain
  MaxSessions       \* bound: session files

ASSUME IdleTuningAssumption ==
  /\ Length \in [Chains -> Nat \ {0}]
  /\ Lo \in Nat /\ Hi \in Nat /\ ContextGain \in Lo..Hi
  /\ Anomalies \subseteq 0..100 /\ Threshold \in 0..100
  /\ LlmGains \subseteq Nat /\ Deltas \subseteq Int /\ MaxStep \in 0..100
  /\ QueryLimit \in Nat \ {0} /\ MaxSessions \in Nat

VARIABLES
  applied,   \* applied[c]: gains the writer holds for the joints of c
  sessions,  \* the session files, oldest first
  unsaved    \* chains whose last write has no session file: save raised

vars == <<applied, sessions, unsaved>>
-----------------------------------------------------------------------------
Joints(c)   == 1..Length[c]
Unwritten   == <<>>
Context(c)  == [j \in Joints(c) |-> ContextGain]   \* last_params of every joint
Outcomes    == {"improved", "neutral", "rollback", "torn"}

\* _apply_safety: max(low, min(high, gain)) for every joint of the chain.
Clamp_NoCeiling(g) == GreatestOf(Lo, g)   \* mutant
Clamp(g) == Clip(g, Lo, Hi)

\* _dual_path_inference.  The fast path asks a trained and confident
\* predictor (any deltas here; module Flywheel tells when it is confident),
\* and takes chains of at most 50 % anomaly; the LLM answers any gain for a
\* joint, or leaves the joint, or the chain, as it is.
FastPath(c) ==
  {[j \in Joints(c) |-> ApplyDelta(ContextGain, d[j], MaxStep)] :
     d \in [Joints(c) -> Deltas]}
DeepPath(c) == [Joints(c) -> LlmGains \cup {ContextGain}]
Suggested(c, a) == DeepPath(c) \cup (IF a <= 50 THEN FastPath(c) ELSE {})

\* ChainScorer._mock_score: 80 less 5 for each pair of neighbours whose kp
\* differ by more than a factor of 1.5, then 40 % of it and 60 % of the
\* joints' own score; tenths of a point.
Uneven(g, j) == /\ g[j] > 0 /\ g[j + 1] > 0
                /\ 2 * GreatestOf(g[j], g[j + 1]) > 3 * LeastOf(g[j], g[j + 1])
Checks(c, g) == 80 - 5 * Cardinality({j \in 1..(Length[c] - 1) : Uneven(g, j)})
ChainScore(c, g, a) ==
  LeastOf(1000, 4 * GreatestOf(0, Checks(c, g)) + 6 * (100 - a))

\* run_once, 8: against the score of a chain whose anomaly stays.
Baseline(a) == 10 * (100 - a)
Outcome(c, g, a) ==
  CASE 100 * ChainScore(c, g, a) < 95 * Baseline(a) -> "rollback"
    [] ChainScore(c, g, a) > Baseline(a)            -> "improved"
    [] OTHER                                        -> "neutral"
-----------------------------------------------------------------------------
Init == /\ applied = [c \in Chains |-> Unwritten]
        /\ sessions = <<>>
        /\ unsaved = {}

\* _select_chain
Eligible(anomaly) ==
  {c \in Chains : /\ anomaly[c] > Threshold
                  /\ \A d \in Chains : anomaly[d] <= anomaly[c]}

\* What the writer holds after the outcome: rollback_chain is given the
\* last_params of the context.
Kept(c, g, outcome) == IF outcome = "rollback" THEN Context(c) ELSE g

Session(c, g, outcome) == [chain |-> c, params |-> g, outcome |-> outcome]

\* Clamp, write, validate, roll back, save.  When save raises the writer
\* keeps what it holds, and the file is missing or torn.
Tune(c, g, a) ==
  LET safe    == [j \in Joints(c) |-> Clamp(g[j])]
      outcome == Outcome(c, safe, a)
  IN  /\ applied' = [applied EXCEPT ![c] = Kept(c, safe, outcome)]
      /\ \/ /\ sessions' = Append(sessions, Session(c, safe, outcome))
            /\ unsaved' = unsaved \ {c}
         \/ /\ sessions' \in
                 {sessions, Append(sessions, Session(c, Unwritten, "torn"))}
            /\ unsaved' = unsaved \cup {c}

RunOnce ==
  /\ Len(sessions) < MaxSessions
  /\ \E anomaly \in [Chains -> Anomalies] : \E c \in Eligible(anomaly) :
       \E g \in Suggested(c, anomaly[c]) : Tune(c, g, anomaly[c])

\* get_last_good_params: the newest of the last QueryLimit files of the
\* chain, those that cannot be read included, that was not rolled back.
Own_AnyChain(c) == DOMAIN sessions   \* mutant: *.json
Own(c)    == {k \in DOMAIN sessions : sessions[k].chain = c}
Recent(c) == {k \in Own(c) :
                Cardinality({j \in Own(c) : j > k}) < QueryLimit}
Good_Any(c) == Recent(c)   \* mutant: the outcome is not looked at
Good(c)   == {k \in Recent(c) : sessions[k].outcome \in {"improved", "neutral"}}
IsLastGood(c, k) == k \in Good(c) /\ \A j \in Good(c) : j <= k

\* The operator writes the last good gains by hand.
ManualRollback(c) ==
  \E k \in DOMAIN sessions :
    /\ IsLastGood(c, k)
    /\ applied' = [applied EXCEPT ![c] = sessions[k].params]
    /\ unsaved' = unsaved \ {c}
    /\ UNCHANGED sessions

\* The process ends between two runs: the writer is in memory.
Restart == /\ applied' = [c \in Chains |-> Unwritten]
           /\ unsaved' = {}
           /\ UNCHANGED sessions

Next == RunOnce \/ Restart \/ \E c \in Chains : ManualRollback(c)

Spec == Init /\ [][Next]_vars
-----------------------------------------------------------------------------
(* Properties                                                              *)

GainsOf(c) == [Joints(c) -> Nat]

\* The gains held and stored are gains of the chain they are filed under.
TypeOK ==
  /\ DOMAIN applied = Chains
  /\ \A c \in Chains : applied[c] \in GainsOf(c) \cup {Unwritten}
  /\ unsaved \subseteq Chains
  /\ Len(sessions) <= MaxSessions
  /\ \A k \in DOMAIN sessions :
       /\ sessions[k].chain \in Chains /\ sessions[k].outcome \in Outcomes
       /\ sessions[k].params \in GainsOf(sessions[k].chain) \cup {Unwritten}

\* Whatever the LLM answered or the predictor predicted, and after any number
\* of runs, rollbacks and manual restores, the joints hold gains inside the
\* safety bounds.
AppliedInBounds ==
  \A c \in Chains : \A j \in DOMAIN applied[c] : applied[c][j] \in Lo..Hi

\* Rejected gains never stay, and what the robot holds can be read back from
\* the files: unless saving failed, a chain holds the context gains or those
\* of its newest accepted session, by whatever runs, restarts and manual
\* restores it came there.
Accepted(c) == {k \in DOMAIN sessions :
                  /\ sessions[k].chain = c
                  /\ sessions[k].outcome \in {"improved", "neutral"}}

AppliedIsExplained ==
  \A c \in Chains \ unsaved :
    \/ applied[c] \in {Unwritten, Context(c)}
    \/ \E k \in Accepted(c) : /\ \A j \in Accepted(c) : j <= k
                              /\ applied[c] = sessions[k].params

\* README.md:137 "every session stores the previous parameters; one call
\* restores them": a rolled back run leaves the chain with the gains it had.
RollbackRestores ==
  [][\A c \in Chains :
       /\ Len(sessions') > Len(sessions)
       /\ sessions'[Len(sessions')].chain = c
       /\ sessions'[Len(sessions')].outcome = "rollback"
       /\ applied[c] # Unwritten
       => applied'[c] = applied[c]]_vars
=============================================================================
