---------------------------- MODULE AgentMemory ----------------------------
(***************************************************************************)
(* AgentMemory (events, insights and the count of rollbacks, all saved in  *)
(* memory.json) and the BackgroundObserver, which counts the robot's       *)
(* cycles, summarises each for the memory extractor when it ends and       *)
(* turns three rollbacks in a row into an insight.                         *)
(*                                                                         *)
(* A tick of the observer does not suspend, so it is one action; events of *)
(* the agent and of tuning come between ticks.                             *)
(***************************************************************************)
EXTENDS Integers, Sequences, FiniteSets

CONSTANTS
  MaxEpisodic,     \* MAX_EPISODIC, 500
  MaxSummary,      \* events in a summary, 40
  MinLines,        \* lines that fit in its 3500 characters, however long
  MaxInsights,     \* insights kept, 50
  Streak,          \* rollbacks in a row that make an insight, 3
  MaxEvents, MaxProcs   \* bounds: events, processes

ASSUME AgentMemoryAssumption ==
  /\ MaxEpisodic \in Nat \ {0} /\ MaxSummary \in Nat \ {0}
  /\ MinLines \in 0..MaxSummary
  /\ MaxInsights \in Nat /\ Streak \in Nat \ {0}
  /\ MaxEvents \in Nat /\ MaxProcs \in Nat \ {0}

VARIABLES
  mem,        \* episodic, rollbacks and insights in memory
  memFile,    \* the same in memory.json
  lastIdle,   \* _last_idle
  cycleStart, \* _cycle_start_event_idx
  recorded,   \* number of events recorded so far, by all processes
  cycle,      \* history: the events of the cycle, since its start
  summary,    \* history: summary, rotation and events of the cycle ended last
  rollbacks,  \* history: results that were rollbacks
  proc        \* number of the process

amVars == <<mem, memFile, lastIdle, cycleStart, recorded, cycle, summary,
            rollbacks, proc>>
-----------------------------------------------------------------------------
Nowhere == -1    \* None, as an index
NoCycle == [events |-> <<>>, rotated |-> FALSE]
Empty   == [episodic |-> <<>>, streak |-> 0, insights |-> <<>>]

AmInit ==
  /\ mem = Empty /\ memFile = Empty
  /\ lastIdle = "unknown" /\ cycleStart = Nowhere
  /\ recorded = 0 /\ cycle = NoCycle
  /\ summary = [text |-> <<>>, cycle |-> NoCycle]
  /\ rollbacks = 0 /\ proc = 1

Least(a, b) == IF a < b THEN a ELSE b

\* The n last elements, all of s if it has fewer: s[-n:].
LastOf(s, n) == SubSeq(s, Len(s) - Least(n, Len(s)) + 1, Len(s))

\* The n first: s[:n].
FirstOf(s, n) == SubSeq(s, 1, Least(n, Len(s)))

\* record_event, for the n-th event; the list is cut from the front.

RecordIn(m, n) == [m EXCEPT !.episodic = LastOf(Append(@, n), MaxEpisodic)]

\* The history of the cycle, when the list e gets event n.
Follow(c, e, n) == [events  |-> Append(c.events, n),
                    rotated |-> c.rotated \/ Len(e) >= MaxEpisodic]

Active == lastIdle = "no"

\* Events of the agent between two ticks: questions, commands, LLM calls.
RecordEvent ==
  /\ recorded < MaxEvents
  /\ recorded' = recorded + 1
  /\ mem' = RecordIn(mem, recorded')
  /\ cycle' = IF Active THEN Follow(cycle, mem.episodic, recorded') ELSE cycle
  /\ UNCHANGED <<memFile, lastIdle, cycleStart, summary, rollbacks, proc>>

\* AgentEventSink.on_tune_result
TuneResult(outcome) ==
  /\ recorded < MaxEvents
  /\ recorded' = recorded + 1
  /\ mem' = [RecordIn(mem, recorded') EXCEPT
               !.streak = IF outcome = "rollback" THEN @ + 1 ELSE 0]
  /\ rollbacks' = IF outcome = "rollback" THEN rollbacks + 1 ELSE rollbacks
  /\ cycle' = IF Active THEN Follow(cycle, mem.episodic, recorded') ELSE cycle
  /\ UNCHANGED <<memFile, lastIdle, cycleStart, summary, proc>>

\* save leaves all of it in memory.json; one that raises, or that a crash
\* ends, leaves the file as it was or torn, which is loaded as an empty one.
\* (The "background_error" of a tick whose save raised is a RecordEvent.)
WriteMemory(m) == memFile' \in {m, memFile, Empty}

\* add_insight
AddInsight(m, source) ==
  [m EXCEPT !.insights = LastOf(Append(@, source), MaxInsights)]

\* ManastoneAgent.teach: an insight and an event, then a save.
Teach ==
  /\ recorded < MaxEvents
  /\ recorded' = recorded + 1
  /\ mem' = AddInsight(RecordIn(mem, recorded'), "person")
  /\ cycle' = IF Active THEN Follow(cycle, mem.episodic, recorded') ELSE cycle
  /\ WriteMemory(mem')
  /\ UNCHANGED <<lastIdle, cycleStart, summary, rollbacks, proc>>

Insight_Keeps(m) ==   \* mutant: the count is not reset
  IF m.streak >= Streak THEN AddInsight(m, "observer") ELSE m

\* Observation 1: the insight, and the count begins again.
Insight(m) ==
  IF m.streak >= Streak
    THEN [AddInsight(m, "observer") EXCEPT !.streak = 0] ELSE m

\* The events a cycle's summary lists, from the index its start was given.
SummaryOf_All(e, start) == LastOf(e, MaxSummary)   \* mutant: index ignored
SummaryOf(e, start) ==
  LastOf(SubSeq(e, (IF start = Nowhere THEN 0 ELSE start) + 1, Len(e)), MaxSummary)

\* The first tick sees the idle state and does nothing else.
FirstTick(idle) ==
  /\ lastIdle = "unknown" /\ lastIdle' = idle
  /\ cycleStart' = IF idle = "no" THEN Len(mem.episodic) ELSE cycleStart
  /\ cycle' = NoCycle
  /\ UNCHANGED <<mem, memFile, recorded, summary, rollbacks, proc>>

\* A tick that starts no cycle and ends none records one event, the tick.
QuietTick(idle) ==
  /\ lastIdle = idle
  /\ recorded < MaxEvents /\ recorded' = recorded + 1
  /\ mem' = RecordIn(Insight(mem), recorded')
  /\ cycle' = IF Active THEN Follow(cycle, mem.episodic, recorded') ELSE cycle
  /\ WriteMemory(mem')
  /\ UNCHANGED <<lastIdle, cycleStart, summary, rollbacks, proc>>

\* idle -> active: the index of "cycle_started", then the tick.
StartCycle ==
  /\ lastIdle = "yes" /\ lastIdle' = "no"
  /\ cycleStart' = Len(mem.episodic)
  /\ recorded + 1 < MaxEvents /\ recorded' = recorded + 2
  /\ LET started == RecordIn(mem, recorded + 1) IN
       /\ mem' = RecordIn(Insight(started), recorded')
       /\ cycle' = Follow(Follow(NoCycle, mem.episodic, recorded + 1),
                          started.episodic, recorded')
  /\ WriteMemory(mem')
  /\ UNCHANGED <<summary, rollbacks, proc>>

\* active -> idle: the summary, of which cycle_summary[:3500] keeps the first
\* lines, the oldest events, goes to the extractor (module MemDir), whose
\* LLM call may record an event and whose outcome does, applied or not; the
\* markers are reset; the tick.
EndCycle ==
  /\ Active /\ lastIdle' = "yes"
  /\ \E fits \in MinLines..MaxSummary :
       summary' = [text  |-> FirstOf(SummaryOf(mem.episodic, cycleStart), fits),
                   cycle |-> cycle]
  /\ cycleStart' = Nowhere /\ cycle' = NoCycle
  /\ \E calls \in 0..1 :
       /\ recorded + calls + 1 < MaxEvents /\ recorded' = recorded + calls + 2
       /\ LET asked   == IF calls = 1 THEN RecordIn(mem, recorded + 1) ELSE mem
              outcome == RecordIn(asked, recorded + calls + 1)
          IN  mem' = RecordIn(Insight(outcome), recorded')
  /\ WriteMemory(mem')
  /\ UNCHANGED <<rollbacks, proc>>

Observe == \/ \E idle \in {"yes", "no"} : FirstTick(idle) \/ QuietTick(idle)
           \/ StartCycle \/ EndCycle

\* The process ends; the next one loads the file.
RestartAgent ==
  /\ proc < MaxProcs /\ proc' = proc + 1
  /\ mem' = memFile
  /\ lastIdle' = "unknown" /\ cycleStart' = Nowhere /\ cycle' = NoCycle
  /\ UNCHANGED <<memFile, recorded, summary, rollbacks>>

AmNext == \/ RecordEvent \/ Teach \/ Observe \/ RestartAgent
          \/ \E outcome \in {"success", "rollback"} : TuneResult(outcome)

AmSpec == AmInit /\ [][AmNext]_amVars
-----------------------------------------------------------------------------
(* Properties                                                              *)

Events == 1..MaxEvents
Memories == [episodic : Seq(Events), streak : 0..MaxEvents,
             insights : Seq({"observer", "person"})]

AmTypeOK ==
  /\ mem \in Memories /\ memFile \in Memories
  /\ Len(mem.episodic) <= MaxEpisodic /\ Len(memFile.episodic) <= MaxEpisodic
  /\ lastIdle \in {"unknown", "yes", "no"}
  /\ cycleStart \in {Nowhere} \cup 0..MaxEpisodic
  /\ recorded \in 0..MaxEvents /\ rollbacks \in 0..MaxEvents

\* What the extractor is told of a cycle happened in that cycle, in order and
\* without a gap.  Of the events its summary lists, which are the newest of the
\* cycle, the oldest are told and the newest may be missing, for the text is
\* cut to 3500 characters, but only when more than MinLines are listed.  When
\* the list of events was not cut meanwhile, the summary lists the 40 newest
\* events, or all.  (When it was cut, the index of the start points too far
\* and the summary lists fewer; a list that was full at the start gives none.)
SummaryIsOfTheCycle ==
  \E n \in 0..MaxSummary :
    LET listed == LastOf(summary.cycle.events, n)
        told   == Len(summary.text)
    IN  /\ summary.text = FirstOf(listed, told)
        /\ told >= Least(MinLines, Len(listed))
        /\ ~summary.cycle.rotated => n = MaxSummary

\* Each insight the observer kept is paid for by three rollbacks of its own:
\* none is counted for two insights, restarts included, though a restart
\* brings back the count and the insights of the last save.
OwnInsights(m) == {i \in DOMAIN m.insights : m.insights[i] = "observer"}
Earned(m) == Streak * Cardinality(OwnInsights(m)) + m.streak <= rollbacks
InsightsAreEarned == Earned(mem) /\ Earned(memFile)
=============================================================================
