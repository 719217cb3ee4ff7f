# A verification model of Manastone (snakes-V)

Manastone tunes the PID gains of a Unitree G1 robot: it commissions the joints
of a chain by experiments, watches them at run time, tunes again while the
robot is idle, and lets an operator command it through an LLM agent.  This
directory models the parts of it that keep state, in TLA+, checks them with TLC
on small instances, and proves the most important facts for every instance.
All paths below are relative to `src/`, Python ones to `src/src/manastone/`.

## 1. Inventory

What runs: one asyncio process per robot.  Its coroutines interleave only where
they really suspend, which is less often than `async def` suggests: the LLM
client (`common/llm_client.py`) and the simulated experiments are synchronous,
so `command`, `ask` and `run_once` up to the training do not suspend.  What
does: the DDS bridge, the sleeps of the background loop and of `connect`, the
wait for the training process, one `sleep(0)` of the knowledge transfer.
Threads use the event store; one worker process trains models.

| component | state | operations | hard behaviour | right means |
|---|---|---|---|---|
| AutoResearch loop and PIDWorkspace (`commissioning/autoresearch/`) | params.yaml, results.tsv, sentinel, git index, commits, tags; locals of the run | open/recover, propose, write, experiment, commit, discard, reset after 3 discards, tag | crash between any two steps, git commands that fail unnoticed, truncating writes | no half-recorded experiment survives, the log only loses an uncommitted tail, best gains of memory, log, disk and git agree, gains applied stay in bounds |
| Chain tuning, multi-profile commissioning (`commissioning/`) | results of the joints so far | tune joints root to tip, score, repeat per profile | a joint fails in the middle | joints in order, each with the results before it |
| DDS bridge (`runtime/dds_bridge.py`) | websocket, running flag, callbacks, futures per call id, message loop | connect with retries, subscribe, call_service with timeout, message loop, disconnect | late, lost, reordered answers, failing callbacks, broken connections | an answer completes its own call, the loop survives callbacks, callers always return, a lost connection comes back |
| Idle tuning (`idle_tuning/agent/`, `collector/`, `executor/`) | gains the writer holds, session files | run_once, last good gains, manual rollback | save fails after the write, torn files, restarts | gains in bounds, a rejected change does not stay, outcomes mean what they say |
| Training flywheel (`idle_tuning/predictor/`) | model files, shared predictor, jobs of the executor | on_session_saved, train in a worker, save, load the last model | overlapping trainings, torn model file, restart, names as texts | the model in use is the newest, failure does no harm, one training per milestone |
| Runtime predictor, SafetyGuard, PIDParams (`common/`, `predictor/`) | gains of the joints | apply_delta, apply_chain_constraints, suggest | compounding nudges, order of limit, clip and guard | bounded gains, bounded changes, no increase for anomalous joints |
| Agent command gate (`agent/agent.py`) | pending confirmation in memory and in memory.json | command: parse, request, confirm, cancel, execute; save, load | several clients, late answers, restarts | a risky action runs only as confirmed, once, in time |
| Agent memory, memdir, extractor, observer (`agent/`) | events, insights, memory files and their index, cycle markers | record, save, load, write plan, upsert, tick | rotation during a cycle, torn file, partial plans, truncation | index and files agree, protected files stay, a cycle is summarised once |
| LLM proxy and budgets (`agent/llm_proxy.py`, `token_budget.py`, `common/llm_client.py`) | daily, session and client counters | call, call_json, reset | three counters of the same tokens, midnight | spending within the limits, a reset resets |
| Lifecycle (`lifecycle/state_machine.py`, `runtime/event_store.py`, `stream.py`) | phase, active chain; in memory and on disk | transition, load, save, emit | crash between memory and disk, torn file | the phase after a restart is one the robot was in, maintenance is not lost |
| Lifecycle repositories and switching (`lifecycle/`) | branches, commits, sentinel, checked out branch | init, recover, write_and_commit, rollback, switch | crash, staged leftovers, unnoticed failures | a profile's gains come from its own branch |
| Context bridge, ring buffers (`lifecycle/context_bridge.py`, `runtime/`) | windows of samples, context file | append, get_window, export, load | clock steps, malformed messages | windows hold what they say, exports find what commissioning wrote |
| SessionOrchestrator (`lifecycle/`) | last tune, last rollback, count of the day | can_tune, record_tune, record_rollback | clock steps, midnight | limits hold |
| Knowledge (`knowledge/`) | templates, lineage, models as files | export, inherit, trace | files rewritten as a whole, two records of one step | a template that is loaded was exported, lineage is complete |
| Profiles, generators, scorers, config, models, MCP interface, workflows | tables, none | pure functions, dispatch | - | - |

Interactions: the agent calls chain tuning and saves memory together with the
observer; chain tuning calls AutoResearch once per joint; AutoResearch and idle
tuning write gains through their own paths and share the bounds of the schema;
idle tuning calls the flywheel, which gives it its predictor back; the runtime
predictor reads the same model files.  RealExperimentRunner, RealParamWriter
and the real IdleDetector are stubs that raise.  The parts of `lifecycle/`, of
`knowledge/`, the semantic engine and apply_chain_constraints are called by tests and by
other programs, not by the agent: their modules take any order of legal calls.

`PROJECT.json` lists the components, what of each is modelled, and the hazards
at their lines.

## 2. Modules

| module | models | built on |
|---|---|---|
| `ExperimentLog` | what the workspace of a joint promises: a log with a durable prefix | - |
| `AutoResearch` | AutoResearchLoop.run and PIDWorkspace, step by step | implements `ExperimentLog` |
| `ChainTuning` | jobs over the joints of a chain and over profiles | the run of a joint as `AutoResearch` shows it |
| `DDSBridge` | RealDDSBridge with an external rosbridge | - |
| `PIDParams` | gain arithmetic: apply_delta, clip, limit, anomaly guard | - |
| `SafetyPipeline` | long sequences of constrained writes and nudges | `PIDParams` |
| `IdleTuning` | run_once, ParamWriter, SessionStore | `PIDParams` |
| `Flywheel` | PredictorTrainer, its worker process and model files | - |
| `ConfirmGate` | ManastoneAgent.command and the saved pending action | - |
| `AgentMemory` | AgentMemory, BackgroundObserver, event sink | - |
| `MemDir` | memory files, index, write plans, recall | - |
| `LLMBudget` | TokenBudget, LLMProxy, LLMClient counters | - |
| `RobotLifecycle` | phases, event store or file | - |
| `LifecycleRepo` | branches of a robot, sentinel, recovery, rollback | - |
| `ProfileSwitch` | rules for a switch, execute_switch, LifecycleRepository | - |
| `TuningSchedule` | SessionOrchestrator | - |
| `RuntimeMonitor` | ring buffers, event log, context, score, rules | - |
| `KnowledgeBase` | templates, lineage, stream, model zoo | - |
| `MCAutoResearch`, `MCDDSBridge` | instances for TLC | the module named |
| `MCAgent`, `MCIdle`, `MCRobot` | instances of several modules for TLC | see below |
| `AutoResearchProofs`, `DDSBridgeProofs`, `SafetyPipelineProofs`, `KnowledgeBaseProofs`, `LifecycleRepoProofs` | theorems | the module named |
| `AgentProofs` | theorems about ConfirmGate, LLMBudget, AgentMemory, MemDir and ChainTuning | `MCAgent` |
| `IdleTuningProofs` | theorems about IdleTuning and Flywheel | `MCIdle` |
| `RobotProofs` | theorems about RobotLifecycle, TuningSchedule, ProfileSwitch and RuntimeMonitor, and the types of MCRobot | `MCRobot`, other proofs |

`MCAgent` (ConfirmGate, AgentMemory, MemDir, LLMBudget, ChainTuning), `MCIdle`
(IdleTuning, Flywheel) and `MCRobot` (SafetyPipeline, LifecycleRepo,
RuntimeMonitor, RobotLifecycle, TuningSchedule, ProfileSwitch, KnowledgeBase)
hold modules that share no variable.  A behaviour of all, restricted to the
variables of one, is a behaviour of that one with stutters; so instead of their
product TLC explores them one after the other: `part` is chosen in the initial
state, that part moves, and the others stay in an initial state.  Every
property is about the variables of one part.

Operators named `X_Something` next to an operator `X` and commented as mutants
are the plausible bugs each property was tried against; no specification uses
them.  Statements whose comment begins with "Not kept by the code" are no
property of any run: they say what one might expect and why it fails.

### AutoResearch
`disk` is the working tree, `index` what is staged, `commits` the branch, `tags`
the best_N tags; `pc` names the next step of the process and is "down" between
processes; `run` and `cand` are the locals of the loop.  One action per file
write or git command, so that `Crash` may fall between any two of them; a crash
in a `write_text` leaves params.yaml empty.  A git command run with check=False
has a disjunct in which it fails (`Fault`) and the code goes on.  The triple
(kp, ki, kd) is one number, since its three parts are clamped, written and
compared together; scores are small numbers.  params.yaml holds the gains as
they are, a row of results.tsv rounded gains and a rounded score: `PrintedScore`
and `PrintedPid` are the two roundings, of which the proofs assume only that the
order of scores is kept and the bounds are not left, and which make the best
score and the one below it print alike in the instances.  Optuna, the LLM and the
rule engine are nondeterministic proposals, also the one that is used when
propose_params raises; the state of the Optuna study, and which score it is told
for which trial, is left open.

### ChainTuning
Each experiment of a joint is one step that appends a row to the log of its
workspace.  Gains and scores are those that print as themselves (two decimals of
a score, four of a gain): what rounding does to a log is the matter of
`AutoResearch`.  The result of a joint is the earliest best row of its run.  A job is
a sequence of tune_chain calls, `ctResults` what the call under way hands to its
next joint.  `RowsOf` are the rows a job has left in a log, which is where what
is handed on can be compared with; `Total` adds up the scores of a chain.  An
exception of a joint or the end of the process drops the job and keeps the
logs.  The jobs of the agent use one robot and so one workspace
per joint for all profiles; multi-profile commissioning has one robot name per
profile.

### DDSBridge
One program counter per service call, per message loop and for `connect`, and
one action per stretch between two awaits.  `future[i]` is separate from
`futures`, the dictionary: that a cancelled future stays in it is the point.  The
send of a request is an await of its own ("sending"), in which the connection may
go and after which the timer starts, and so is the close handshake ("closing"),
in which `_ws` is still the closed connection.
rosbridge answers a request at any later time on the connection it came on, or
never, publishes, drops the connection, or sends what cannot be parsed
(`Malformed`), which ends the message loop on an open connection; `garbled` is the
history of the connections it did that on.

### PIDParams and SafetyPipeline
Gains are natural numbers (hundredths in the instances), fractions percent,
rounded down.  `ConstrainedWrite` applies apply_chain_constraints to any subset
of joints at once, `Nudge` the runtime predictor.  `NoGain` is a joint whose last
gains nobody knows, for which the limit and the guard are passed over.  `stray` is a history variable: the
joints whose gain nothing has yet brought inside its bounds.

### IdleTuning
`RunOnce` is run_once up to the saved session: select, suggest by any path,
clamp, write, score, roll back, save.  It is one action because nothing in it
suspends.  A save that raises leaves no file or a torn one.  The score is the
code's, in tenths, with the weighted average of equal joint scores replaced by
that score.

### Flywheel
`jobs` and `finished` are the queue of the one-process executor and the endings
its waiters have not seen; `Resume` is the rest of `_train_async`, which reloads
after a worker that returned and does nothing after one that raised.  The worker
takes a job, skips it where a library is missing (`libs`), or makes the file
unusable and then whole again; it may raise, return without a file, stop within
the write, or die: then its jobs raise and the pool refuses all later ones until
a restart.  `kept` is the history of the last training that saved its model.  The
order of
file names is the order of the texts `v0 ... v99`.  The confidence is the
constant 0 because the training labels are constants.

### ConfirmGate
`command` is one action with an alternative for each branch.  A message is what
the gate sees of it: an instruction, a confirmation with or without a token, a
cancellation.  `Save` is the save of memory.json by teach or the observer,
`Restart` its loading.

### AgentMemory
Events are numbers in the order they are recorded.  A tick of the observer does
not suspend and is one action: the end of a cycle, the summary from
`cycleStart`, the mark of the next cycle, the save.  The text of a summary is cut
to its first 3500 characters, at which line is left open: `MinLines` of the lines
fit however long they are (about 19 of 40, with texts of 120 characters and the
time and kind before each).  `cycle` is the history the
index `cycleStart` is meant to stand for; `rollbacks` counts what insights are
paid with.  A restart loads the last saved memory, maybe an older one.

### MemDir
A file is who wrote it, or "torn"; the index is a sequence of names with a size.
A start, a consolidation and the plan the LLM answers are sequences of file
operations (`ops`, of which `done` are done).  Any of them may raise, before it has
changed anything or within its write, which leaves the file empty or the index
with its first lines; the code swallows that (`agent.py:58`, `background.py:128`,
`memory_extractor.py:174,218`): a start is over, a cycle goes on to the LLM, a plan
to its next item (`AfterFailure`).  A crash ends the sequence at the same places.
Two histories: `missed`, the files whose last write or delete in the plan failed,
and `order`, whether the index has got its pinned entries, has lost them to a
failure, or has since been given another entry before them.  A person may edit
the safety file between two operations; exists() and the write that follows it
(`memdir.py:354,371`) are one operation.
A title with a bracket makes an entry the index cannot find again.

### LLMBudget
One action per way a call ends: refused by any of the three checks, failed after
the reservation, answered.  The date may change within a call.  `spent` and
`begun` are histories per date.

### RobotLifecycle
`rlSaved` holds the checkpoints of the event store in order, of which a power loss
may take the newest (synchronous=NORMAL), or the one in the JSON file, which a
crash within a save tears.  The phase is set in memory before it is saved.

### LifecycleRepo and ProfileSwitch
HEAD, index and working tree are maps from files to versions.  `init`,
`write_and_commit` and `rollback` end normally or, by a crash or an exception,
after any of their steps, which leaves what it leaves.  ProfileSwitch has the
second repository class: branches, best_params.yaml (which nobody commits), the
rules of evaluate and should_switch, and execute_switch with each of its three
steps failing: a checkout, like the making of a branch, may leave HEAD where it is
without anybody noticing, or time out with an exception; best_params.yaml may be
missing, empty (a crash in its write, or no gains in it; it loads as None), or
unreadable; the writer may raise before or after the robot has its gains, and the
stream before the event.  `psTold` is the history of the gains the last event told
of, `psCut` of a switch that ended between writer and event.  `FirstOther` is the first profile of the ranking that is not the
current one.

### TuningSchedule
`tsShift` is wall clock minus time; setting the clock changes it.  A session is
two calls, the question and the record, with time between.

### RuntimeMonitor
A message gives every joint a sample with its wall-clock time; `at` and `of` are
histories: the real time and the sensor.  The context of a joint is computed
from window and log as the code does, in integers that make the sums exact, and
the events the rules derive go to the log again.  A query is the set of the rows
it returns, by their numbers.

### KnowledgeBase
A JSONL file is a sequence of lines, a line a sequence of records: a record cut
off without its newline is continued by the next, and a reader skips the line;
what it reads is the set of the numbers of the others.
Template, binary and metadata writes are cut off likewise, by the end of the
process or by a write that raises, which ends its own operation and no other
(`CutShort`).  An inheritance
suspends once, between its record and its adaptation.

## 3. Runs

| run | question | bounds and why they are enough |
|---|---|---|
| ar_recovery | no half-recorded experiment and a sentinel for commits only (NoHalfRecorded), TagNamesItsExperiment, LogIsPrefixChain, KeptRowsDominate, refinement of ExperimentLog | 3 runs, 2 crashes, 1 failing command, 2 experiments: a crash in the recovery from a crash, and a run after it; one gain inside the bounds and the default outside tell apart what the properties compare |
| ar_long | memory, log, disk and HEAD agree about the best gains (BestOnDisk, BestIsLastKept), AppliedInBounds | 5 experiments: three discards, a reset, and one after it; one failing command; the default gain is outside the bounds, proposals on both sides; two scores, and two gains, that print alike |
| ar_live | RunEnds | no git, a crash and a failing write; the early stop at the target score |
| dds_calls | AnswerMatchesCall, LoopOutlivesCallbacks; calls and connect end (CallsReturn) | 2 calls, 2 connections, 2 messages under way, one of them published or malformed: answers cross and overtake each other, a loop ends on a message with calls waiting, one connection is lost with calls on it; all 3 attempts to connect failing or not |
| dds_late_answer | violation: a comment of the message loop | 1 call |
| it_idle | AppliedInBounds, AppliedIsExplained, ModelIsCurrent | a five-joint chain (fewer joints never roll back) and a one-joint chain, LLM answers above the bound, 2 sessions; the program's own counts up to 99 improved sessions, 3 trainings at once, 2 failures (a worker that raises, stops or dies, or a restart), each of the two libraries there or not |
| it_rollback | violation: what README.md says of rollbacks | 2 sessions |
| fw_newest | violation: the name and use of _find_latest_model | the program's own counts, 100 improved sessions |
| agent | gate: ConfirmedInTime, SettledOncePerLife, FreshRequestStays | 2 symmetric risky actions, 2 tokens, clock to twice the TTL, 2 processes |
|  | memory: SummaryIsOfTheCycle, InsightsAreEarned | 7 events in a list of 4, summaries of 3 lines of which 2 or 3 fit, 2 processes: the list rotates within a cycle, a summary is cut at both ends, counts are loaded again |
|  | files: MemoriesStay, OnlyPlansTouchSafety | an identity and a safety file and one more name before them; an index that holds four short entries, so that long ones push others out; plans of up to two items (MaxItems): two titles for one file, a delete and an upsert of it, an item without a body; one operation that fails or one crash within an operation (MaxFailures), in a start, a cycle or a plan |
|  | limits: LimitsHold, DayWithinBudget | a budget of 4 and a limit of 5 for calls of 1 to 3: each check is the first to refuse; 2 days, each beginning twice |
|  | jobs: ChainHolds | 2 joints, 2 profiles, 2 experiments, 2 jobs: a job that fails at the second joint and one after it, over the same logs |
| cg_token | violation: the message "confirm <token>" | as the gate |
| lb_daily | violation: "resets daily" | as the limits |
| robot | gains: GuardHolds, ChangeLimited | joints are independent, so 1; gains inside and outside the bounds, 0 and none included; suggestions below, inside and above; anomalies on both sides of 0.3 and 0.7; a delta beyond the cap |
|  | repository: HistoryIsTrue | 2 profiles, 2 files, 3 writes: a write after a failed one after a crash, with a switch of branch between |
|  | monitor: ContextIsMeasured | 1 joint, 2 samples, 1 tick, the clock set back once, 3 events before an evaluation with a query limit of 3: events beyond the limit, the day and the window |
|  | phase: PhaseSurvives | 4 calls, 3 processes: crash, restart and a crash of that; both stores |
|  | schedule: ScheduleKept | 1 and a half days of 4 units, interval 1, cooldown 2, 2 sessions a day, the clock set by one unit either way: a session over midnight, and one ended before it counted after |
|  | switch: SwitchIsTold | 2 profiles, 2 versions of their gains, files without gains or torn, every start of the repository and every checkout taken or not |
|  | knowledge: KnowledgeHolds | 2 robots, 1 template, 1 model, 3 records, 2 crashes or writes that raise: inheritances that interleave, a cut record with one on each side, twice |

Each run that passes and has no other type invariant checks that of its modules
(TypeOK, TypesOK).  The five runs that expect a violation each check one statement of
a doc, a comment or a message of the code; the findings in `PROJECT.json` quote
it and say what the counterexample shows.  Further statements the code does not
keep, met while modelling and visible in the definitions:

- `DEPLOYMENT.md:685`, status "llm_error" in results.tsv: propose_params falls
  back to the rule engine and the status is that of the experiment.
- `DEPLOYMENT.md:131`, best_N points to the highest score: every run of a
  workspace starts N and the best score again (`BeginRun`, `TagBest`).  The
  agent's profiles share one workspace per joint (`agent.py:250-255`), so its best
  row may be the best of two scorers (`OneProfilePerLog` leaves the agent out).
- `workspace.py:213`, the highest-scoring kept experiment: of two whose scores
  print alike get_best_params returns the earlier one, which scored less; memory
  and params.yaml have the later (`BestIsLastKept`).
- The score of a chain is at most 92 of 100: its checks begin at 80 and only
  lose (`ReportsAreLogged`).
- `dds_bridge.py:7`, reconnect policy: only the first connect() retries.
- `dds_bridge.py:147`, a parse error as a failure of the connection: the message
  loop ends, the connection stays open, and nobody starts another loop on it
  (`LoopOutlivesCallbacks` names the case).
- `safety.py:208`, clip to the static bounds, and `README.md:133`, every write:
  the step for anomalous joints undoes the clip of a gain below its bound, and
  nudges are not clipped (`OnlyDecrease`, `Nudge`; `stray` counts both).
- `trainer.py:96`, improved means moved: the baseline lacks the chain checks, so
  a run that changes nothing counts as improved (`Baseline`, `Outcome`).
- `robot_schema.yaml:56`, 15 % per session: only the fast path applies it
  (`DeepPath`, `FastPath`).
- `DEPLOYMENT.md:368`, one training per milestone: sessions that did not
  improve start it again (`SaveOther`).
- `trainer.py:78`, failures are non-fatal: a training whose write is cut short
  untrains the predictor (`Load`), and a worker that dies is the end of all
  trainings of the process (`WorkerDies`).
- `README.md:45`, a confident fast path: the labels of all samples are equal,
  so the confidence is always 0 (`Confidence`) and the fast path never runs.
- `docs/memory-system-design.md:149` and `README.md:192`, the safety file is
  always recalled: the scan stops after its limit and the text of a recall is
  cut off (`SafetyAlwaysRecalled`).
- `memdir.py:128`, one entry for a file: a title with a bracket makes an entry
  that is not found again (`OneEntryPerFile`).
- `docs/memory-system-design.md:64`, the program does not overwrite it: a plan
  of the LLM may name it (`HumanSafetyKept`).
- `llm_proxy.py:24`, all LLM calls go through the proxy: chain tuning makes a client
  of its own (`chain_orchestrator.py:61`), whose tokens no other counter knows.
- `DEPLOYMENT.md:688`, UTC: the date is the local one.
- `DEPLOYMENT.md:691`, a fall back to params_history.json: no code reads it.
- `state_machine.py:41`, crash-safe: a torn state file sends a robot in
  maintenance back to commissioning (`MaintenanceHolds`).
- `lifecycle_repo.py:90-92`: the sentinel a failed write has left is removed by
  the next write that succeeds, with the leftovers still there
  (`CrashesUnderSentinel` needs `lrRaised`).
- `switching.py:120`, branch checkout, parameters and event: a checkout that
  fails goes unnoticed, and the event names another branch than the one checked
  out (`EventTellsBranch`; nobody commits to these branches or reads gains from
  them); a profile without gains keeps those of the one before
  (`EventTellsGains`); and the rules for idle robots and poor quality move a robot
  away from the profile its task requires (`RequiredIsKept`).
- `ring_buffer.py:41`, "within the most recent duration_s seconds": the window
  ends at the newest sample, however old (`WindowIsRecent`); and a message that
  lacks the reading of one joint gives the joints after it those of their
  neighbours (`SamplesOfOwnJoint`, `ring_buffer.py:73-77`).
- `DEPLOYMENT.md:240` and `robot_schema.yaml`, thresholds of the anomaly score up
  to 0.7: three inputs of the score are never filled, so it ends at 0.5
  (`ScoreAtMostHalf`).
- export_from_commissioning looks for `pid_workspace/*/best_params.yaml`, and a
  workspace writes `pid_workspace/{robot}/{joint}/params.yaml`: the context it
  exports is empty unless something else puts that file there (`rmBest`).
- The limits of SessionOrchestrator end with the process, and a clock set over
  midnight opens a second quota (`ScheduleKept` counts from there).
- `lineage.py:26`, all records of a robot: a record cut off by a crash or an error
  takes the next one with it (`AllFound`; `OneLostPerCrash` is what holds).

Deadlock is checked except where a bound makes the system stop: runs of a joint
(`MaxRuns`), connections (`MaxConns`), session files (`MaxSessions`), events and
processes of the memory, and the writes, calls, records and time of MCRobot.

### Fairness
- AutoResearch: weak fairness of the steps of a running process; none for
  crashes, failures or the start of a run.
- DDSBridge: weak fairness of connect, of each call's timer and resumption, and
  of each message loop, since the event loop runs every ready coroutine;
  none for rosbridge or the application.

The other modules have safety properties only and assume no fairness.

## 4. Proofs

Eight modules hold theorems; `PROJECT.json` lists them.  Each theorem is about
the specification of its module for every value of its constants, from the
assumptions that module names.  Of the 38 properties of the runs that pass, 36
are proved: all but the two about liveness.

The assumptions, beyond the sorts of the constants: bounds are in order, limits
are percentages and the context gains are inside the bounds (the schema's are
constants of the code); rounding keeps the order of scores and leaves gains inside
their bounds; no more lines are sure to fit than a summary lists; the identity file sorts before the safety file and the
index has room for both; the first milestone is not after the regular ones
(`First <= Every`, 10 and 20 in the code); joints of a chain and profiles of a job
are listed without repetition; the mark for "no run" is no sequence of rows; a
window is shorter than a day.

`AutoResearchProofs`, for every bounds, number of experiments, runs, crashes
and failures, proves all safety properties of the three ar_ runs:

- `TypeCorrect`: the type invariant.  It is not inductive alone: the proof adds
  that a candidate past the clamp is in the bounds and that the discard counter
  is below its limit whenever an experiment starts (`TypeInv`).
- `LogCorrect`: each commit extends the one before, the index HEAD, and
  results.tsv the index.  Inductive with `TypeInv`; extension is transitive,
  reflexive and kept by an append, stated as lemmas.
- `WorkspaceImplementsLog`: with it, every step is a step of `ExperimentLog` or
  leaves it alone; rows of results.tsv are the log, the rows of HEAD its durable
  prefix.  Recovery is `Lose`, a commit `Flush`, an append `Record`.
- `KeptRowsCorrect`: every row is dominated by an earlier kept one.  Needs
  `MemoryIsRecorded`: the best score in memory is that of a kept row.
- `BestOnDiskCorrect` and `AppliedGainsInBounds`: with `ParamsInv`, which says
  what params.yaml holds at each step of an iteration.
- `NothingHalfRecorded`: `SentinelInv` says in which steps the sentinel stands
  in tree, index and HEAD, `RowsInv` in which steps results.tsv is the committed
  one and that a process that dies elsewhere leaves the sentinel.
- `TagsCorrect`: `TagInv`, what a commit records when the next step tags it.
- `BestCorrect`: `MemoryInv` counts the rows of the run step by step and says that
  the last kept one prints as the best gains and score in memory do, and that no
  row prints a better score, since rounding keeps the order; `GainsCommitted`
  follows the gains, unrounded, from the write into the commit and back out of a
  discarded one.

`DDSBridgeProofs`, for any calls, connections, retries and messages:
`TypeCorrect`, `AnswersMatchCalls`, `LoopsOutliveCallbacks`.
`BridgeInv` adds that a request is held once by rosbridge or answered once in one
inbox (`AnsweredOnce`) and, for each state of a future, where its id may be
(`FuturesFit`): a future that got its result has no id left, a cancelled one
belongs to a call that timed out; and that a malformed message is only unread on a
connection of the history `garbled`.  An inbox is read from its head, so the unread
messages lose exactly one.

`SafetyPipelineProofs`, for every bounds, limits, gains and anomalies, from the
assumption that limits are 0 to 100 % and the bounds are in order:

- percentages of a gain are monotone in the percentage (from the monotonicity
  of products and of the quotient by 100), so the limit, the clip and the guard
  each keep what the one before established (`ConstrainCorrect`);
- `TypeCorrect`, `ConstrainedCorrect` (a gain outside its bounds started there
  or was nudged, and no constrained write in a calm state came after; inductive
  with the type invariant, since `stray` is the history it needs),
  `ChangesLimited` (no step throws a gain inside its bounds further than the
  larger limit), and `GuardCorrect`, which joins the second with what the guard
  leaves of an anomalous joint.

`IdleTuningProofs`, for every chains, bounds, suggestions, query limit, scores
and number of sessions, from the assumption that the context gains are inside
the safety bounds (the code's are constants):

- `TypeCorrect` and `AppliedGainsInBounds`, from `BoundsInv`: an operator may
  restore any good session, so the gains in the files must be safe too.
- `ExplanationCorrect`: what a chain holds is the context or its newest
  accepted session.  The manual restore only looks at the last `QueryLimit`
  files; the newest good one of these is the newest of all, because a newer one
  has fewer files after it and would be among them (`LastGoodIsNewest`, by the
  cardinalities of the two sets of later files).
- `PredictorIsCurrent`, of Flywheel, for every number of sessions, trainings under
  way, failures and libraries: when no training is under way the model saved last
  is in use, whatever trainings have raised, died or been skipped since, and where
  nothing fails it is that of the newest milestone.  `FlywheelInv` adds that jobs
  come in the order of their milestones and no file is newer than one of them
  (`JobsInOrder`), that the model saved last is the newest file, and in use or about
  to be loaded by a coroutine whose worker returned (`LastSaved`; one that raised
  loads nothing), and that without failures the last job is that of the last
  milestone (`Undisturbed`).  The order of versions as texts is where the bound of
  99 comes in.

`AgentProofs` covers the parts of the agent.

ConfirmGate, for every time limit, set of risky actions and number of requests,
restarts and clock steps:

- `GateInv` strengthens `ConfirmedInTime` and `SettledOncePerLife`: pending and
  saved entries agree with the request their token was issued for, whatever was
  settled had been issued, and the pending request is open in this process.  A
  restart loads an entry settled in an earlier process; a new token is free.
- `TypeCorrect`, `ConfirmationInTime`, `SettlementIsUnique` follow from it,
  `FreshStays` from the branches of `command`.

LLMBudget, for all limits, sizes of calls and dates: `CountersInLimits` and
`DaysInBudget`.  `BudgetInv` adds `TodayIsOpen`: what may still be charged to
today is what its newest beginning allows, less what was charged since.  With
it a call over midnight is covered whichever of the two dates it is charged to.

AgentMemory, for any lengths of list and summary, events, saves and restarts, and
for any number of lines that fit into the text:
`SummaryCorrect` and `InsightsEarned`.  `CycleIsTracked` says what the index
`cycleStart` stands for while a cycle runs: behind it, counted from the end, lie
the events of the cycle, all of them unless the list has been cut since the
cycle began.  The index itself is never moved when the list is cut, which is why
the claim is made from the end of the list.  Insights are proved for the memory
and the file together, because a restart exchanges them.

MemDir, for any names, limits of the index, plans of any length, failures and
crashes: `MemoriesKept` and `OnlyPlansTouch`.  `MemDirInv` says how far the
operations in progress are (`Stopped`, `Ensuring`, `Applying`) and that the index
begins with the pinned files as far as it goes, unless a plan has put an entry
into an index a failure had kept them out of (`InOrder`, `order`), always with no
second entry for a file that is found (`NoTwoFound`).  This is kept because an
index is only cut from its end, two entries always fit, and a file already found
is replaced in its place.  For the plan, `WritesHold` says that each file holds
what the operation that touched it last wrote, unless that one failed.

ChainTuning, for any chain, profiles, outcomes and jobs: `ChainsHold`.  The
property is about logs and reports, so `ChainInv` says what the results in memory
are: those of the rows this job has logged in the workspaces above the joint, the
rows of its run in progress, and none below (`RunsAreLogged`).  It needs that rows
come job by job (`LogsInOrder`) and that no two calls of a job share a workspace
(`RobotsDiffer`), where the assumption on the lists comes in.  That the total lies
between the least and the greatest score is an induction over the joints, made by
a least counterexample.

`LifecycleRepoProofs`, for all profiles, files, crashes and exceptions:
`RepositoryIsClean` and `HistoryKept`.  `RepoInv` adds that a torn file is in the
working tree or nowhere, and that a process that has come through `init`, and
whose writes have all returned, works without a sentinel (`OpenIsClean`); each
action is then shown to keep the history, the recovery included.

`RobotProofs` covers the rest of a robot.

- RobotLifecycle, for any chains, calls, crashes and power losses: `PhaseIsKept`.
  `LifecycleInv` adds `TornIsTried`: only a call that has not returned tears the
  file.
- TuningSchedule, for all limits and lengths of the day: `ScheduleCorrect`.
  `ScheduleInv` adds that a running session was counted below the quota when it
  began (`BusyWasAllowed`), that the clock readings kept are those of the history
  (`TimesAgree`), and that the counter covers today while nothing has ended on a
  later day (`CountCovers`); that a later time is on no earlier day is the
  monotonicity of the quotient.
- ProfileSwitch, for any ranking and versions: `SwitchTold`.  `SwitchIsTold` is
  inductive itself: checkouts, taken or not, and timeouts touch neither of its two
  sides, and whatever parts them sets `psCut` (also a writer that raised with the
  gains already given).
- RuntimeMonitor, for any joints, messages, windows, limits and events:
  `ContextMeasured`.  `MonitorInv` adds that the wall clock differs from time by no
  more than it has been set back (`SamplesAreDated`), and that the log is in order
  while it has not been (`LogInOrder`): the newest row of a query is then the last.
  The half of `ScoreAtMostHalf` is the sum of the bounds of the terms that are fed.

`KnowledgeBaseProofs`, for any robots, templates, models, records and crashes:
`KnowledgeKept`.  A crash that leaves a line open spoils the record that is
written next, so the loss shows later: `LossIsPaid` counts an open line as a
record lost already; a write that raises does the same while the other
operations go on.  Without either, what waits for its adaptation has been
written as inherited (`TasksAreTold`).

`TypesCorrect` (in `AgentProofs`, `IdleTuningProofs` and `RobotProofs`) proves the
type invariant of the instances that explore several modules: a step of one part
is a stutter of the others, so each part's own specification holds, and each
part's types follow from it.  What the invariants above leave open, mostly bounds
of lists and counters, is added part by part (`MemoryTypes`, `CallTypes`,
`MonitorTypes`, `KbBounds`, `FlywheelTypes`).

Model-checked only: the liveness properties `RunEnds` and `CallsReturn`, which are
out of the provers' reach (they need fairness and ENABLED).  What a recursive
sum computes (`MapThenSumSet` in a context, for instance) is not proved either:
the theorems use only what they need of it, its sort and its bounds.

## 5. What is not modelled

Floating point (gains are integers, rounding is down, and what results.tsv rounds
is a function of its own), what Optuna, XGBoost and the LLM compute, the wording of prompts, memories and reports, real mode stubs.
Durations other than those a check compares (time limit of a request, interval,
cooldown, window).  A blocking LLM call stops the whole event loop; that is used
in the models (a handler is one action) and is not itself a property.  Session
files are ordered by writing; a clock set back would reorder them.  A restart of
ConfirmGate may replay a settled request in the next process, which no doc
excludes: the property is per process.

Left out with their components: the mock bridge and its joint simulator (a
publishing loop without failures); ChainPredictor and feature vectors
(arithmetic); trajectory generators, scorers and the table of profiles; reading of
configuration; workflows and the MCP interface (dispatch, and a stub).  Left out
of modelled components: the checks of one sample in safety.py (comparisons with
constants), tag_version and list_profiles, a crash in the very first init of a
LifecycleRepo, the hypothesis in a comment of params.yaml (one of several lines
makes the file unreadable, `workspace.py:84-85`), a person who writes the safety
file between the test for it and its writing (`memdir.py:354,371`), a tuning log
whose rows print alike within `ChainTuning`, similarity of templates (and that a torn template makes
query_similar raise), temperature trend and Git log of a context.

Six hazards have no property.  Four are what the code does, visible in the models:
nobody reconnects a lost connection (`dds_bridge.py:126`), a session whose save
raises leaves gains on the robot that no file tells of (`loop.py:119`), a model
file cut short is loaded as an untrained predictor (`model.py:161`), and the
predictor never becomes usable (`model.py:133`).  That a call blocks the process
(`llm_client.py:74`) is a matter of durations.  That a trial of the Optuna study
could be told the score of other gains (`agent_loop.py:119`) is about a study the
model does not have.

## 6. Plan

Done: all modules of section 2 with their runs, and the proofs of section 4.
Next, in this order:

1. An abstract branch log implemented by LifecycleRepo, as ExperimentLog is by
   AutoResearch, with the refinement proved from `RepoInv`.
2. AutoResearch under ChainTuning: the abstract run of a joint as a refinement
   instead of a comment.
3. RuntimePredictor over the predictor of Flywheel: which of its files it holds.
