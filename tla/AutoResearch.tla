---------------------------- MODULE AutoResearch ----------------------------
(***************************************************************************)
(* Commissioning of one joint: AutoResearchLoop.run driving a git-backed   *)
(* PIDWorkspace, through crashes, restarts and git commands that fail.     *)
(*                                                                         *)
(* Every git command of the workspace runs with check=False, so a command  *)
(* that fails is simply skipped; only the commands that create the         *)
(* repository are checked.  A crash can fall between any two steps.        *)
(*                                                                         *)
(* One integer stands for the (kp, ki, kd) triple: the three gains are     *)
(* clamped, written, committed and compared together.  params.yaml holds   *)
(* them as they are, results.tsv rounded, as it does the scores.  Which    *)
(* values the Optuna study suggests, and what it is told, is left open.    *)
(***************************************************************************)
EXTENDS Integers, Sequences

CONSTANTS
  GainLo, GainHi,    \* safety bounds of the joint (get_safety_bounds)
  RawGains,          \* what the editor may propose before it is clamped
  DefaultPid,        \* PIDParams(kp=5.0, ki=0.1, kd=0.5)
  Blank,             \* params.yaml missing, or truncated by a torn write
  MaxScore,          \* scores are 0..MaxScore
  PrintedScore,      \* the score as results.tsv shows it ({score:.2f})
  PrintedPid,        \* the gains as results.tsv shows them ({kp:.4f} ...)
  TargetScore,       \* target_score: stop early once it is reached
  MaxExperiments,    \* max_experiments
  GitAvailable,      \* shutil.which("git") found the binary
  MaxRuns,           \* bound: how often tune_chain reaches this joint
  MaxCrashes,        \* bound: process crashes
  MaxFaults          \* bound: git commands and file writes that fail

ASSUME AutoResearchAssumption ==
  /\ GainLo \in Int /\ GainHi \in Int /\ GainLo <= GainHi
  /\ RawGains \subseteq Int /\ RawGains # {}
  /\ DefaultPid \in Int
  /\ Blank \notin Int
  /\ MaxScore \in Nat /\ TargetScore \in Nat
  /\ MaxExperiments \in Nat \ {0}
  /\ GitAvailable \in BOOLEAN
  /\ MaxRuns \in Nat /\ MaxCrashes \in Nat /\ MaxFaults \in Nat

\* Rounding keeps the order and may make unequal values equal; the bounds
\* have at most four decimals, so rounded gains do not leave them.
ASSUME PrintingAssumption ==
  /\ PrintedScore \in [0..MaxScore -> 0..MaxScore]
  /\ \A s, t \in 0..MaxScore : s <= t => PrintedScore[s] <= PrintedScore[t]
  /\ PrintedPid \in [GainLo..GainHi -> GainLo..GainHi]

VARIABLES
  disk,      \* working tree: params.yaml, results.tsv, the sentinel file
  index,     \* what `git add .` staged
  commits,   \* the commits of the branch, oldest first; the last is HEAD
  tags,      \* tags[k] = commit that best_k names, 0 when there is no tag
  repo,      \* .git exists
  pc,        \* next step of the process, "down" when it is not running
  run,       \* locals of AutoResearchLoop.run that live across iterations,
             \* and (history) base, the rows there were when the run began
  cand,      \* the candidate of the current iteration
  runs, crashes, faults   \* counters behind the bounds

git  == <<index, commits, tags, repo>>
mem  == <<run, cand>>
vars == <<disk, git, pc, mem, runs, crashes, faults>>
-----------------------------------------------------------------------------
Gains    == GainLo..GainHi
Params   == Gains \cup {DefaultPid, Blank}
Statuses == {"ok", "aborted"}
Row      == [exp : 0..(MaxExperiments - 1), pid : Gains, score : 0..MaxScore,
             keep : BOOLEAN, status : Statuses]
Snapshot == [params : Params, rows : Seq(Row), sentinel : BOOLEAN]
DiscardLimit == 3
RunState == [exp : 0..(MaxExperiments - 1), bestScore : 0..MaxScore,
             bestPid : Gains \cup {DefaultPid}, discards : 0..DiscardLimit,
             base : Nat]
CandState == [pid : Gains \cup {DefaultPid}, score : 0..MaxScore,
              status : Statuses, keep : BOOLEAN]
Steps    == {"down", "recover", "unlink", "create", "populate", "initial",
             "begin", "propose", "write", "experiment", "sentinel", "append",
             "restore", "stage", "commit", "tag", "release", "next", "done"}

NoFiles == [params |-> Blank, rows |-> <<>>, sentinel |-> FALSE]
WithParams(files, p)   == [files EXCEPT !.params = p]
WithRows(files, t)     == [files EXCEPT !.rows = t]
WithSentinel(files, b) == [files EXCEPT !.sentinel = b]

Candidate(g) == [pid |-> g, score |-> 0, status |-> "ok", keep |-> FALSE]
NoCand  == Candidate(DefaultPid)
IdleRun == [exp |-> 0, bestScore |-> 0, bestPid |-> DefaultPid,
            discards |-> 0, base |-> 0]

Clamp_None(g) == g   \* mutant: the safety check is skipped
Clamp(g) == IF g < GainLo THEN GainLo
            ELSE IF g > GainHi THEN GainHi
            ELSE g

ReadParams_Raw(p) == p   \* mutant: an empty params.yaml is not defaulted
ReadParams(p) == IF p = Blank THEN DefaultPid ELSE p
HeadCommit    == IF commits = <<>> THEN NoFiles ELSE commits[Len(commits)]

\* What the workspace promises about its experiments: results.tsv is a log
\* whose durable prefix is the results.tsv of HEAD.
Log == INSTANCE ExperimentLog
         WITH log <- disk.rows, durable <- Len(HeadCommit.rows)

Fault == /\ faults < MaxFaults
         /\ faults' = faults + 1

Init ==
  /\ disk = NoFiles
  /\ index = NoFiles
  /\ commits = <<>>
  /\ tags = [k \in 0..(MaxExperiments - 1) |-> 0]
  /\ repo = FALSE
  /\ pc = "down"
  /\ run = IdleRun
  /\ cand = NoCand
  /\ runs = 0 /\ crashes = 0 /\ faults = 0
-----------------------------------------------------------------------------
(* PIDWorkspace.__init__ : recovery, then creation of the repository       *)

\* tune_chain constructs the workspace; the sentinel asks for recovery.
Open ==
  /\ pc = "down"
  /\ runs < MaxRuns
  /\ runs' = runs + 1
  /\ pc' = IF disk.sentinel
             THEN IF GitAvailable THEN "recover" ELSE "unlink"
             ELSE IF repo THEN "begin" ELSE "create"
  /\ UNCHANGED <<disk, git, mem, crashes, faults>>

\* Mutants: no reset; reset to the first commit.
RecoverReset_None ==
  /\ pc = "recover"
  /\ pc' = "unlink"
  /\ UNCHANGED <<disk, git, mem, runs, crashes, faults>>

RecoverReset_Init ==
  /\ pc = "recover"
  /\ disk' = IF commits = <<>> THEN disk ELSE commits[1]
  /\ pc' = "unlink"
  /\ UNCHANGED <<git, mem, runs, crashes, faults>>

\* git reset --hard HEAD; without a commit there is no HEAD and it fails.
RecoverReset ==
  /\ pc = "recover"
  /\ \/ /\ commits # <<>>
        /\ disk' = HeadCommit
        /\ index' = HeadCommit
        /\ UNCHANGED faults
     \/ /\ commits = <<>>
        /\ UNCHANGED <<disk, index, faults>>
     \/ Fault /\ UNCHANGED <<disk, index>>
  /\ pc' = "unlink"
  /\ UNCHANGED <<commits, tags, repo, mem, runs, crashes>>

RecoverUnlink ==
  /\ pc = "unlink"
  /\ disk' = WithSentinel(disk, FALSE)
  /\ pc' = IF repo THEN "begin" ELSE "create"
  /\ UNCHANGED <<git, mem, runs, crashes, faults>>

\* git init (checked: a failure raises), or only the files without git.
Create ==
  /\ pc = "create"
  /\ \/ /\ GitAvailable
        /\ repo' = TRUE
        /\ pc' = "populate"
        /\ UNCHANGED <<disk, faults>>
     \/ /\ GitAvailable
        /\ Fault
        /\ pc' = "down"
        /\ UNCHANGED <<disk, repo>>
     \/ /\ ~GitAvailable
        /\ disk' = WithParams(disk, ReadParams(disk.params))
        /\ pc' = "begin"
        /\ UNCHANGED <<repo, faults>>
  /\ UNCHANGED <<index, commits, tags, mem, runs, crashes>>

\* _write_initial_files keeps the files that already exist.
Populate ==
  /\ pc = "populate"
  /\ disk' = WithParams(disk, ReadParams(disk.params))
  /\ pc' = "initial"
  /\ UNCHANGED <<git, mem, runs, crashes, faults>>

\* git add . ; git commit -m init (both checked: a failure raises).
InitialCommit ==
  /\ pc = "initial"
  /\ \/ /\ index' = disk
        /\ commits' = Append(commits, disk)
        /\ pc' = "begin"
        /\ UNCHANGED faults
     \/ /\ Fault
        /\ index' \in {index, disk}
        /\ pc' = "down"
        /\ UNCHANGED commits
  /\ UNCHANGED <<disk, tags, repo, mem, runs, crashes>>
-----------------------------------------------------------------------------
(* AutoResearchLoop.run                                                    *)

BeginRun ==
  /\ pc = "begin"
  /\ run' = [IdleRun EXCEPT !.bestPid = ReadParams(disk.params),
                           !.base = Len(disk.rows)]
  /\ cand' = NoCand
  /\ pc' = "propose"
  /\ UNCHANGED <<disk, git, runs, crashes, faults>>

\* Optuna's suggestion, the LLM's answer, the rule engine inside the editor
\* or, when propose_params raises, the rule engine of the outer except: any of
\* them may name any gains, and the safety check clamps what it is given.
Propose ==
  /\ pc = "propose"
  /\ \E g \in RawGains : cand' = Candidate(Clamp(g))
  /\ pc' = "write"
  /\ UNCHANGED <<disk, git, run, runs, crashes, faults>>

WriteParams ==
  /\ pc = "write"
  /\ disk' = WithParams(disk, cand.pid)
  /\ pc' = "experiment"
  /\ UNCHANGED <<git, mem, runs, crashes, faults>>

Keep_NoFirst(score) == score > run.bestScore   \* mutant: no special first
Keep(score) == score > run.bestScore \/ run.exp = 0

\* Mutant: best_score is set on every experiment, outside the if.
Remember_EveryScore(score) ==
  IF Keep(score)
    THEN [run EXCEPT !.bestScore = score, !.bestPid = cand.pid, !.discards = 0]
    ELSE [run EXCEPT !.bestScore = score, !.discards = @ + 1]

Remember(score) ==
  IF Keep(score)
    THEN [run EXCEPT !.bestScore = score, !.bestPid = cand.pid, !.discards = 0]
    ELSE [run EXCEPT !.discards = @ + 1]

\* Run, score, keep or discard.  An aborted run scores 0.
Experiment ==
  /\ pc = "experiment"
  /\ \E score \in 0..MaxScore, status \in Statuses :
       /\ status = "aborted" => score = 0
       /\ cand' = [cand EXCEPT !.score = score, !.status = status,
                               !.keep = Keep(score)]
       /\ run' = Remember(score)
  /\ pc' = "sentinel"
  /\ UNCHANGED <<disk, git, runs, crashes, faults>>
-----------------------------------------------------------------------------
(* PIDWorkspace.commit_experiment                                          *)

RaiseSentinel ==
  /\ pc = "sentinel"
  /\ disk' = WithSentinel(disk, TRUE)
  /\ pc' = "append"
  /\ UNCHANGED <<git, mem, runs, crashes, faults>>

\* The row as it is written: gains and score rounded to a few decimals.
NewRow == [exp |-> run.exp, pid |-> PrintedPid[cand.pid],
           score |-> PrintedScore[cand.score],
           keep |-> cand.keep, status |-> cand.status]

\* Mutant: results.tsv is opened for writing instead of appending.
AppendRow_Truncates ==
  /\ pc = "append"
  /\ disk' = WithRows(disk, <<NewRow>>)
  /\ pc' = IF cand.keep \/ ~GitAvailable THEN "stage" ELSE "restore"
  /\ UNCHANGED <<git, mem, runs, crashes, faults>>

\* A write that raises runs the finally clause, which removes the sentinel,
\* and ends the run with the exception.
AppendRow ==
  /\ pc = "append"
  /\ \/ /\ disk' = WithRows(disk, Append(disk.rows, NewRow))
        /\ pc' = IF cand.keep \/ ~GitAvailable THEN "stage" ELSE "restore"
        /\ UNCHANGED faults
     \/ /\ Fault
        /\ disk' = WithSentinel(disk, FALSE)
        /\ pc' = "down"
  /\ UNCHANGED <<git, mem, runs, crashes>>

\* git checkout HEAD -- params.yaml, for a discarded experiment.
RestoreParams ==
  /\ pc = "restore"
  /\ \/ /\ commits # <<>>
        /\ disk' = WithParams(disk, HeadCommit.params)
        /\ index' = WithParams(index, HeadCommit.params)
        /\ UNCHANGED faults
     \/ /\ commits = <<>>
        /\ UNCHANGED <<disk, index, faults>>
     \/ Fault /\ UNCHANGED <<disk, index>>
  /\ pc' = "stage"
  /\ UNCHANGED <<commits, tags, repo, mem, runs, crashes>>

\* Mutant: without git the function does not reach its end.
StageAll_NeedsGit ==
  /\ pc = "stage" /\ GitAvailable
  /\ index' = disk
  /\ pc' = "commit"
  /\ UNCHANGED <<disk, commits, tags, repo, mem, runs, crashes, faults>>

\* git add . also stages the sentinel, which lies in the working tree.
StageAll ==
  /\ pc = "stage"
  /\ \/ /\ GitAvailable
        /\ index' = disk
        /\ UNCHANGED faults
     \/ /\ GitAvailable
        /\ Fault
        /\ UNCHANGED index
     \/ ~GitAvailable /\ UNCHANGED <<index, faults>>
  /\ pc' = IF GitAvailable THEN "commit" ELSE "release"
  /\ UNCHANGED <<disk, commits, tags, repo, mem, runs, crashes>>

\* git commit; with nothing staged it makes no commit.
Commit ==
  /\ pc = "commit"
  /\ \/ /\ index # HeadCommit
        /\ commits' = Append(commits, index)
        /\ UNCHANGED faults
     \/ index = HeadCommit /\ UNCHANGED <<commits, faults>>
     \/ Fault /\ UNCHANGED commits
  /\ pc' = IF cand.keep THEN "tag" ELSE "release"
  /\ UNCHANGED <<disk, index, tags, repo, mem, runs, crashes>>

\* Mutant: the tag is set before the commit.
TagBest_Early ==
  /\ pc = "tag"
  /\ tags' = [tags EXCEPT ![run.exp] = Len(commits) - 1]
  /\ pc' = "release"
  /\ UNCHANGED <<disk, index, commits, repo, mem, runs, crashes, faults>>

\* git tag -d best_k ; git tag best_k : the tag lands on whatever HEAD is.
TagBest ==
  /\ pc = "tag"
  /\ \/ tags' = [tags EXCEPT ![run.exp] = Len(commits)] /\ UNCHANGED faults
     \/ /\ Fault
        /\ tags' \in {tags, [tags EXCEPT ![run.exp] = 0]}
  /\ pc' = "release"
  /\ UNCHANGED <<disk, index, commits, repo, mem, runs, crashes>>

ReleaseSentinel ==
  /\ pc = "release"
  /\ disk' = WithSentinel(disk, FALSE)
  /\ pc' = "next"
  /\ UNCHANGED <<git, mem, runs, crashes, faults>>
-----------------------------------------------------------------------------
ResetDue       == run.discards >= DiscardLimit
LastExperiment == \/ run.bestScore >= TargetScore
                  \/ run.exp + 1 >= MaxExperiments

AfterDiscards_None == disk   \* mutant: only the counter is reset
AfterDiscards == IF ResetDue THEN WithParams(disk, run.bestPid)
                             ELSE disk

\* Write the best back after three discards in a row; stop early or go on.
NextIteration ==
  /\ pc = "next"
  /\ disk' = AfterDiscards
  /\ run' = [run EXCEPT !.discards = IF ResetDue THEN 0 ELSE @,
                        !.exp = IF LastExperiment THEN @ ELSE @ + 1]
  /\ pc' = IF LastExperiment THEN "done" ELSE "propose"
  /\ UNCHANGED <<git, cand, runs, crashes, faults>>

\* The result is returned; the joint may be tuned again later.
Finish ==
  /\ pc = "done"
  /\ runs < MaxRuns
  /\ pc' = "down"
  /\ UNCHANGED <<disk, git, mem, runs, crashes, faults>>

TruncatedWrite == \/ pc = "write"
                  \/ pc = "next" /\ ResetDue

\* The process dies.  write_text truncates the file and then writes it with
\* one call, so a crash inside it can leave params.yaml empty; a crash after
\* the first git add leaves the initial files staged.
Crash ==
  /\ pc \notin {"down", "done"}
  /\ crashes < MaxCrashes
  /\ crashes' = crashes + 1
  /\ \/ UNCHANGED disk
     \/ TruncatedWrite /\ disk' = WithParams(disk, Blank)
  /\ \/ UNCHANGED index
     \/ pc = "initial" /\ index' = disk
  /\ pc' = "down"
  /\ UNCHANGED <<commits, tags, repo, mem, runs, faults>>

Workspace == \/ RecoverReset \/ RecoverUnlink \/ Create \/ Populate
             \/ InitialCommit
             \/ RaiseSentinel \/ AppendRow \/ RestoreParams \/ StageAll
             \/ Commit \/ TagBest \/ ReleaseSentinel
Loop      == BeginRun \/ Propose \/ WriteParams \/ Experiment \/ NextIteration
Next      == Open \/ Workspace \/ Loop \/ Finish \/ Crash

Spec     == Init /\ [][Next]_vars
\* The event loop keeps running the coroutine; nothing obliges a crash, nor
\* an operator to start another run.
FairSpec == Spec /\ WF_vars(Workspace \/ Loop)
-----------------------------------------------------------------------------
(* Properties                                                              *)

LoopTop  == pc \in {"propose", "done"}
RunRows  == SubSeq(disk.rows, run.base + 1, Len(disk.rows))

\* s is a prefix of t.
Extends(s, t) == /\ Len(s) <= Len(t)
                 /\ \A i \in 1..Len(s) : s[i] = t[i]

\* Every variable has its type (the one type invariant of the module).
TypeOK ==
  /\ disk \in Snapshot /\ index \in Snapshot
  /\ commits \in Seq(Snapshot)
  /\ tags \in [0..(MaxExperiments - 1) -> Nat]
  /\ repo \in BOOLEAN
  /\ pc \in Steps
  /\ run \in RunState
  /\ cand \in CandState
  /\ runs \in Nat /\ crashes \in Nat /\ faults \in Nat

\* The results log only ever grows at its end, across commits, staging and
\* the working tree: every commit extends the one before it, the index
\* extends HEAD, and results.tsv extends the index.  This is what makes
\* "git reset --hard HEAD" after a crash lose at most an uncommitted tail,
\* whatever git command failed before.
LogIsPrefixChain ==
  /\ \A i \in 1..(Len(commits) - 1) :
       Extends(commits[i].rows, commits[i + 1].rows)
  /\ Extends(HeadCommit.rows, index.rows)
  /\ Extends(index.rows, disk.rows)

\* Every step, crashes, recovery and failing git commands included, is a step
\* of the abstract experiment log: rows are added at the end, a commit makes
\* rows durable, a restart drops uncommitted rows only.
ImplementsExperimentLog == Log!Spec

\* The gains the runner applies to the joint are inside its safety bounds,
\* and results.tsv names no others: clamping covers the LLM, the rule engine
\* and a params.yaml that a crash, or an operator's default, left outside.
AppliedInBounds ==
  /\ pc = "experiment" => cand.pid \in Gains /\ disk.params = cand.pid
  /\ \A i \in 1..Len(disk.rows) : disk.rows[i].pid \in Gains

\* What run returns is on record: at the top of the loop the run has recorded
\* each of its experiments exactly once, in order; the best gains and score it
\* remembers are, rounded, those of the last row it kept, and no row shows a
\* better score.  (An earlier kept row may show the same score, with other
\* gains: two scores that round alike.)  When no command fails, HEAD and
\* params.yaml hold these gains too, as they are: a discarded experiment is
\* rolled back, and its commit leaves the gains alone.
BestIsLastKept ==
  LoopTop /\ Len(RunRows) > 0 =>
    /\ \E i \in 1..Len(RunRows) :
         /\ RunRows[i].pid = PrintedPid[run.bestPid]
         /\ RunRows[i].score = PrintedScore[run.bestScore]
         /\ RunRows[i].keep
         /\ \A j \in 1..Len(RunRows) :
              /\ RunRows[j].exp = j - 1
              /\ RunRows[j].score <= PrintedScore[run.bestScore]
              /\ j > i => ~RunRows[j].keep
    /\ GitAvailable /\ faults = 0 =>
         disk.params = run.bestPid /\ HeadCommit.params = run.bestPid

\* Whenever an experiment was just kept, or three discards were just undone,
\* params.yaml holds the best gains of the run, even if git commands fail.
BestOnDisk ==
  /\ LoopTop /\ run.discards = 0 /\ (run.exp > 0 \/ pc = "done")
  => disk.params = run.bestPid

\* Crash recovery leaves no half-recorded experiment: when the next run
\* begins, and between experiments, results.tsv is the committed one.
\* (Without a first commit there is no HEAD to reset to.)  The sentinel, by
\* which a recovery knows, marks commit_experiment and nothing else, although
\* every commit contains it and "git reset --hard" restores it from HEAD.
NoHalfRecorded ==
  /\ GitAvailable /\ faults = 0 /\ commits # <<>> /\ (LoopTop \/ pc = "begin")
       => disk.rows = HeadCommit.rows
  /\ pc \in {"begin", "propose", "write", "experiment", "sentinel", "next",
             "done"} => ~disk.sentinel

\* When no command fails, the commit that best_k names records experiment k
\* as kept, and carries in params.yaml the gains that the row shows rounded.
TagNamesItsExperiment ==
  faults = 0 =>
    \A k \in DOMAIN tags : tags[k] # 0 =>
      LET c == commits[tags[k]] IN
        /\ Len(c.rows) > 0
        /\ LET row == c.rows[Len(c.rows)]
           IN  /\ row.exp = k /\ row.keep
               /\ c.params \in Gains /\ row.pid = PrintedPid[c.params]

\* get_best_params looks at kept rows only and misses nothing: every row has
\* an earlier or equal kept row that shows at least its score, over all runs
\* in the workspace and through lost and rolled back experiments.
KeptRowsDominate ==
  \A i \in 1..Len(disk.rows) :
    \E j \in 1..i : /\ disk.rows[j].keep
                    /\ disk.rows[j].score >= disk.rows[i].score

\* A run that begins returns, unless the process dies or a write raises.
RunEnds == pc = "begin" ~> pc \in {"done", "down"}
=============================================================================
