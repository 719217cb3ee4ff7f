------------------------- MODULE AutoResearchProofs -------------------------
(***************************************************************************)
(* Theorems about AutoResearch: types, the results log across crashes and  *)
(* failing git commands, and that it implements ExperimentLog.             *)
(***************************************************************************)
EXTENDS AutoResearch, TLAPS

\* A commit is a snapshot, so HEAD is one, also before the first commit.
LEMMA HeadIsSnapshot ==
  ASSUME commits \in Seq(Snapshot)
  PROVE  HeadCommit \in Snapshot
<1>1. NoFiles \in Snapshot
  BY DEF NoFiles, Snapshot, Params
<1>2. CASE commits = <<>>
  BY <1>1, <1>2 DEF HeadCommit
<1>3. CASE commits # <<>>
  BY <1>3 DEF HeadCommit
<1> QED BY <1>2, <1>3

LEMMA ClampIsGain == \A g \in Int : Clamp(g) \in Gains
  BY AutoResearchAssumption DEF Clamp, Gains

\* params.yaml as read_params returns it.
LEMMA ReadParamsType ==
  \A p \in Params : ReadParams(p) \in Gains \cup {DefaultPid}
  BY DEF ReadParams, Params

LEMMA SnapshotFields ==
  ASSUME NEW d \in Snapshot
  PROVE  d.params \in Params /\ d.rows \in Seq(Row) /\ d.sentinel \in BOOLEAN
  BY DEF Snapshot

\* What writing one file does to the working tree or the index.
LEMMA ParamsWritten ==
  ASSUME NEW d \in Snapshot, NEW p \in Params
  PROVE  /\ WithParams(d, p) \in Snapshot
         /\ WithParams(d, p).params = p
         /\ WithParams(d, p).rows = d.rows
  BY DEF Snapshot, WithParams

LEMMA RowsWritten ==
  ASSUME NEW d \in Snapshot, NEW t \in Seq(Row)
  PROVE  /\ WithRows(d, t) \in Snapshot
         /\ WithRows(d, t).params = d.params
         /\ WithRows(d, t).rows = t
  BY DEF Snapshot, WithRows

LEMMA SentinelWritten ==
  ASSUME NEW d \in Snapshot, NEW b \in BOOLEAN
  PROVE  /\ WithSentinel(d, b) \in Snapshot
         /\ WithSentinel(d, b).params = d.params
         /\ WithSentinel(d, b).rows = d.rows
  BY DEF Snapshot, WithSentinel

LEMMA AppendType ==
  ASSUME NEW S, NEW s \in Seq(S), NEW e \in S
  PROVE  /\ Append(s, e) \in Seq(S)
         /\ Len(Append(s, e)) = Len(s) + 1
         /\ \A i \in 1..Len(s) : Append(s, e)[i] = s[i]
         /\ Append(s, e)[Len(s) + 1] = e
  OBVIOUS

LEMMA RunFields ==
  ASSUME NEW r \in RunState
  PROVE  /\ r.exp \in 0..(MaxExperiments - 1) /\ r.bestScore \in 0..MaxScore
         /\ r.bestPid \in Gains \cup {DefaultPid} /\ r.base \in Nat
         /\ r.discards \in 0..DiscardLimit
  BY DEF RunState

\* What changing one local of the loop does.
LEMMA RunUpdate ==
  ASSUME NEW r \in RunState
  PROVE  /\ \A s \in 0..MaxScore : [r EXCEPT !.bestScore = s] \in RunState
         /\ \A p \in Gains \cup {DefaultPid} :
              /\ [r EXCEPT !.bestPid = p] \in RunState
              /\ [r EXCEPT !.bestPid = p].discards = r.discards
         /\ \A n \in 0..DiscardLimit : [r EXCEPT !.discards = n] \in RunState
         /\ \A n \in 0..DiscardLimit : [r EXCEPT !.discards = n].discards = n
         /\ \A e \in 0..(MaxExperiments - 1) :
              /\ [r EXCEPT !.exp = e] \in RunState
              /\ [r EXCEPT !.exp = e].discards = r.discards
         /\ \A n \in Nat : /\ [r EXCEPT !.base = n] \in RunState
                           /\ [r EXCEPT !.base = n].discards = r.discards
  BY DEF RunState

LEMMA IdleRunType == IdleRun \in RunState /\ IdleRun.discards = 0
  BY AutoResearchAssumption DEF IdleRun, RunState, DiscardLimit

LEMMA RunBegins ==
  ASSUME NEW p \in Gains \cup {DefaultPid}, NEW n \in Nat
  PROVE  /\ [IdleRun EXCEPT !.bestPid = p, !.base = n] \in RunState
         /\ [IdleRun EXCEPT !.bestPid = p, !.base = n].discards = 0
<1> DEFINE r == [IdleRun EXCEPT !.bestPid = p]
<1>1. r \in RunState /\ r.discards = 0
  BY IdleRunType, RunUpdate
<1> HIDE DEF r
<1>2. [r EXCEPT !.base = n] \in RunState /\ [r EXCEPT !.base = n].discards = 0
  BY <1>1, RunUpdate
<1> QED BY <1>2 DEF r

LEMMA RunScored ==
  ASSUME NEW r \in RunState, NEW s \in 0..MaxScore,
         NEW p \in Gains \cup {DefaultPid}
  PROVE  [r EXCEPT !.bestScore = s, !.bestPid = p, !.discards = 0] \in RunState
<1> DEFINE r1 == [r EXCEPT !.bestScore = s]
           r2 == [r1 EXCEPT !.bestPid = p]
<1>1. r1 \in RunState
  BY RunUpdate
<1> HIDE DEF r1
<1>2. r2 \in RunState
  BY <1>1, RunUpdate
<1> HIDE DEF r2
<1>0. 0 \in 0..DiscardLimit
  BY DEF DiscardLimit
<1>3. [r2 EXCEPT !.discards = 0] \in RunState
  BY <1>0, <1>2, RunUpdate
<1> QED BY <1>3 DEF r1, r2

LEMMA RunDiscards ==
  ASSUME NEW r \in RunState, r.discards < DiscardLimit
  PROVE  [r EXCEPT !.discards = @ + 1] \in RunState
  BY DEF RunState, DiscardLimit

LEMMA RunAdvances ==
  ASSUME NEW r \in RunState, NEW e \in 0..(MaxExperiments - 1),
         NEW n \in 0..(DiscardLimit - 1)
  PROVE  /\ [r EXCEPT !.discards = n, !.exp = e] \in RunState
         /\ [r EXCEPT !.discards = n, !.exp = e].discards < DiscardLimit
<1> DEFINE r1 == [r EXCEPT !.discards = n]
<1>0. n \in 0..DiscardLimit /\ n < DiscardLimit
  BY DEF DiscardLimit
<1>1. r1 \in RunState /\ r1.discards < DiscardLimit
  BY <1>0, RunUpdate
<1> HIDE DEF r1
<1>2. /\ [r1 EXCEPT !.exp = e] \in RunState
      /\ [r1 EXCEPT !.exp = e].discards < DiscardLimit
  BY <1>1, RunUpdate
<1> QED BY <1>2 DEF r1

LEMMA CandFields ==
  ASSUME NEW c \in CandState
  PROVE  /\ c.pid \in Gains \cup {DefaultPid}
         /\ c.score \in 0..MaxScore /\ c.status \in Statuses
         /\ c.keep \in BOOLEAN
  BY DEF CandState

RunningSteps == {"write", "experiment", "sentinel", "append", "restore",
                 "stage", "commit", "tag", "release", "next"}

\* From the proposal on, the candidate is inside the safety bounds.
CandInBounds == pc \in RunningSteps => cand.pid \in Gains

\* The loop resets the counter before it could exceed the limit.
DiscardsBelowLimit ==
  pc \in {"propose", "write", "experiment"} => run.discards < DiscardLimit

TypeInv == TypeOK /\ CandInBounds /\ DiscardsBelowLimit

LEMMA TypeInvInit == Init => TypeInv
<1> SUFFICES ASSUME Init PROVE TypeInv
  OBVIOUS
<1> USE AutoResearchAssumption DEF Init
<1>1. NoFiles \in Snapshot
  BY DEF NoFiles, Snapshot, Params
<1>3. NoCand \in CandState
  BY DEF NoCand, Candidate, CandState, Statuses
<1>4. CandInBounds /\ DiscardsBelowLimit
  BY DEF CandInBounds, DiscardsBelowLimit, RunningSteps
<1> QED BY <1>1, IdleRunType, <1>3, <1>4 DEF TypeOK, Steps, TypeInv

\* What rounding does: it stays in range and keeps the order.
LEMMA Printed ==
  /\ \A g \in Gains : PrintedPid[g] \in Gains
  /\ \A s \in 0..MaxScore : PrintedScore[s] \in 0..MaxScore
  /\ \A s, t \in 0..MaxScore : s <= t => PrintedScore[s] <= PrintedScore[t]
  BY PrintingAssumption DEF Gains

LEMMA NewRowType ==
  ASSUME TypeInv, pc = "append"
  PROVE  NewRow \in Row
<1>1. cand.pid \in Gains /\ cand \in CandState /\ run \in RunState
  BY DEF TypeInv, TypeOK, CandInBounds, RunningSteps
<1>2. PrintedPid[cand.pid] \in Gains /\ PrintedScore[cand.score] \in 0..MaxScore
  BY <1>1, CandFields, Printed
<1> QED BY <1>1, <1>2, CandFields, RunFields DEF NewRow, Row

LEMMA TypeInvNext == TypeInv /\ [Next]_vars => TypeInv'
<1> SUFFICES ASSUME TypeInv, [Next]_vars PROVE TypeInv'
  OBVIOUS
<1> USE AutoResearchAssumption DEF Fault
<1>t. /\ TypeOK /\ CandInBounds /\ DiscardsBelowLimit
      /\ disk \in Snapshot /\ index \in Snapshot /\ commits \in Seq(Snapshot)
      /\ tags \in [0..(MaxExperiments - 1) -> Nat]
      /\ run \in RunState /\ cand \in CandState /\ faults \in Nat
  BY DEF TypeInv, TypeOK
<1> USE DEF TypeInv, TypeOK, CandInBounds, DiscardsBelowLimit, Steps, RunningSteps
<1>h. HeadCommit \in Snapshot
  BY <1>t, HeadIsSnapshot
<1>r. disk.params \in Params /\ disk.rows \in Seq(Row) /\ Len(disk.rows) \in Nat
  <2>1. disk.params \in Params /\ disk.rows \in Seq(Row)
    BY <1>t, SnapshotFields
  <2> QED BY <2>1
<1>f. Fault \/ UNCHANGED faults => faults' \in Nat
  BY <1>t
<1>s. WithSentinel(disk, TRUE) \in Snapshot /\ WithSentinel(disk, FALSE) \in Snapshot
  BY <1>t, SentinelWritten
<1>p. WithParams(disk, ReadParams(disk.params)) \in Snapshot
  <2>1. ReadParams(disk.params) \in Params
    BY <1>r, ReadParamsType DEF Params
  <2> QED BY <1>t, <2>1, ParamsWritten
<1>1. CASE Open
  BY <1>t, <1>1 DEF Open, git, mem
<1>2. CASE RecoverReset
  BY <1>t, <1>2, <1>h, <1>f DEF RecoverReset, mem
<1>3. CASE RecoverUnlink
  BY <1>t, <1>3, <1>s DEF RecoverUnlink, git, mem
<1>4. CASE Create
  <2>1. disk' \in Snapshot /\ repo' \in BOOLEAN
    BY <1>t, <1>4, <1>p DEF Create, TypeOK
  <2>2. faults' \in Nat /\ pc' \in Steps \ RunningSteps
    BY <1>4, <1>f DEF Create, Steps, RunningSteps
  <2> QED BY <1>t, <1>4, <2>1, <2>2 DEF Create, mem
<1>5. CASE Populate
  BY <1>t, <1>5, <1>p DEF Populate, git, mem
<1>6. CASE InitialCommit
  <2>1. Append(commits, disk) \in Seq(Snapshot)
    BY <1>t, AppendType
  <2>2. commits' \in Seq(Snapshot) /\ index' \in Snapshot
    BY <1>t, <1>6, <2>1 DEF InitialCommit
  <2>3. faults' \in Nat /\ pc' \in Steps \ RunningSteps
    BY <1>6, <1>f DEF InitialCommit, Steps, RunningSteps
  <2> QED BY <1>t, <1>6, <2>2, <2>3 DEF InitialCommit, mem
<1>7. CASE BeginRun
  <2>1. ReadParams(disk.params) \in Gains \cup {DefaultPid}
    BY <1>r, ReadParamsType
  <2>2. run' \in RunState /\ run'.discards = 0
    BY <1>7, <2>1, <1>r, RunBegins DEF BeginRun
  <2>3. NoCand \in CandState
    BY DEF NoCand, Candidate, CandState, Statuses
  <2>4. run'.discards < DiscardLimit
    BY <2>2 DEF DiscardLimit
  <2> QED BY <1>t, <1>7, <2>2, <2>3, <2>4 DEF BeginRun, git
<1>8. CASE Propose
  <2>1. ASSUME NEW g \in Gains
        PROVE  Candidate(g) \in CandState /\ Candidate(g).pid = g
    BY DEF Candidate, CandState, Statuses
  <2>2. PICK g \in Gains : cand' = Candidate(g)
    BY <1>8, ClampIsGain DEF Propose
  <2>3. cand' \in CandState /\ cand'.pid \in Gains
    BY <2>1, <2>2
  <2> QED BY <1>t, <1>8, <2>3 DEF Propose, git
<1>9. CASE WriteParams
  <2>1. WithParams(disk, cand.pid) \in Snapshot
    BY <1>t, CandFields, ParamsWritten DEF Params
  <2> QED BY <1>t, <1>9, <2>1 DEF WriteParams, git, mem
<1>10. CASE Experiment
  <2>1. PICK s \in 0..MaxScore, st \in Statuses :
          /\ cand' = [cand EXCEPT !.score = s, !.status = st,
                          !.keep = Keep(s)]
          /\ run' = IF Keep(s)
                      THEN [run EXCEPT !.bestScore = s, !.bestPid = cand.pid,
                                       !.discards = 0]
                      ELSE [run EXCEPT !.discards = @ + 1]
    BY <1>10 DEF Experiment, Remember
  <2>2. Keep(s) \in BOOLEAN
    BY DEF Keep
  <2>3. cand' \in CandState /\ cand'.pid = cand.pid
    BY <1>t, <2>1, <2>2 DEF CandState
  <2>4. run' \in RunState
    <3>1. cand.pid \in Gains \cup {DefaultPid}
      BY <1>t, CandFields
    <3>2. [run EXCEPT !.bestScore = s, !.bestPid = cand.pid, !.discards = 0]
             \in RunState
      BY <1>t, <3>1, RunScored
    <3>3. run.discards < DiscardLimit
      BY <1>t, <1>10 DEF Experiment
    <3>4. [run EXCEPT !.discards = @ + 1] \in RunState
      BY <1>t, <3>3, RunDiscards
    <3> QED BY <2>1, <3>2, <3>4
  <2> QED BY <1>t, <1>10, <2>3, <2>4 DEF Experiment, git
<1>11. CASE RaiseSentinel
  BY <1>t, <1>11, <1>s DEF RaiseSentinel, git, mem
<1>12. CASE AppendRow
  <2>1. NewRow \in Row
    BY <1>12, NewRowType DEF AppendRow
  <2>2. WithRows(disk, Append(disk.rows, NewRow)) \in Snapshot
    BY <1>t, <1>r, <2>1, AppendType, RowsWritten
  <2>3. disk' \in Snapshot /\ faults' \in Nat
    BY <1>12, <1>f, <1>s, <2>2 DEF AppendRow
  <2> QED BY <1>t, <1>12, <2>3 DEF AppendRow, git, mem
<1>13. CASE RestoreParams
  <2>1. HeadCommit.params \in Params
    BY <1>h, SnapshotFields
  <2>2. /\ WithParams(disk, HeadCommit.params) \in Snapshot
        /\ WithParams(index, HeadCommit.params) \in Snapshot
    BY <1>t, <2>1, ParamsWritten
  <2>3. disk' \in Snapshot /\ index' \in Snapshot /\ faults' \in Nat
    BY <1>t, <1>13, <1>f, <2>2 DEF RestoreParams
  <2> QED BY <1>t, <1>13, <2>3 DEF RestoreParams, mem
<1>14. CASE StageAll
  BY <1>t, <1>14, <1>f DEF StageAll, mem
<1>15. CASE Commit
  <2>1. Append(commits, index) \in Seq(Snapshot)
    BY <1>t, AppendType
  <2>2. commits' \in Seq(Snapshot) /\ faults' \in Nat
    BY <1>t, <1>15, <1>f, <2>1 DEF Commit
  <2> QED BY <1>t, <1>15, <2>2 DEF Commit, mem
<1>16. CASE TagBest
  <2>1. Len(commits) \in Nat
    BY <1>t
  <2>2. tags' \in [0..(MaxExperiments - 1) -> Nat]
    BY <1>t, <1>16, <2>1, SMTT(30) DEF TagBest
  <2>3. faults' \in Nat
    BY <1>16, <1>f DEF TagBest
  <2> QED BY <1>t, <1>16, <2>2, <2>3 DEF TagBest, mem
<1>17. CASE ReleaseSentinel
  BY <1>t, <1>17, <1>s DEF ReleaseSentinel, git, mem
<1>18. CASE NextIteration
  <2>1. WithParams(disk, run.bestPid) \in Snapshot
    BY <1>t, RunFields, ParamsWritten DEF Params
  <2>2. disk' \in Snapshot
    BY <1>t, <1>18, <2>1 DEF NextIteration, AfterDiscards
  <2>3. (IF LastExperiment THEN run.exp ELSE run.exp + 1)
           \in 0..(MaxExperiments - 1)
    BY <1>t, RunFields, SMTT(30) DEF LastExperiment
  <2>d. (IF ResetDue THEN 0 ELSE run.discards) \in 0..(DiscardLimit - 1)
    BY <1>t, RunFields DEF ResetDue, DiscardLimit
  <2>4. run' \in RunState /\ run'.discards < DiscardLimit
    BY <1>t, <1>18, <2>3, <2>d, RunAdvances DEF NextIteration
  <2> QED BY <1>t, <1>18, <2>2, <2>4 DEF NextIteration, git
<1>19. CASE Finish
  BY <1>t, <1>19 DEF Finish, git, mem
<1>20. CASE Crash
  <2>1. WithParams(disk, Blank) \in Snapshot
    BY <1>t, ParamsWritten DEF Params
  <2>2. disk' \in Snapshot /\ index' \in Snapshot
    BY <1>t, <1>20, <2>1 DEF Crash
  <2> QED BY <1>t, <1>20, <2>2 DEF Crash, mem
<1>21. CASE UNCHANGED vars
  BY <1>t, <1>21 DEF vars, git, mem
<1> QED
  BY <1>1, <1>2, <1>3, <1>4, <1>5, <1>6, <1>7, <1>8, <1>9, <1>10, <1>11,
     <1>12, <1>13, <1>14, <1>15, <1>16, <1>17, <1>18, <1>19, <1>20, <1>21
     DEF Next, Workspace, Loop

\* Type correctness, for every size of the instance and any number of
\* crashes and failures.
THEOREM TypeCorrect == Spec => []TypeOK
<1>1. TypeInv => TypeOK
  BY DEF TypeInv
<1> QED BY <1>1, TypeInvInit, TypeInvNext, PTL DEF Spec
-----------------------------------------------------------------------------
(* The results log.  LogIsPrefixChain is inductive together with the types. *)

LEMMA ExtendsReflexive == \A s \in Seq(Row) : Extends(s, s)
  BY DEF Extends

LEMMA ExtendsTransitive ==
  ASSUME NEW s \in Seq(Row), NEW t \in Seq(Row), NEW u \in Seq(Row),
         Extends(s, t), Extends(t, u)
  PROVE  Extends(s, u)
  BY DEF Extends

LEMMA ExtendsAppend ==
  ASSUME NEW s \in Seq(Row), NEW t \in Seq(Row), NEW row \in Row, Extends(s, t)
  PROVE  Extends(s, Append(t, row))
  BY AppendType DEF Extends

\* A log cut back to the length of a prefix is that prefix.
LEMMA ExtendsSubSeq ==
  ASSUME NEW s \in Seq(Row), NEW t \in Seq(Row), Extends(s, t)
  PROVE  s = SubSeq(t, 1, Len(s))
<1>1. /\ SubSeq(t, 1, Len(s)) \in Seq(Row)
      /\ Len(SubSeq(t, 1, Len(s))) = Len(s)
      /\ \A i \in 1..Len(s) : SubSeq(t, 1, Len(s))[i] = t[i]
  BY DEF Extends
<1> QED BY <1>1 DEF Extends

LEMMA HeadAfterCommit ==
  ASSUME commits \in Seq(Snapshot), NEW files \in Snapshot,
         commits' = Append(commits, files)
  PROVE  HeadCommit' = files
<1>1. commits' # <<>> /\ commits'[Len(commits')] = files
  BY AppendType
<1> QED BY <1>1 DEF HeadCommit

\* What a step can do to the rows of the working tree, the index and HEAD,
\* other than recovery, a new row and a commit.
RowsUnchanged == /\ UNCHANGED commits
                 /\ index'.rows = index.rows
                 /\ disk'.rows = disk.rows

RowsStaged == /\ UNCHANGED commits
              /\ index'.rows = disk.rows
              /\ disk'.rows = disk.rows

LEMMA RowsUnchangedElsewhere ==
  TypeInv /\ [Next]_vars =>
    \/ RowsUnchanged \/ RowsStaged
    \/ RecoverReset \/ InitialCommit \/ AppendRow \/ Commit
<1> SUFFICES ASSUME TypeInv, [Next]_vars,
                    ~(RecoverReset \/ InitialCommit \/ AppendRow \/ Commit)
             PROVE  RowsUnchanged \/ RowsStaged
  OBVIOUS
<1>t. disk \in Snapshot /\ index \in Snapshot /\ commits \in Seq(Snapshot)
  BY DEF TypeInv, TypeOK
<1>1. CASE Open \/ Finish \/ BeginRun \/ Propose \/ Experiment \/ TagBest
  BY <1>1 DEF Open, Finish, BeginRun, Propose, Experiment, TagBest, git,
              RowsUnchanged
<1>2. CASE RecoverUnlink \/ RaiseSentinel \/ ReleaseSentinel
  BY <1>t, <1>2, SentinelWritten
     DEF RecoverUnlink, RaiseSentinel, ReleaseSentinel, git, RowsUnchanged
<1>p. ReadParams(disk.params) \in Params
  BY <1>t, SnapshotFields, ReadParamsType DEF Params
<1>3. CASE Create \/ Populate
  BY <1>t, <1>p, <1>3, ParamsWritten DEF Create, Populate, git, RowsUnchanged
<1>4. CASE WriteParams
  <2>1. cand.pid \in Params
    BY CandFields DEF TypeInv, TypeOK, Params
  <2> QED BY <1>t, <1>4, <2>1, ParamsWritten DEF WriteParams, git, RowsUnchanged
<1>5. CASE RestoreParams
  <2>1. HeadCommit.params \in Params
    BY <1>t, HeadIsSnapshot, SnapshotFields
  <2> QED BY <1>t, <1>5, <2>1, ParamsWritten DEF RestoreParams, RowsUnchanged
<1>6. CASE NextIteration
  <2>1. run.bestPid \in Params
    BY RunFields DEF TypeInv, TypeOK, Params
  <2> QED BY <1>t, <1>6, <2>1, ParamsWritten
          DEF NextIteration, AfterDiscards, git, RowsUnchanged
<1>7. CASE Crash
  <2>1. disk'.rows = disk.rows
    <3>1. Blank \in Params
      BY DEF Params
    <3> QED BY <1>t, <1>7, <3>1, ParamsWritten DEF Crash
  <2> QED BY <1>7, <2>1 DEF Crash, RowsUnchanged, RowsStaged
<1>8. CASE StageAll
  BY <1>8 DEF StageAll, RowsUnchanged, RowsStaged
<1>9. CASE UNCHANGED vars
  BY <1>9 DEF vars, git, RowsUnchanged
<1> QED
  BY <1>1, <1>2, <1>3, <1>4, <1>5, <1>6, <1>7, <1>8, <1>9 DEF Next, Workspace, Loop
LEMMA AppendRowRows ==
  ASSUME TypeInv, AppendRow
  PROVE  /\ NewRow \in Row
         /\ \/ /\ disk'.rows = Append(disk.rows, NewRow)
               /\ pc' \in {"stage", "restore"}
            \/ disk'.rows = disk.rows /\ pc' = "down"
<1>1. NewRow \in Row
  BY NewRowType DEF AppendRow
<1>2. disk \in Snapshot /\ disk.rows \in Seq(Row)
  BY SnapshotFields DEF TypeInv, TypeOK
<1>3. Append(disk.rows, NewRow) \in Seq(Row)
  BY <1>1, <1>2, AppendType
<1>4. /\ WithRows(disk, Append(disk.rows, NewRow)).rows = Append(disk.rows, NewRow)
      /\ WithSentinel(disk, FALSE).rows = disk.rows
  BY <1>2, <1>3, RowsWritten, SentinelWritten
<1>5. \/ /\ disk' = WithRows(disk, Append(disk.rows, NewRow))
         /\ pc' \in {"stage", "restore"}
      \/ disk' = WithSentinel(disk, FALSE) /\ pc' = "down"
  BY DEF AppendRow
<1> QED BY <1>1, <1>4, <1>5

LEMMA LogInit == Init => LogIsPrefixChain
  BY DEF Init, LogIsPrefixChain, Extends, NoFiles, HeadCommit

LEMMA LogNext == TypeInv /\ LogIsPrefixChain /\ [Next]_vars => LogIsPrefixChain'
<1> SUFFICES ASSUME TypeInv, LogIsPrefixChain, [Next]_vars
             PROVE  LogIsPrefixChain'
  OBVIOUS
<1>t. /\ disk \in Snapshot /\ index \in Snapshot /\ commits \in Seq(Snapshot)
      /\ disk.rows \in Seq(Row) /\ index.rows \in Seq(Row)
  BY SnapshotFields DEF TypeInv, TypeOK
<1>h. HeadCommit \in Snapshot /\ HeadCommit.rows \in Seq(Row)
  BY <1>t, HeadIsSnapshot, SnapshotFields
<1>c. /\ Extends(HeadCommit.rows, index.rows)
      /\ Extends(index.rows, disk.rows)
      /\ Extends(HeadCommit.rows, disk.rows)
  BY <1>t, <1>h, ExtendsTransitive DEF LogIsPrefixChain
<1>1. CASE RowsUnchanged
  BY <1>1 DEF RowsUnchanged, LogIsPrefixChain, HeadCommit
<1>2. CASE RowsStaged
  BY <1>t, <1>c, <1>2, ExtendsReflexive
     DEF RowsStaged, LogIsPrefixChain, HeadCommit
<1>3. CASE RecoverReset
  BY <1>h, <1>c, <1>3, ExtendsReflexive
     DEF RecoverReset, LogIsPrefixChain, HeadCommit
<1>4. CASE AppendRow
  <2>3. Extends(index.rows, disk'.rows)
    BY <1>t, <1>c, <1>4, AppendRowRows, ExtendsAppend
  <2> QED BY <1>4, <2>3 DEF AppendRow, git, LogIsPrefixChain, HeadCommit
<1>5. ASSUME NEW files \in Snapshot,
             commits' = Append(commits, files),
             Extends(HeadCommit.rows, files.rows)
      PROVE  /\ \A i \in 1..(Len(commits') - 1) :
                  Extends(commits'[i].rows, commits'[i + 1].rows)
             /\ HeadCommit' = files
  <2>1. HeadCommit' = files
    BY <1>t, <1>5, HeadAfterCommit
  <2>2. ASSUME NEW i \in 1..(Len(commits') - 1)
        PROVE  Extends(commits'[i].rows, commits'[i + 1].rows)
    <3>1. /\ Len(commits') = Len(commits) + 1
          /\ commits'[Len(commits) + 1] = files
          /\ \A j \in 1..Len(commits) : commits'[j] = commits[j]
      BY <1>t, <1>5, AppendType
    <3>2. CASE i = Len(commits)
      <4>1. commits[Len(commits)] = HeadCommit
        BY <1>t, <2>2, <3>1, <3>2 DEF HeadCommit
      <4> QED BY <1>5, <2>2, <3>1, <3>2, <4>1
    <3>3. CASE i # Len(commits)
      <4>1. i \in 1..(Len(commits) - 1) /\ i + 1 \in 1..Len(commits)
        BY <1>t, <2>2, <3>1, <3>3
      <4> QED BY <3>1, <4>1 DEF LogIsPrefixChain
    <3> QED BY <3>2, <3>3
  <2> QED BY <2>1, <2>2
<1>6. CASE InitialCommit
  <2>1. CASE commits' = Append(commits, disk) /\ index' = disk
    <3>1. /\ \A i \in 1..(Len(commits') - 1) :
               Extends(commits'[i].rows, commits'[i + 1].rows)
          /\ HeadCommit' = disk
      BY <1>t, <1>c, <1>5, <2>1
    <3>2. disk' = disk
      BY <1>6 DEF InitialCommit
    <3> QED BY <1>t, <2>1, <3>1, <3>2, ExtendsReflexive DEF LogIsPrefixChain
  <2>2. CASE UNCHANGED commits /\ index' \in {index, disk}
    BY <1>t, <1>c, <1>6, <2>2, ExtendsReflexive
       DEF InitialCommit, LogIsPrefixChain, HeadCommit
  <2> QED BY <1>6, <2>1, <2>2 DEF InitialCommit
<1>7. CASE Commit
  <2>1. CASE commits' = Append(commits, index)
    <3>1. /\ \A i \in 1..(Len(commits') - 1) :
               Extends(commits'[i].rows, commits'[i + 1].rows)
          /\ HeadCommit' = index
      BY <1>t, <1>c, <1>5, <2>1
    <3>2. disk' = disk /\ index' = index
      BY <1>7 DEF Commit
    <3> QED BY <1>t, <1>c, <3>1, <3>2, ExtendsReflexive DEF LogIsPrefixChain
  <2>2. CASE UNCHANGED commits
    BY <1>7, <2>2 DEF Commit, LogIsPrefixChain, HeadCommit
  <2> QED BY <1>7, <2>1, <2>2 DEF Commit
<1> QED
  BY <1>1, <1>2, <1>3, <1>4, <1>6, <1>7, RowsUnchangedElsewhere

\* The results log only grows at its end: each commit extends the previous
\* one, the index extends HEAD and results.tsv extends the index, for any
\* number of experiments, crashes and failing commands.
THEOREM LogCorrect == Spec => []LogIsPrefixChain
  BY TypeInvInit, TypeInvNext, LogInit, LogNext, PTL DEF Spec

\* The workspace implements the abstract experiment log: rows are added at
\* the end only, a commit never makes a committed row disappear, and a
\* restart after a crash drops uncommitted rows only.
THEOREM WorkspaceImplementsLog == Spec => ImplementsExperimentLog
<1>1. Init => Log!Init
  BY DEF Init, Log!Init, NoFiles, HeadCommit
<1>2. ASSUME TypeInv, LogIsPrefixChain, LogIsPrefixChain', TypeInv', [Next]_vars
      PROVE  [Log!Next]_<<disk.rows, Len(HeadCommit.rows)>>
  <2>t. /\ disk \in Snapshot /\ index \in Snapshot /\ commits \in Seq(Snapshot)
        /\ disk.rows \in Seq(Row) /\ index.rows \in Seq(Row)
    BY <1>2, SnapshotFields DEF TypeInv, TypeOK
  <2>h. HeadCommit \in Snapshot /\ HeadCommit.rows \in Seq(Row)
    BY <2>t, HeadIsSnapshot, SnapshotFields
  <2>c. /\ Extends(HeadCommit.rows, index.rows)
        /\ Extends(index.rows, disk.rows)
        /\ Extends(HeadCommit.rows, disk.rows)
    BY <1>2, <2>t, <2>h, ExtendsTransitive DEF LogIsPrefixChain
  <2>1. CASE RowsUnchanged \/ RowsStaged
    BY <2>1 DEF RowsUnchanged, RowsStaged, HeadCommit
  <2>2. CASE RecoverReset
    <3>1. CASE disk' = HeadCommit
      <4>1. disk'.rows = SubSeq(disk.rows, 1, Len(HeadCommit.rows))
        BY <2>t, <2>h, <2>c, <3>1, ExtendsSubSeq
      <4>2. HeadCommit' = HeadCommit
        BY <2>2 DEF RecoverReset, HeadCommit
      <4> QED BY <4>1, <4>2 DEF Log!Next, Log!Lose
    <3>2. CASE disk' = disk
      BY <2>2, <3>2 DEF RecoverReset, HeadCommit
    <3> QED BY <2>2, <3>1, <3>2 DEF RecoverReset
  <2>3. CASE AppendRow
    <3>1. HeadCommit' = HeadCommit
      BY <2>3 DEF AppendRow, git, HeadCommit
    <3> QED BY <1>2, <2>3, <3>1, AppendRowRows DEF Log!Next, Log!Record
  <2>4. ASSUME NEW files \in Snapshot, commits' = Append(commits, files),
               Extends(HeadCommit.rows, files.rows),
               Extends(files.rows, disk.rows), disk' = disk
        PROVE  [Log!Next]_<<disk.rows, Len(HeadCommit.rows)>>
    <3>1. HeadCommit' = files
      BY <2>t, <2>4, HeadAfterCommit
    <3>2. /\ files.rows \in Seq(Row)
          /\ Len(files.rows) \in Len(HeadCommit.rows)..Len(disk.rows)
      BY <2>t, <2>h, <2>4, SnapshotFields DEF Extends
    <3>3. CASE Len(files.rows) = Len(HeadCommit.rows)
      BY <2>4, <3>1, <3>3
    <3>4. CASE Len(files.rows) # Len(HeadCommit.rows)
      <4>1. Len(files.rows) \in (Len(HeadCommit.rows) + 1)..Len(disk.rows)
        BY <2>t, <2>h, <3>2, <3>4
      <4> QED BY <2>4, <3>1, <4>1 DEF Log!Next, Log!Flush
    <3> QED BY <3>3, <3>4
  <2>5. CASE InitialCommit
    <3>1. disk' = disk
      BY <2>5 DEF InitialCommit
    <3>2. CASE commits' = Append(commits, disk)
      BY <2>t, <2>c, <2>4, <3>1, <3>2, ExtendsReflexive
    <3>3. CASE UNCHANGED commits
      BY <3>1, <3>3 DEF HeadCommit
    <3> QED BY <2>5, <3>2, <3>3 DEF InitialCommit
  <2>6. CASE Commit
    <3>1. disk' = disk
      BY <2>6 DEF Commit
    <3>2. CASE commits' = Append(commits, index)
      BY <2>t, <2>c, <2>4, <3>1, <3>2
    <3>3. CASE UNCHANGED commits
      BY <3>1, <3>3 DEF HeadCommit
    <3> QED BY <2>6, <3>2, <3>3 DEF Commit
  <2> QED BY <1>2, <2>1, <2>2, <2>3, <2>5, <2>6, RowsUnchangedElsewhere
<1> QED
  BY <1>1, <1>2, TypeInvInit, TypeInvNext, LogInit, LogNext, PTL
     DEF Spec, ImplementsExperimentLog, Log!Spec
-----------------------------------------------------------------------------
(* The kept rows.  KeptRowsDominate is not inductive: that a discarded      *)
(* score is dominated follows from what run remembers, so the invariant     *)
(* must say that the best score of a running loop is in results.tsv.        *)

BestRecorded == \E j \in 1..Len(disk.rows) :
                  /\ disk.rows[j].keep
                  /\ disk.rows[j].score = PrintedScore[run.bestScore]

MemoryIsRecorded ==
  /\ pc \in {"propose", "write", "experiment"} /\ run.exp > 0 => BestRecorded
  /\ pc \in {"sentinel", "append"} =>
       \/ cand.keep /\ cand.score = run.bestScore
       \/ ~cand.keep /\ cand.score <= run.bestScore /\ BestRecorded
  /\ pc \in {"restore", "stage", "commit", "tag", "release", "next"} =>
       BestRecorded

KeptInv == KeptRowsDominate /\ MemoryIsRecorded

LEMMA KeptInit == Init => KeptInv
  BY DEF Init, KeptInv, KeptRowsDominate, MemoryIsRecorded, NoFiles

LEMMA KeptNext ==
  TypeInv /\ LogIsPrefixChain /\ KeptInv /\ [Next]_vars => KeptInv'
<1> SUFFICES ASSUME TypeInv, LogIsPrefixChain, KeptInv, [Next]_vars
             PROVE  KeptInv'
  OBVIOUS
<1>t. /\ disk \in Snapshot /\ index \in Snapshot /\ commits \in Seq(Snapshot)
      /\ disk.rows \in Seq(Row) /\ index.rows \in Seq(Row)
      /\ run \in RunState /\ cand \in CandState /\ pc \in Steps
      /\ run.exp \in Nat /\ run.bestScore \in 0..MaxScore
      /\ cand.score \in 0..MaxScore /\ cand.keep \in BOOLEAN
  BY AutoResearchAssumption, SnapshotFields, RunFields, CandFields
     DEF TypeInv, TypeOK
<1>h. HeadCommit \in Snapshot /\ HeadCommit.rows \in Seq(Row)
  BY <1>t, HeadIsSnapshot, SnapshotFields
<1>c. Extends(HeadCommit.rows, disk.rows)
  BY <1>t, <1>h, ExtendsTransitive DEF LogIsPrefixChain
\* Rows, best score and candidate stay: only the step of the loop changes.
<1>1. ASSUME disk'.rows = disk.rows, run'.bestScore = run.bestScore,
             MemoryIsRecorded, MemoryIsRecorded'
      PROVE  KeptInv'
  BY <1>1 DEF KeptInv, KeptRowsDominate
<1>2. CASE Open \/ Finish \/ Crash \/ RecoverUnlink \/ Create \/ Populate
             \/ InitialCommit
  <2>1. disk'.rows = disk.rows
    <3>1. CASE InitialCommit
      BY <3>1 DEF InitialCommit
    <3>2. CASE Crash
      <4>1. Blank \in Params
        BY DEF Params
      <4> QED BY <1>t, <3>2, <4>1, ParamsWritten DEF Crash
    <3>3. CASE Open \/ Finish
      BY <3>3 DEF Open, Finish
    <3>4. CASE RecoverUnlink
      BY <1>t, <3>4, SentinelWritten DEF RecoverUnlink
    <3>5. CASE Create \/ Populate
      <4>1. ReadParams(disk.params) \in Params
        BY <1>t, SnapshotFields, ReadParamsType DEF Params
      <4> QED BY <1>t, <3>5, <4>1, ParamsWritten DEF Create, Populate
    <3> QED BY <1>2, <3>1, <3>2, <3>3, <3>4, <3>5
  <2>2. run' = run /\ pc' \in {"down", "recover", "unlink", "create",
                                "populate", "initial", "begin", "done"}
    BY <1>2 DEF Open, Finish, Crash, RecoverUnlink, Create, Populate,
                InitialCommit, mem
  <2>3. MemoryIsRecorded'
    BY <2>2 DEF MemoryIsRecorded
  <2> QED BY <1>1, <2>1, <2>2, <2>3 DEF KeptInv
<1>3. CASE RecoverReset
  <2>1. MemoryIsRecorded'
    BY <1>3 DEF RecoverReset, MemoryIsRecorded
  <2>2. CASE disk' = disk
    BY <2>1, <2>2 DEF KeptInv, KeptRowsDominate
  <2>3. CASE disk' = HeadCommit
    <3>1. ASSUME NEW i \in 1..Len(HeadCommit.rows)
          PROVE  \E j \in 1..i : /\ HeadCommit.rows[j].keep
                                 /\ HeadCommit.rows[j].score
                                      >= HeadCommit.rows[i].score
      <4>1. i \in 1..Len(disk.rows) /\ HeadCommit.rows[i] = disk.rows[i]
        BY <1>t, <1>h, <1>c DEF Extends
      <4>2. PICK j \in 1..i : /\ disk.rows[j].keep
                              /\ disk.rows[j].score >= disk.rows[i].score
        BY <4>1 DEF KeptInv, KeptRowsDominate
      <4>3. HeadCommit.rows[j] = disk.rows[j]
        BY <1>t, <1>h, <1>c, <4>2, SMTT(30) DEF Extends
      <4> QED BY <4>1, <4>2, <4>3
    <3> QED BY <2>1, <2>3, <3>1 DEF KeptInv, KeptRowsDominate
  <2> QED BY <1>3, <2>2, <2>3 DEF RecoverReset
<1>4. CASE AppendRow
  <2>1. CASE disk'.rows = disk.rows /\ pc' = "down"
    <3>1. MemoryIsRecorded'
      BY <2>1 DEF MemoryIsRecorded
    <3> QED BY <2>1, <3>1 DEF KeptInv, KeptRowsDominate
  <2>2. CASE disk'.rows = Append(disk.rows, NewRow)
                /\ pc' \in {"stage", "restore"}
    <3>1. /\ Len(disk'.rows) = Len(disk.rows) + 1
          /\ \A i \in 1..Len(disk.rows) : disk'.rows[i] = disk.rows[i]
          /\ disk'.rows[Len(disk.rows) + 1] = NewRow
      BY <1>t, <1>4, <2>2, AppendRowRows, AppendType
    <3>2. NewRow.keep = cand.keep /\ NewRow.score = PrintedScore[cand.score]
      BY DEF NewRow
    <3>3. \/ cand.keep /\ cand.score = run.bestScore
          \/ ~cand.keep /\ cand.score <= run.bestScore /\ BestRecorded
      BY <1>4 DEF AppendRow, KeptInv, MemoryIsRecorded
    <3>4. run' = run /\ cand' = cand
      BY <1>4 DEF AppendRow, mem
    <3>5. \E j \in 1..Len(disk'.rows) : /\ disk'.rows[j].keep
                                         /\ disk'.rows[j].score
                                              = PrintedScore[run.bestScore]
      <4>1. CASE cand.keep /\ cand.score = run.bestScore
        <5>1. Len(disk.rows) + 1 \in 1..Len(disk'.rows)
          BY <1>t, <3>1
        <5> QED BY <3>1, <3>2, <4>1, <5>1
      <4>2. CASE BestRecorded
        <5>1. PICK j \in 1..Len(disk.rows) :
                /\ disk.rows[j].keep
                /\ disk.rows[j].score = PrintedScore[run.bestScore]
          BY <4>2 DEF BestRecorded
        <5>2. j \in 1..Len(disk'.rows) /\ disk'.rows[j] = disk.rows[j]
          BY <1>t, <3>1, <5>1
        <5> QED BY <5>1, <5>2
      <4> QED BY <3>3, <4>1, <4>2
    <3>6. MemoryIsRecorded'
      BY <2>2, <3>4, <3>5 DEF MemoryIsRecorded, BestRecorded
    <3>7. ASSUME NEW i \in 1..Len(disk'.rows)
          PROVE  \E j \in 1..i : /\ disk'.rows[j].keep
                                 /\ disk'.rows[j].score >= disk'.rows[i].score
      <4>1. CASE i \in 1..Len(disk.rows)
        <5>1. PICK j \in 1..i : /\ disk.rows[j].keep
                                /\ disk.rows[j].score >= disk.rows[i].score
          BY <4>1 DEF KeptInv, KeptRowsDominate
        <5>2. disk'.rows[j] = disk.rows[j] /\ disk'.rows[i] = disk.rows[i]
          BY <1>t, <3>1, <4>1, <5>1
        <5> QED BY <5>1, <5>2
      <4>2. CASE i = Len(disk.rows) + 1
        <5>1. CASE cand.keep
          <6>1. i \in 1..i /\ disk'.rows[i].keep
            BY <1>t, <3>1, <3>2, <4>2, <5>1
          <6>2. disk'.rows[i].score = PrintedScore[cand.score]
            BY <3>1, <3>2, <4>2
          <6>3. PrintedScore[cand.score] \in Int
            BY <1>t, Printed, AutoResearchAssumption
          <6> QED BY <6>1, <6>2, <6>3
        <5>2. CASE ~cand.keep
          <6>1. PICK j \in 1..Len(disk.rows) :
                  /\ disk.rows[j].keep
                  /\ disk.rows[j].score = PrintedScore[run.bestScore]
            BY <3>3, <5>2 DEF BestRecorded
          <6>2. j \in 1..i /\ disk'.rows[j] = disk.rows[j]
            BY <1>t, <3>1, <4>2, <6>1
          <6>3. PrintedScore[run.bestScore] >= disk'.rows[i].score
            <7>1. PrintedScore[cand.score] <= PrintedScore[run.bestScore]
              BY <1>t, Printed, <3>3, <5>2
            <7>2. /\ PrintedScore[cand.score] \in Int
                  /\ PrintedScore[run.bestScore] \in Int
              BY <1>t, Printed, AutoResearchAssumption
            <7> QED BY <3>1, <3>2, <4>2, <7>1, <7>2
          <6> QED BY <6>1, <6>2, <6>3
        <5> QED BY <5>1, <5>2
      <4> QED BY <1>t, <3>1, <4>1, <4>2
    <3> QED BY <3>6, <3>7 DEF KeptInv, KeptRowsDominate
  <2>3. \/ disk'.rows = disk.rows /\ pc' = "down"
        \/ disk'.rows = Append(disk.rows, NewRow) /\ pc' \in {"stage", "restore"}
    BY <1>4, AppendRowRows
  <2> QED BY <2>1, <2>2, <2>3
<1>5. CASE BeginRun
  <2>1. disk' = disk /\ run'.exp = 0 /\ pc' = "propose"
    BY <1>5 DEF BeginRun, IdleRun
  <2> QED BY <2>1 DEF KeptInv, KeptRowsDominate, MemoryIsRecorded
<1>6. CASE Propose
  BY <1>6 DEF Propose, KeptInv, KeptRowsDominate, MemoryIsRecorded, BestRecorded
<1>7. CASE WriteParams \/ RaiseSentinel \/ RestoreParams \/ StageAll \/ Commit
             \/ TagBest \/ ReleaseSentinel
  <2>1. disk'.rows = disk.rows
    <3>1. CASE Commit
      BY <3>1 DEF Commit
    <3>2. CASE ~Commit
      <4>1. ~RecoverReset /\ ~AppendRow /\ ~InitialCommit
        BY <1>7, <3>2 DEF WriteParams, RaiseSentinel, RestoreParams, StageAll,
             TagBest, ReleaseSentinel, RecoverReset, AppendRow, InitialCommit
      <4> QED BY <3>2, <4>1, RowsUnchangedElsewhere
              DEF RowsUnchanged, RowsStaged
    <3> QED BY <3>1, <3>2
  <2>2. run' = run /\ cand' = cand
    BY <1>7 DEF WriteParams, RaiseSentinel, RestoreParams, StageAll, Commit,
                TagBest, ReleaseSentinel, mem
  <2>3. BestRecorded => BestRecorded'
    BY <2>1, <2>2 DEF BestRecorded
  <2>4. MemoryIsRecorded'
    BY <1>7, <2>2, <2>3 DEF WriteParams, RaiseSentinel, RestoreParams, StageAll,
         Commit, TagBest, ReleaseSentinel, KeptInv, MemoryIsRecorded
  <2> QED BY <1>1, <2>1, <2>2, <2>4 DEF KeptInv
<1>8. CASE Experiment
  <2>1. PICK s \in 0..MaxScore, st \in Statuses :
          /\ cand' = [cand EXCEPT !.score = s, !.status = st,
                          !.keep = Keep(s)]
          /\ run' = IF Keep(s)
                      THEN [run EXCEPT !.bestScore = s, !.bestPid = cand.pid,
                                       !.discards = 0]
                      ELSE [run EXCEPT !.discards = @ + 1]
          /\ disk' = disk /\ pc = "experiment" /\ pc' = "sentinel"
    BY <1>8 DEF Experiment, Remember
  <2>2. cand'.score = s /\ cand'.keep = Keep(s)
    BY <1>t, <2>1 DEF CandState
  <2>3. run'.bestScore = IF Keep(s) THEN s ELSE run.bestScore
    BY <1>t, <2>1 DEF RunState
  <2>4. CASE Keep(s)
    BY <2>1, <2>2, <2>3, <2>4 DEF KeptInv, KeptRowsDominate, MemoryIsRecorded
  <2>5. CASE ~Keep(s)
    <3>1. s <= run.bestScore /\ run.exp > 0
      BY <1>t, <2>5, AutoResearchAssumption DEF Keep
    <3>2. BestRecorded'
      BY <2>1, <2>3, <2>5, <3>1 DEF KeptInv, MemoryIsRecorded, BestRecorded
    <3> QED BY <2>1, <2>2, <2>3, <2>5, <3>1, <3>2
            DEF KeptInv, KeptRowsDominate, MemoryIsRecorded
  <2> QED BY <2>4, <2>5
<1>9. CASE NextIteration
  <2>1. disk'.rows = disk.rows
    <3>1. ~RecoverReset /\ ~AppendRow /\ ~InitialCommit /\ ~Commit
      BY <1>9 DEF NextIteration, RecoverReset, AppendRow, InitialCommit, Commit
    <3> QED BY <3>1, RowsUnchangedElsewhere DEF RowsUnchanged, RowsStaged
  <2>2. run'.bestScore = run.bestScore
    BY <1>t, <1>9 DEF NextIteration, RunState
  <2>3. BestRecorded'
    BY <1>9, <2>1, <2>2
       DEF NextIteration, KeptInv, MemoryIsRecorded, BestRecorded
  <2>4. pc' \in {"propose", "done"}
    BY <1>9 DEF NextIteration
  <2> QED BY <1>1, <2>1, <2>2, <2>3, <2>4 DEF KeptInv, MemoryIsRecorded
<1>10. CASE UNCHANGED vars
  BY <1>10 DEF vars, mem, KeptInv, KeptRowsDominate, MemoryIsRecorded,
               BestRecorded
<1> QED
  BY <1>2, <1>3, <1>4, <1>5, <1>6, <1>7, <1>8, <1>9, <1>10
     DEF Next, Workspace, Loop

\* get_best_params, which looks at kept rows only, misses no better score:
\* over all runs in a workspace, lost and rolled back experiments included.
THEOREM KeptRowsCorrect == Spec => []KeptRowsDominate
<1>1. KeptInv => KeptRowsDominate
  BY DEF KeptInv
<1> QED BY <1>1, TypeInvInit, TypeInvNext, LogInit, LogNext, KeptInit, KeptNext,
           PTL DEF Spec
-----------------------------------------------------------------------------
(* What params.yaml holds, and what is applied to the joint.               *)

ParamsInv ==
  /\ pc \in {"experiment", "sentinel", "append"} => disk.params = cand.pid
  /\ pc \in {"sentinel", "append"} /\ run.discards = 0 =>
       cand.keep /\ run.bestPid = cand.pid
  /\ pc \in {"sentinel", "append"} /\ cand.keep => run.discards = 0
  /\ pc = "restore" => run.discards > 0
  /\ pc \in {"stage", "commit", "tag", "release", "next"} /\ run.discards = 0 =>
       disk.params = run.bestPid
  /\ BestOnDisk

LEMMA ParamsInit == Init => ParamsInv
  BY DEF Init, ParamsInv, BestOnDisk, LoopTop

LEMMA ParamsNext == TypeInv /\ ParamsInv /\ [Next]_vars => ParamsInv'
<1> SUFFICES ASSUME TypeInv, ParamsInv, [Next]_vars PROVE ParamsInv'
  OBVIOUS
<1>t. /\ disk \in Snapshot /\ run \in RunState /\ cand \in CandState
      /\ cand.pid \in Params /\ run.bestPid \in Params
      /\ run.discards \in Nat /\ run.exp \in Nat
      /\ disk.rows \in Seq(Row) /\ cand.keep \in BOOLEAN
  <2>1. disk \in Snapshot /\ run \in RunState /\ cand \in CandState
    BY DEF TypeInv, TypeOK
  <2>2. disk.rows \in Seq(Row) /\ cand.keep \in BOOLEAN /\ cand.pid \in Params
    BY <2>1, SnapshotFields, CandFields DEF Params
  <2>3. run.bestPid \in Params /\ run.discards \in Nat /\ run.exp \in Nat
    BY <2>1, RunFields, AutoResearchAssumption DEF Params, DiscardLimit
  <2> QED BY <2>1, <2>2, <2>3
<1> USE DEF ParamsInv, BestOnDisk, LoopTop
<1>1. CASE Open \/ RecoverReset \/ RecoverUnlink \/ Create \/ Populate
             \/ InitialCommit
  BY <1>1 DEF Open, RecoverReset, RecoverUnlink, Create, Populate, InitialCommit
<1>2. CASE Finish \/ Crash
  BY <1>2 DEF Finish, Crash
<1>3. CASE BeginRun
  <2>1. run'.exp = 0 /\ pc' = "propose"
    BY <1>3 DEF BeginRun, IdleRun
  <2> QED BY <2>1
<1>4. CASE Propose
  BY <1>4 DEF Propose
<1>5. CASE WriteParams
  <2>1. disk'.params = cand.pid
    BY <1>t, <1>5, ParamsWritten DEF WriteParams
  <2> QED BY <1>5, <2>1 DEF WriteParams, mem
<1>6. CASE Experiment
  <2>1. PICK s \in 0..MaxScore, st \in Statuses :
          /\ cand' = [cand EXCEPT !.score = s, !.status = st,
                          !.keep = Keep(s)]
          /\ run' = IF Keep(s)
                      THEN [run EXCEPT !.bestScore = s, !.bestPid = cand.pid,
                                       !.discards = 0]
                      ELSE [run EXCEPT !.discards = @ + 1]
          /\ disk' = disk /\ pc = "experiment" /\ pc' = "sentinel"
    BY <1>6 DEF Experiment, Remember
  <2>2. cand'.pid = cand.pid /\ cand'.keep = Keep(s)
    BY <1>t, <2>1 DEF CandState
  <2>3. CASE Keep(s)
    <3>1. run'.discards = 0 /\ run'.bestPid = cand.pid
      BY <1>t, <2>1, <2>3 DEF RunState
    <3> QED BY <2>1, <2>2, <2>3, <3>1
  <2>4. CASE ~Keep(s)
    <3>1. run'.discards = run.discards + 1
      BY <1>t, <2>1, <2>4 DEF RunState
    <3>2. run'.discards # 0
      BY <1>t, <3>1
    <3> QED BY <2>1, <2>2, <2>4, <3>2
  <2> QED BY <2>3, <2>4
<1>7. CASE RaiseSentinel
  <2>1. disk'.params = disk.params
    BY <1>t, <1>7, SentinelWritten DEF RaiseSentinel
  <2> QED BY <1>7, <2>1 DEF RaiseSentinel, mem
<1>8. CASE AppendRow
  <2>1. CASE pc' = "down"
    BY <2>1
  <2>2. CASE disk' = WithRows(disk, Append(disk.rows, NewRow))
    <3>1. disk'.params = disk.params
      <4>1. Append(disk.rows, NewRow) \in Seq(Row)
        BY <1>t, <1>8, AppendRowRows, AppendType
      <4> QED BY <1>t, <2>2, <4>1, RowsWritten
    <3>2. cand.keep \/ run.discards > 0
      BY <1>t, <1>8 DEF AppendRow
    <3> QED BY <1>8, <2>1, <3>1, <3>2 DEF AppendRow, mem
  <2> QED BY <1>8, <2>1, <2>2 DEF AppendRow
<1>9. CASE RestoreParams
  BY <1>t, <1>9 DEF RestoreParams, mem
<1>10. CASE StageAll \/ Commit \/ TagBest
  BY <1>10 DEF StageAll, Commit, TagBest, mem
<1>11. CASE ReleaseSentinel
  <2>1. disk'.params = disk.params
    BY <1>t, <1>11, SentinelWritten DEF ReleaseSentinel
  <2> QED BY <1>11, <2>1 DEF ReleaseSentinel, mem
<1>12. CASE NextIteration
  <2>1. run'.bestPid = run.bestPid
    BY <1>t, <1>12 DEF NextIteration, RunState
  <2>2. CASE ResetDue
    <3>1. disk'.params = run.bestPid
      BY <1>t, <1>12, <2>2, ParamsWritten DEF NextIteration, AfterDiscards
    <3> QED BY <1>12, <2>1, <3>1 DEF NextIteration
  <2>3. CASE ~ResetDue
    <3>1. disk' = disk /\ run'.discards = run.discards
      BY <1>t, <1>12, <2>3 DEF NextIteration, AfterDiscards, RunState
    <3> QED BY <1>12, <2>1, <3>1 DEF NextIteration
  <2> QED BY <2>2, <2>3
<1>13. CASE UNCHANGED vars
  BY <1>13 DEF vars, mem
<1> QED
  BY <1>1, <1>2, <1>3, <1>4, <1>5, <1>6, <1>7, <1>8, <1>9, <1>10, <1>11, <1>12,
     <1>13 DEF Next, Workspace, Loop

\* After a kept experiment, or the reset that follows three discards,
\* params.yaml holds the best gains of the run, whatever git did.
THEOREM BestOnDiskCorrect == Spec => []BestOnDisk
<1>1. ParamsInv => BestOnDisk
  BY DEF ParamsInv
<1> QED BY <1>1, TypeInvInit, TypeInvNext, ParamsInit, ParamsNext, PTL DEF Spec

\* Every gain applied to the joint or recorded in results.tsv is inside the
\* safety bounds, even when params.yaml was torn or held out-of-bounds values.
THEOREM AppliedGainsInBounds == Spec => []AppliedInBounds
<1>1. TypeInv /\ ParamsInv => AppliedInBounds
  <2> SUFFICES ASSUME TypeInv, ParamsInv PROVE AppliedInBounds
    OBVIOUS
  <2>1. pc = "experiment" => cand.pid \in Gains /\ disk.params = cand.pid
    BY DEF TypeInv, CandInBounds, RunningSteps, ParamsInv
  <2>2. disk.rows \in Seq(Row)
    BY SnapshotFields DEF TypeInv, TypeOK
  <2>3. \A i \in 1..Len(disk.rows) : disk.rows[i].pid \in Gains
    <3>1. \A row \in Row : row.pid \in Gains
      BY DEF Row
    <3> QED BY <2>2, <3>1
  <2> QED BY <2>1, <2>3 DEF AppliedInBounds
<1> QED BY <1>1, TypeInvInit, TypeInvNext, ParamsInit, ParamsNext, PTL DEF Spec
-----------------------------------------------------------------------------
(* The sentinel, and the rows it guards.                                   *)

\* The sentinel lies in the working tree exactly while an experiment is being
\* recorded, and wherever a process that died has left it.
SentinelInv ==
  /\ pc \in {"create", "populate", "initial", "begin", "propose", "write",
             "experiment", "sentinel", "next", "done"} => ~disk.sentinel
  /\ pc \in {"append", "restore", "stage", "commit"} => disk.sentinel

\* Without a sentinel the rows are those of HEAD, and so they are when one is
\* about to be removed.
RowsAreCommitted == disk.rows = HeadCommit.rows

RowsInv ==
  GitAvailable /\ faults = 0 =>
    /\ pc = "commit" => index.rows = disk.rows
    /\ commits # <<>> /\ (~disk.sentinel \/ pc \in {"unlink", "tag", "release"})
         => RowsAreCommitted

RecordInv == SentinelInv /\ RowsInv

\* What writing one file does to the others.
LEMMA OneFileWritten ==
  ASSUME NEW d \in Snapshot, NEW p, NEW t, NEW b
  PROVE  /\ WithParams(d, p).rows = d.rows
         /\ WithParams(d, p).sentinel = d.sentinel
         /\ WithRows(d, t).sentinel = d.sentinel
         /\ WithRows(d, t).params = d.params
         /\ WithRows(d, t).rows = t
         /\ WithSentinel(d, b).rows = d.rows
         /\ WithSentinel(d, b).params = d.params
         /\ WithSentinel(d, b).sentinel = b
  BY DEF Snapshot, WithParams, WithRows, WithSentinel

LEMMA RecordInit == Init => RecordInv
  BY DEF Init, RecordInv, SentinelInv, RowsInv

LEMMA SentinelNext ==
  ASSUME TypeInv, SentinelInv, [Next]_vars
  PROVE  SentinelInv'
<1>t. disk \in Snapshot
  BY DEF TypeInv, TypeOK
<1> USE DEF SentinelInv
<1>1. CASE Open \/ RecoverReset \/ Finish \/ Crash
  BY <1>1 DEF Open, RecoverReset, Finish, Crash
<1>2. CASE RecoverUnlink \/ ReleaseSentinel \/ RaiseSentinel
  BY <1>t, <1>2, OneFileWritten, ZenonT(30) DEF RecoverUnlink, ReleaseSentinel, RaiseSentinel
<1>3. CASE Create \/ Populate \/ InitialCommit
  BY <1>t, <1>3, OneFileWritten DEF Create, Populate, InitialCommit
<1>4. CASE BeginRun \/ Propose \/ Experiment
  BY <1>4 DEF BeginRun, Propose, Experiment
<1>5. CASE WriteParams \/ NextIteration
  BY <1>t, <1>5, OneFileWritten DEF WriteParams, NextIteration, AfterDiscards
<1>6. CASE AppendRow \/ RestoreParams
  <2>1. CASE AppendRow /\ pc' = "down"
    BY <2>1
  <2>2. CASE AppendRow /\ pc' # "down"
    <3>1. disk' = WithRows(disk, Append(disk.rows, NewRow))
      BY <2>2 DEF AppendRow
    <3>2. disk'.sentinel = disk.sentinel
      BY <1>t, <3>1, OneFileWritten
    <3> QED BY <2>2, <3>2 DEF AppendRow
  <2>3. CASE RestoreParams
    BY <1>t, <2>3, OneFileWritten DEF RestoreParams
  <2> QED BY <1>6, <2>1, <2>2, <2>3
<1>7. CASE StageAll \/ Commit \/ TagBest
  BY <1>7 DEF StageAll, Commit, TagBest
<1>8. CASE UNCHANGED vars
  BY <1>8 DEF vars
<1> QED BY <1>1, <1>2, <1>3, <1>4, <1>5, <1>6, <1>7, <1>8 DEF Next, Workspace, Loop

\* A step that fails no command, leaves the commits alone and the rows.
LEMMA RowsStay ==
  ASSUME RowsInv, commits' = commits, disk'.rows = disk.rows, pc' # "commit",
         GitAvailable /\ faults' = 0 => faults = 0,
         GitAvailable /\ (~disk'.sentinel \/ pc' \in {"unlink", "tag", "release"})
           => ~disk.sentinel \/ pc \in {"unlink", "tag", "release"}
  PROVE  RowsInv'
  BY DEF RowsInv, RowsAreCommitted, HeadCommit

LEMMA RowsNext ==
  ASSUME TypeInv, SentinelInv, RowsInv, [Next]_vars
  PROVE  RowsInv'
<1>t. /\ disk \in Snapshot /\ index \in Snapshot /\ commits \in Seq(Snapshot)
      /\ faults \in Nat
  BY DEF TypeInv, TypeOK
<1>f. Fault => faults' # 0
  BY <1>t DEF Fault
<1>1. CASE Open \/ Finish
  BY <1>1, RowsStay DEF Open, Finish, git
<1>2. CASE RecoverReset
  <2>1. CASE disk' = HeadCommit
    BY <1>2, <2>1 DEF RecoverReset, RowsInv, RowsAreCommitted, HeadCommit
  <2>2. CASE commits = <<>> \/ Fault
    BY <1>2, <1>f, <2>2 DEF RecoverReset, RowsInv
  <2> QED BY <1>2, <2>1, <2>2 DEF RecoverReset
<1>3. CASE RecoverUnlink \/ ReleaseSentinel
  <2>1. disk'.rows = disk.rows /\ commits' = commits /\ faults' = faults
    <3>1. disk' = WithSentinel(disk, FALSE) /\ commits' = commits /\ faults' = faults
      BY <1>3 DEF RecoverUnlink, ReleaseSentinel, git
    <3>2. WithSentinel(disk, FALSE).rows = disk.rows
      BY <1>t, OneFileWritten
    <3> QED BY <3>1, <3>2
  <2> QED BY <1>3, <2>1, RowsStay DEF RecoverUnlink, ReleaseSentinel
<1>4. CASE Create
  <2>1. disk'.rows = disk.rows /\ disk'.sentinel = disk.sentinel /\ commits' = commits
    BY <1>t, <1>4, OneFileWritten DEF Create
  <2> QED BY <1>4, <1>f, <2>1, RowsStay DEF Create
<1>5. CASE InitialCommit
  <2>1. CASE commits' = Append(commits, disk) /\ disk' = disk
    <3>1. HeadCommit' = disk
      BY <1>t, <2>1, HeadAfterCommit
    <3> QED BY <1>5, <2>1, <3>1 DEF InitialCommit, RowsInv, RowsAreCommitted
  <2>2. CASE Fault
    BY <1>f, <2>2 DEF RowsInv
  <2> QED BY <1>5, <2>1, <2>2 DEF InitialCommit
<1>6. CASE BeginRun \/ Propose \/ Experiment
  BY <1>6, RowsStay DEF BeginRun, Propose, Experiment, git
<1>7. CASE Populate \/ WriteParams \/ NextIteration
  <2>1. /\ disk'.rows = disk.rows /\ disk'.sentinel = disk.sentinel
        /\ commits' = commits /\ faults' = faults
    BY <1>t, <1>7, OneFileWritten
       DEF Populate, WriteParams, NextIteration, AfterDiscards, git
  <2> QED BY <1>7, <2>1, RowsStay DEF Populate, WriteParams, NextIteration
<1>8. CASE RaiseSentinel
  <2>1. disk'.sentinel
    BY <1>t, <1>8, OneFileWritten DEF RaiseSentinel
  <2> QED BY <1>8, <2>1 DEF RaiseSentinel, RowsInv
<1>9. CASE AppendRow
  <2>1. CASE Fault
    BY <1>f, <2>1 DEF RowsInv
  <2>2. CASE disk' = WithRows(disk, Append(disk.rows, NewRow))
             /\ pc' \in {"stage", "restore"}
    <3>1. disk'.sentinel = disk.sentinel /\ disk.sentinel
      BY <1>t, <1>9, <2>2, OneFileWritten DEF AppendRow, SentinelInv
    <3> QED BY <2>2, <3>1 DEF RowsInv
  <2> QED BY <1>9, <2>1, <2>2 DEF AppendRow
<1>10. CASE RestoreParams
  <2>1. disk'.rows = disk.rows /\ disk'.sentinel = disk.sentinel /\ disk.sentinel
    BY <1>t, <1>10, OneFileWritten DEF RestoreParams, SentinelInv
  <2> QED BY <1>10, <2>1 DEF RestoreParams, RowsInv
<1>11. CASE StageAll
  <2>1. disk' = disk /\ disk.sentinel
    BY <1>11 DEF StageAll, SentinelInv
  <2>2. GitAvailable /\ faults' = 0 => index' = disk /\ pc' = "commit"
    BY <1>11, <1>f DEF StageAll
  <2> QED BY <1>11, <2>1, <2>2 DEF StageAll, RowsInv
<1>12. CASE Commit
  <2> SUFFICES ASSUME GitAvailable, faults' = 0 PROVE RowsAreCommitted'
    BY <1>12 DEF Commit, RowsInv
  <2>1. disk' = disk /\ index.rows = disk.rows
    BY <1>12, <1>f DEF Commit, RowsInv
  <2>2. HeadCommit' = index
    <3>1. CASE commits' = Append(commits, index)
      BY <1>t, <3>1, HeadAfterCommit
    <3>2. CASE index = HeadCommit /\ commits' = commits
      BY <3>2 DEF HeadCommit
    <3> QED BY <1>12, <1>f, <3>1, <3>2 DEF Commit
  <2> QED BY <2>1, <2>2 DEF RowsAreCommitted
<1>13. CASE TagBest
  BY <1>13, <1>f, RowsStay DEF TagBest
<1>14. CASE Crash
  <2>1. /\ disk'.rows = disk.rows /\ disk'.sentinel = disk.sentinel
        /\ commits' = commits /\ faults' = faults
    BY <1>t, <1>14, OneFileWritten DEF Crash
  <2> QED BY <1>14, <2>1, RowsStay DEF Crash
<1>15. CASE UNCHANGED vars
  BY <1>15 DEF vars, git, RowsInv, RowsAreCommitted, HeadCommit
<1> QED BY <1>1, <1>2, <1>3, <1>4, <1>5, <1>6, <1>7, <1>8, <1>9, <1>10, <1>11,
           <1>12, <1>13, <1>14, <1>15 DEF Next, Workspace, Loop

\* PIDWorkspace.commit_experiment and _recover: no experiment stays recorded
\* by half, whenever the process dies, and the sentinel is raised for the
\* recording alone.
THEOREM NothingHalfRecorded == Spec => []NoHalfRecorded
<1>1. RecordInv => NoHalfRecorded
  BY DEF RecordInv, SentinelInv, RowsInv, RowsAreCommitted, NoHalfRecorded, LoopTop
<1>2. TypeInv /\ RecordInv /\ [Next]_vars => RecordInv'
  BY SentinelNext, RowsNext DEF RecordInv
<1> QED BY <1>1, <1>2, TypeInvInit, TypeInvNext, RecordInit, PTL DEF Spec
-----------------------------------------------------------------------------
(* What the tags name.                                                     *)

\* The files of c end with the current experiment and hold its gains.
Recorded(c) == /\ Len(c.rows) > 0 /\ c.rows[Len(c.rows)] = NewRow
               /\ c.params = cand.pid

\* What a tag of experiment k names.
Names(c, k) == /\ Len(c.rows) > 0
               /\ c.rows[Len(c.rows)].exp = k /\ c.rows[Len(c.rows)].keep
               /\ c.params \in Gains
               /\ c.rows[Len(c.rows)].pid = PrintedPid[c.params]

TagInv ==
  /\ pc = "restore" => ~cand.keep
  /\ faults = 0 =>
       /\ \A k \in 0..(MaxExperiments - 1) :
            tags[k] # 0 => tags[k] <= Len(commits) /\ Names(commits[tags[k]], k)
       /\ pc = "stage" /\ cand.keep => Recorded(disk)
       /\ pc = "commit" /\ cand.keep => Recorded(index)
       /\ pc = "tag" => cand.keep /\ Recorded(HeadCommit)

LEMMA TagInit == Init => TagInv
  BY DEF Init, TagInv

\* Commits stay where they are, so tags keep their meaning.
LEMMA TagsStay ==
  ASSUME TypeInv, TagInv, tags' = tags, faults' = 0 => faults = 0,
         \/ commits' = commits
         \/ \E c \in Snapshot : commits' = Append(commits, c)
  PROVE  faults' = 0 => \A k \in 0..(MaxExperiments - 1) : tags'[k] # 0 =>
           tags'[k] <= Len(commits') /\ Names(commits'[tags'[k]], k)
<1> SUFFICES ASSUME faults' = 0, NEW k \in 0..(MaxExperiments - 1), tags[k] # 0
             PROVE  tags[k] <= Len(commits') /\ Names(commits'[tags[k]], k)
  OBVIOUS
<1>1. /\ tags[k] \in 1..Len(commits) /\ Names(commits[tags[k]], k)
      /\ commits \in Seq(Snapshot)
  BY DEF TypeInv, TypeOK, TagInv
<1>2. Len(commits') >= Len(commits) /\ commits'[tags[k]] = commits[tags[k]]
  BY <1>1, AppendType
<1> QED BY <1>1, <1>2

LEMMA TagNext == TypeInv /\ ParamsInv /\ TagInv /\ [Next]_vars => TagInv'
<1> SUFFICES ASSUME TypeInv, ParamsInv, TagInv, [Next]_vars PROVE TagInv'
  OBVIOUS
<1>t. /\ disk \in Snapshot /\ index \in Snapshot /\ commits \in Seq(Snapshot)
      /\ tags \in [0..(MaxExperiments - 1) -> Nat]
      /\ run \in RunState /\ cand \in CandState /\ faults \in Nat
  BY DEF TypeInv, TypeOK
<1>f. Fault => faults' # 0
  BY <1>t DEF Fault
<1>1. CASE /\ tags' = tags /\ commits' = commits /\ faults' = faults
           /\ pc' \notin {"restore", "stage", "commit", "tag"}
  BY <1>1, TagsStay DEF TagInv
<1>2. CASE RecoverReset \/ Create
  <2>1. tags' = tags /\ commits' = commits /\ (faults' = 0 => faults = 0)
    BY <1>2, <1>f DEF RecoverReset, Create
  <2>2. pc' \notin {"restore", "stage", "commit", "tag"}
    BY <1>2 DEF RecoverReset, Create
  <2> QED BY <2>1, <2>2, TagsStay DEF TagInv
<1>3. CASE InitialCommit
  <2>1. /\ tags' = tags /\ (faults' = 0 => faults = 0)
        /\ commits' = commits \/ commits' = Append(commits, disk)
        /\ pc' \notin {"restore", "stage", "commit", "tag"}
    BY <1>3, <1>f DEF InitialCommit
  <2> QED BY <1>t, <2>1, TagsStay DEF TagInv
<1>4. CASE AppendRow
  <2>1. tags' = tags /\ commits' = commits /\ cand' = cand /\ run' = run
    BY <1>4 DEF AppendRow, git, mem
  <2>2. CASE Fault /\ pc' = "down"
    BY <1>f, <2>2 DEF TagInv
  <2>3. CASE /\ disk' = WithRows(disk, Append(disk.rows, NewRow))
             /\ pc' = IF cand.keep \/ ~GitAvailable THEN "stage" ELSE "restore"
             /\ faults' = faults
    <3>1. NewRow \in Row /\ disk.rows \in Seq(Row)
      BY <1>t, <1>4, NewRowType, SnapshotFields DEF AppendRow
    <3>2. disk'.rows = Append(disk.rows, NewRow) /\ disk'.params = disk.params
      BY <1>t, <2>3, OneFileWritten, ZenonT(30)
    <3>3. disk.params = cand.pid
      BY <1>4 DEF AppendRow, ParamsInv
    <3>4. Recorded(disk)'
      <4>1. /\ Len(disk'.rows) = Len(disk.rows) + 1 /\ Len(disk.rows) \in Nat
            /\ disk'.rows[Len(disk'.rows)] = NewRow
        BY <3>1, <3>2, AppendType
      <4>2. NewRow' = NewRow
        BY <2>1 DEF NewRow
      <4> QED BY <2>1, <3>2, <3>3, <4>1, <4>2 DEF Recorded
    <3> QED BY <2>1, <2>3, <3>4, TagsStay DEF TagInv
  <2> QED BY <1>4, <2>2, <2>3 DEF AppendRow
<1>5. CASE RestoreParams
  <2>1. /\ tags' = tags /\ commits' = commits /\ cand' = cand /\ pc' = "stage"
        /\ ~cand.keep /\ (faults' = 0 => faults = 0)
    BY <1>5, <1>f DEF RestoreParams, TagInv, mem
  <2> QED BY <2>1, TagsStay DEF TagInv
<1>6. CASE StageAll
  <2>1. /\ tags' = tags /\ commits' = commits /\ cand' = cand /\ run' = run
        /\ pc' \in {"commit", "release"} /\ (faults' = 0 => faults = 0)
        /\ faults' = 0 /\ pc' = "commit" => index' = disk
    BY <1>6, <1>f DEF StageAll, mem
  <2>2. faults' = 0 /\ pc' = "commit" /\ cand.keep => Recorded(index)'
    BY <1>6, <2>1 DEF StageAll, TagInv, Recorded, NewRow
  <2> QED BY <2>1, <2>2, TagsStay DEF TagInv
<1>7. CASE Commit
  <2>1. /\ tags' = tags /\ cand' = cand /\ run' = run
        /\ pc' = IF cand.keep THEN "tag" ELSE "release"
        /\ commits' = commits \/ commits' = Append(commits, index)
        /\ faults' = 0 => faults = 0
    BY <1>7, <1>f DEF Commit, mem
  <2>2. faults' = 0 => HeadCommit' = index
    <3>1. CASE commits' = Append(commits, index)
      BY <1>t, <3>1, HeadAfterCommit
    <3>2. CASE index = HeadCommit /\ commits' = commits
      BY <3>2 DEF HeadCommit
    <3> QED BY <1>7, <1>f, <3>1, <3>2 DEF Commit
  <2>3. faults' = 0 /\ cand.keep => Recorded(HeadCommit)'
    BY <1>7, <2>1, <2>2 DEF Commit, TagInv, Recorded, NewRow
  <2> QED BY <1>t, <2>1, <2>3, TagsStay DEF TagInv
<1>8. CASE TagBest
  <2>1. /\ commits' = commits /\ cand' = cand /\ pc' = "release"
        /\ faults' = 0 => faults = 0 /\ tags' = [tags EXCEPT ![run.exp] = Len(commits)]
    BY <1>8, <1>f DEF TagBest, mem
  <2>2. ASSUME faults' = 0, NEW k \in 0..(MaxExperiments - 1), tags'[k] # 0
        PROVE  tags'[k] <= Len(commits') /\ Names(commits'[tags'[k]], k)
    <3>1. CASE k = run.exp
      <4>1. Recorded(HeadCommit) /\ cand.keep
        BY <1>8, <2>1, <2>2 DEF TagBest, TagInv
      <4>2. commits # <<>>
        BY <4>1 DEF Recorded, HeadCommit, NoFiles
      <4>3. HeadCommit = commits[Len(commits)]
        BY <4>2 DEF HeadCommit
      <4>0. cand.pid \in Gains
        BY <1>8 DEF TagBest, TypeInv, CandInBounds, RunningSteps
      <4>4. Names(HeadCommit, k)
        BY <3>1, <4>0, <4>1 DEF Recorded, Names, NewRow
      <4>5. tags'[k] = Len(commits)
        <5>1. tags' = [tags EXCEPT ![run.exp] = Len(commits)]
          BY <2>1, <2>2
        <5> QED BY <1>t, <3>1, <5>1
      <4>6. Len(commits) \in Nat
        BY <1>t
      <4> QED BY <2>1, <4>3, <4>4, <4>5, <4>6
    <3>2. CASE k # run.exp
      BY <1>t, <2>1, <2>2, <3>2 DEF TagInv
    <3> QED BY <3>1, <3>2
  <2> QED BY <2>1, <2>2 DEF TagInv
<1>9. CASE UNCHANGED vars
  BY <1>9 DEF vars, git, mem, TagInv, Recorded, NewRow, HeadCommit
<1> QED
  BY <1>1, <1>2, <1>3, <1>4, <1>5, <1>6, <1>7, <1>8, <1>9
     DEF Next, Workspace, Loop, Open, RecoverUnlink, Populate, RaiseSentinel,
         ReleaseSentinel, BeginRun, Propose, WriteParams, Experiment,
         NextIteration, Finish, Crash, git, mem

\* PIDWorkspace.commit_experiment: as long as git does what it is told, best_k
\* names the commit that recorded experiment k, with its gains.
THEOREM TagsCorrect == Spec => []TagNamesItsExperiment
<1>1. TypeInv /\ TagInv => TagNamesItsExperiment
  BY DEF TypeInv, TypeOK, TagInv, Names, TagNamesItsExperiment
<1> QED BY <1>1, TypeInvInit, TypeInvNext, ParamsInit, ParamsNext, TagInit, TagNext,
           PTL DEF Spec
-----------------------------------------------------------------------------
(* What run remembers, and what results.tsv, params.yaml and HEAD say.     *)

BeforeRow == {"propose", "write", "experiment", "sentinel", "append"}
AfterRow  == {"restore", "stage", "commit", "tag", "release", "next", "done"}

\* The rows of this run, and how many there are.
RowOf(j) == disk.rows[run.base + j]
Count    == Len(disk.rows) - run.base

\* The memory of run is the last kept row, and the best.
BestAmong ==
  \E i \in 1..Count :
    /\ RowOf(i).pid = PrintedPid[run.bestPid]
    /\ RowOf(i).score = PrintedScore[run.bestScore] /\ RowOf(i).keep
    /\ \A j \in 1..Count : /\ RowOf(j).score <= PrintedScore[run.bestScore]
                           /\ j > i => ~RowOf(j).keep

Counted ==
  /\ pc \in BeforeRow => Len(disk.rows) = run.base + run.exp
  /\ pc \in AfterRow => Len(disk.rows) = run.base + run.exp + 1
  /\ pc \in BeforeRow \cup AfterRow => \A j \in 1..Count : RowOf(j).exp = j - 1

\* Between scoring and recording, the memory is ahead of the log.
Remembered ==
  /\ pc \in {"propose", "write", "experiment"} /\ run.exp > 0 => BestAmong
  /\ pc \in {"sentinel", "append"} /\ cand.keep =>
       /\ run.bestScore = cand.score /\ run.bestPid = cand.pid
       /\ \A j \in 1..Count : RowOf(j).score <= PrintedScore[run.bestScore]
  /\ pc \in {"sentinel", "append"} /\ ~cand.keep =>
       BestAmong /\ cand.score <= run.bestScore
  /\ pc \in AfterRow => BestAmong

MemoryInv == Counted /\ Remembered

LEMMA MemoryInit == Init => MemoryInv
  BY DEF Init, MemoryInv, Counted, Remembered, BeforeRow, AfterRow

\* A step that changes neither rows nor memory, nor passes the append.
LEMMA MemoryStays ==
  ASSUME MemoryInv, disk'.rows = disk.rows, run' = run, cand' = cand,
         \/ pc \in {"propose", "write", "experiment"}
              /\ pc' \in {"propose", "write", "experiment"}
         \/ pc \in {"sentinel", "append"} /\ pc' \in {"sentinel", "append"}
         \/ pc \in AfterRow /\ pc' \in AfterRow
         \/ pc' \notin BeforeRow \cup AfterRow
  PROVE  MemoryInv'
<1>1. Count' = Count /\ BestAmong' = BestAmong /\ \A j : RowOf(j)' = RowOf(j)
  BY DEF Count, BestAmong, RowOf
<1> QED BY <1>1 DEF MemoryInv, Counted, Remembered, BeforeRow, AfterRow

LEMMA MemoryNext == TypeInv /\ MemoryInv /\ [Next]_vars => MemoryInv'
<1> SUFFICES ASSUME TypeInv, MemoryInv, [Next]_vars PROVE MemoryInv'
  OBVIOUS
<1>t. /\ disk \in Snapshot /\ run \in RunState /\ cand \in CandState
      /\ disk.rows \in Seq(Row) /\ Len(disk.rows) \in Nat
      /\ run.base \in Nat /\ run.exp \in Nat
      /\ run.bestScore \in Int /\ cand.score \in Int
      /\ run.bestScore \in 0..MaxScore /\ cand.score \in 0..MaxScore
  <2>1. disk \in Snapshot /\ run \in RunState /\ cand \in CandState
    BY DEF TypeInv, TypeOK
  <2>2. disk.rows \in Seq(Row) /\ cand.score \in 0..MaxScore
        /\ run.bestScore \in 0..MaxScore
        /\ run.base \in Nat /\ run.exp \in 0..(MaxExperiments - 1)
    BY <2>1, SnapshotFields, CandFields, RunFields
  <2> QED BY <2>1, <2>2, AutoResearchAssumption
<1>1. CASE pc' \notin BeforeRow \cup AfterRow
  BY <1>1 DEF MemoryInv, Counted, Remembered, BeforeRow, AfterRow
<1>2. CASE BeginRun
  <2>1. /\ disk' = disk /\ pc' = "propose"
        /\ run'.exp = 0 /\ run'.base = Len(disk.rows)
    BY <1>2 DEF BeginRun, IdleRun
  <2>2. Count' = 0
    BY <1>t, <2>1 DEF Count
  <2> QED BY <1>t, <2>1, <2>2 DEF MemoryInv, Counted, Remembered, BeforeRow, AfterRow
<1>3. CASE Propose
  <2>1. Count' = Count /\ BestAmong' = BestAmong /\ \A j : RowOf(j)' = RowOf(j)
    BY <1>3 DEF Propose, Count, BestAmong, RowOf
  <2> QED BY <1>3, <2>1
          DEF Propose, MemoryInv, Counted, Remembered, BeforeRow, AfterRow
<1>4. CASE WriteParams \/ RaiseSentinel \/ ReleaseSentinel \/ RestoreParams
           \/ StageAll \/ Commit \/ TagBest
  <2>1. disk'.rows = disk.rows /\ run' = run /\ cand' = cand
    <3>1. CASE WriteParams
      BY <1>t, <3>1, OneFileWritten DEF WriteParams, mem
    <3>2. CASE RaiseSentinel
      BY <1>t, <3>2, OneFileWritten DEF RaiseSentinel, mem
    <3>3. CASE ReleaseSentinel
      BY <1>t, <3>3, OneFileWritten DEF ReleaseSentinel, mem
    <3>4. CASE RestoreParams
      BY <1>t, <3>4, OneFileWritten DEF RestoreParams, mem
    <3>5. CASE StageAll \/ Commit \/ TagBest
      BY <3>5 DEF StageAll, Commit, TagBest, mem
    <3> QED BY <1>4, <3>1, <3>2, <3>3, <3>4, <3>5
  <2> QED BY <1>4, <2>1, MemoryStays
          DEF WriteParams, RaiseSentinel, ReleaseSentinel, RestoreParams,
              StageAll, Commit, TagBest, AfterRow
<1>5. CASE Experiment
  <2>1. PICK s \in 0..MaxScore, st \in Statuses :
          /\ cand' = [cand EXCEPT !.score = s, !.status = st,
                          !.keep = Keep(s)]
          /\ run' = IF Keep(s)
                      THEN [run EXCEPT !.bestScore = s, !.bestPid = cand.pid,
                                       !.discards = 0]
                      ELSE [run EXCEPT !.discards = @ + 1]
          /\ disk' = disk /\ pc = "experiment" /\ pc' = "sentinel"
    BY <1>5 DEF Experiment, Remember
  <2>2. cand'.pid = cand.pid /\ cand'.keep = Keep(s) /\ cand'.score = s /\ s \in Int
    BY <1>t, <2>1, AutoResearchAssumption DEF CandState
  <2>3. /\ run'.base = run.base /\ run'.exp = run.exp
        /\ Keep(s) => run'.bestScore = s /\ run'.bestPid = cand.pid
        /\ ~Keep(s) => run'.bestScore = run.bestScore /\ run'.bestPid = run.bestPid
    BY <1>t, <2>1 DEF RunState
  <2>4. Count' = Count /\ \A j : RowOf(j)' = RowOf(j)
    BY <2>1, <2>3 DEF Count, RowOf
  <2>5. Counted'
    BY <2>1, <2>3, <2>4 DEF MemoryInv, Counted, BeforeRow, AfterRow
  <2>6. CASE Keep(s)
    <3>1. ASSUME NEW j \in 1..Count PROVE RowOf(j).score <= PrintedScore[s]
      <4>1. run.exp > 0
        BY <1>t, <2>1 DEF MemoryInv, Counted, BeforeRow, Count
      <4>2. RowOf(j).score <= PrintedScore[run.bestScore] /\ s > run.bestScore
        BY <2>1, <2>6, <4>1 DEF Keep, MemoryInv, Remembered, BestAmong
      <4>3. PrintedScore[run.bestScore] <= PrintedScore[s]
        BY <1>t, <2>2, <4>2, Printed
      <4>4. RowOf(j).score \in Int
        <5>1. run.base + j \in 1..Len(disk.rows)
          BY <1>t DEF Count
        <5>2. RowOf(j) \in Row
          BY <1>t, <5>1 DEF RowOf
        <5> QED BY <5>2, AutoResearchAssumption DEF Row
      <4>5. PrintedScore[run.bestScore] \in Int /\ PrintedScore[s] \in Int
        BY <1>t, Printed, AutoResearchAssumption
      <4> QED BY <4>2, <4>3, <4>4, <4>5
    <3> QED BY <2>1, <2>2, <2>3, <2>4, <2>5, <2>6, <3>1
            DEF MemoryInv, Remembered, AfterRow
  <2>7. CASE ~Keep(s)
    <3>1. run.exp > 0 /\ s <= run.bestScore
      BY <1>t, <2>2, <2>7 DEF Keep
    <3>2. BestAmong
      BY <2>1, <3>1 DEF MemoryInv, Remembered
    <3>3. BestAmong'
      BY <2>3, <2>4, <2>7, <3>2 DEF BestAmong
    <3> QED BY <2>1, <2>2, <2>3, <2>5, <2>7, <3>1, <3>3
            DEF MemoryInv, Remembered, AfterRow
  <2> QED BY <2>6, <2>7
<1>6. CASE AppendRow /\ pc' # "down"
  <2>1. /\ disk' = WithRows(disk, Append(disk.rows, NewRow)) /\ pc = "append"
        /\ pc' \in {"stage", "restore"} /\ run' = run /\ cand' = cand
    BY <1>6 DEF AppendRow, mem
  <2>2. NewRow \in Row /\ disk'.rows = Append(disk.rows, NewRow)
    BY <1>t, <2>1, NewRowType, OneFileWritten
  <2>3. /\ Len(disk'.rows) = Len(disk.rows) + 1
        /\ \A i \in 1..Len(disk.rows) : disk'.rows[i] = disk.rows[i]
        /\ disk'.rows[Len(disk.rows) + 1] = NewRow
    BY <1>t, <2>2, AppendType
  <2>4. /\ Len(disk.rows) = run.base + run.exp /\ Count = run.exp
        /\ \A j \in 1..Count : RowOf(j).exp = j - 1
    BY <1>t, <2>1 DEF MemoryInv, Counted, BeforeRow, Count
  <2>5. /\ Count' = run.exp + 1
        /\ \A j \in 1..Count : RowOf(j)' = RowOf(j)
        /\ RowOf(run.exp + 1)' = NewRow
    <3>1. Count' = run.exp + 1
      BY <1>t, <2>1, <2>3, <2>4, SMTT(30) DEF Count
    <3>2. ASSUME NEW j \in 1..Count PROVE RowOf(j)' = RowOf(j)
      <4>1. run.base + j \in 1..Len(disk.rows)
        BY <1>t, <2>4
      <4> QED BY <2>1, <2>3, <4>1 DEF RowOf
    <3>3. RowOf(run.exp + 1)' = NewRow
      <4>1. run.base + (run.exp + 1) = Len(disk.rows) + 1
        BY <1>t, <2>4
      <4> QED BY <2>1, <2>3, <4>1 DEF RowOf
    <3> QED BY <3>1, <3>2, <3>3
  <2>6. /\ NewRow.exp = run.exp /\ NewRow.keep = cand.keep
        /\ NewRow.pid = PrintedPid[cand.pid]
        /\ NewRow.score = PrintedScore[cand.score]
    BY DEF NewRow
  <2>7. ASSUME NEW j \in 1..Count' PROVE j \in 1..Count \/ j = run.exp + 1
    BY <1>t, <2>4, <2>5
  <2>8. Counted'
    <3>1. \A j \in 1..Count' : RowOf(j)'.exp = j - 1
      <4> SUFFICES ASSUME NEW j \in 1..Count' PROVE RowOf(j)'.exp = j - 1
        OBVIOUS
      <4>1. CASE j \in 1..Count
        BY <2>4, <2>5, <4>1
      <4>2. CASE j = run.exp + 1
        <5>1. RowOf(j)' = NewRow
          BY <2>1, <2>5, <4>2 DEF RowOf
        <5> QED BY <1>t, <2>6, <4>2, <5>1
      <4> QED BY <2>7, <4>1, <4>2
    <3> QED BY <1>t, <2>1, <2>3, <2>4, <3>1 DEF Counted, BeforeRow, AfterRow
  <2>9. BestAmong'
    <3>1. CASE cand.keep
      <4>1. /\ run.bestScore = cand.score /\ run.bestPid = cand.pid
            /\ \A j \in 1..Count : RowOf(j).score <= PrintedScore[run.bestScore]
        BY <2>1, <3>1 DEF MemoryInv, Remembered
      <4>2. run.exp + 1 \in 1..Count'
        BY <1>t, <2>5
      <4>3. ASSUME NEW j \in 1..Count'
            PROVE  RowOf(j)'.score <= PrintedScore[run.bestScore]
        <5>1. CASE j \in 1..Count
          BY <2>5, <4>1, <5>1
        <5>2. CASE j = run.exp + 1
          <6>1. RowOf(j)' = NewRow
            BY <2>1, <2>5, <5>2 DEF RowOf
          <6>2. PrintedScore[run.bestScore] \in Int
            BY <1>t, Printed, AutoResearchAssumption
          <6> QED BY <2>6, <4>1, <6>1, <6>2
        <5> QED BY <2>7, <5>1, <5>2
      <4>4. ASSUME NEW j \in 1..Count' PROVE ~(j > run.exp + 1)
        BY <1>t, <2>5
      <4> QED BY <2>1, <2>5, <2>6, <3>1, <4>1, <4>2, <4>3, <4>4 DEF BestAmong
    <3>2. CASE ~cand.keep
      <4>1. BestAmong /\ cand.score <= run.bestScore
        BY <2>1, <3>2 DEF MemoryInv, Remembered
      <4>2. PICK i \in 1..Count :
              /\ RowOf(i).pid = PrintedPid[run.bestPid]
              /\ RowOf(i).score = PrintedScore[run.bestScore] /\ RowOf(i).keep
              /\ \A j \in 1..Count :
                   /\ RowOf(j).score <= PrintedScore[run.bestScore]
                   /\ j > i => ~RowOf(j).keep
        BY <4>1 DEF BestAmong
      <4>3. i \in 1..Count' /\ RowOf(i)' = RowOf(i)
        BY <1>t, <2>4, <2>5
      <4>4. ASSUME NEW j \in 1..Count'
            PROVE  /\ RowOf(j)'.score <= PrintedScore[run.bestScore]
                   /\ j > i => ~RowOf(j)'.keep
        <5>1. CASE j \in 1..Count
          BY <2>5, <4>2, <5>1
        <5>2. CASE j = run.exp + 1
          <6>1. RowOf(j)' = NewRow
            BY <2>1, <2>5, <5>2 DEF RowOf
          <6>2. PrintedScore[cand.score] <= PrintedScore[run.bestScore]
            BY <1>t, <4>1, Printed
          <6> QED BY <2>6, <3>2, <6>1, <6>2
        <5> QED BY <2>7, <5>1, <5>2
      <4> QED BY <2>1, <4>2, <4>3, <4>4 DEF BestAmong
    <3> QED BY <3>1, <3>2
  <2> QED BY <2>1, <2>8, <2>9 DEF MemoryInv, Remembered, BeforeRow, AfterRow
<1>7. CASE NextIteration
  <2>1. disk'.rows = disk.rows /\ pc = "next" /\ pc' \in {"propose", "done"}
    BY <1>t, <1>7, OneFileWritten DEF NextIteration, AfterDiscards
  <2>2. /\ run'.base = run.base /\ run'.bestScore = run.bestScore
        /\ run'.bestPid = run.bestPid
        /\ run'.exp = IF pc' = "done" THEN run.exp ELSE run.exp + 1
    BY <1>t, <1>7 DEF NextIteration, RunState
  <2>3. Count' = Count /\ BestAmong' = BestAmong /\ \A j : RowOf(j)' = RowOf(j)
    BY <2>1, <2>2 DEF Count, BestAmong, RowOf
  <2> QED BY <1>t, <2>1, <2>2, <2>3, SMTT(30)
          DEF MemoryInv, Counted, Remembered, BeforeRow, AfterRow
<1>8. CASE UNCHANGED vars
  BY <1>8 DEF vars, mem, MemoryInv, Counted, Remembered, BestAmong, Count, RowOf
<1> QED
  BY <1>1, <1>2, <1>3, <1>4, <1>5, <1>6, <1>7, <1>8
     DEF Next, Workspace, Loop, Open, RecoverReset, RecoverUnlink, Create,
         Populate, InitialCommit, AppendRow, Finish, Crash, BeforeRow, AfterRow

\* Where the best gains are, as long as git does what it is told.
OnDisk == disk.params = run.bestPid
InHead == HeadCommit.params = run.bestPid

GainsCommitted ==
  GitAvailable /\ faults = 0 =>
    /\ pc \in {"propose", "write"} /\ run.exp > 0 => OnDisk /\ InHead
    /\ pc = "experiment" /\ run.exp > 0 => InHead
    /\ pc \in {"sentinel", "append"} =>
         IF cand.keep THEN OnDisk ELSE InHead
    /\ pc = "restore" => InHead
    /\ pc = "stage" => OnDisk
    /\ pc = "commit" => OnDisk /\ index.params = run.bestPid
    /\ pc \in {"tag", "release", "next", "done"} => OnDisk /\ InHead

LEMMA CommittedInit == Init => GainsCommitted
  BY DEF Init, GainsCommitted

LEMMA CommittedNext ==
  TypeInv /\ ParamsInv /\ GainsCommitted /\ [Next]_vars => GainsCommitted'
<1> SUFFICES ASSUME TypeInv, ParamsInv, GainsCommitted, [Next]_vars
             PROVE  GainsCommitted'
  OBVIOUS
<1>t. /\ disk \in Snapshot /\ index \in Snapshot /\ commits \in Seq(Snapshot)
      /\ run \in RunState /\ cand \in CandState /\ faults \in Nat
      /\ run.exp \in Nat /\ run.bestPid # Blank
  <2>1. run \in RunState
    BY DEF TypeInv, TypeOK
  <2>2. run.exp \in Nat /\ run.bestPid # Blank
    BY <2>1, RunFields, AutoResearchAssumption DEF Gains
  <2> QED BY <2>1, <2>2 DEF TypeInv, TypeOK
<1>f. Fault => faults' # 0
  BY <1>t DEF Fault
<1> SUFFICES ASSUME GitAvailable, faults' = 0 PROVE GainsCommitted'
  BY DEF GainsCommitted
<1> USE DEF GainsCommitted, OnDisk, InHead
<1>1. CASE pc' \in {"down", "recover", "unlink", "create", "populate", "initial", "begin"}
  BY <1>1
<1>2. CASE BeginRun
  <2>1. run'.exp = 0 /\ pc' = "propose"
    BY <1>2 DEF BeginRun, IdleRun
  <2> QED BY <2>1
<1>3. CASE Propose
  BY <1>3 DEF Propose, HeadCommit, git
<1>4. CASE WriteParams
  BY <1>4 DEF WriteParams, HeadCommit, git, mem
<1>5. CASE Experiment
  <2>1. PICK s \in 0..MaxScore, st \in Statuses :
          /\ cand' = [cand EXCEPT !.score = s, !.status = st,
                          !.keep = Keep(s)]
          /\ run' = IF Keep(s)
                      THEN [run EXCEPT !.bestScore = s, !.bestPid = cand.pid,
                                       !.discards = 0]
                      ELSE [run EXCEPT !.discards = @ + 1]
          /\ disk' = disk /\ pc = "experiment" /\ pc' = "sentinel"
          /\ commits' = commits /\ faults' = faults
    BY <1>5 DEF Experiment, Remember, git
  <2>2. /\ cand'.keep = Keep(s)
        /\ Keep(s) => run'.bestPid = cand.pid
        /\ ~Keep(s) => run'.bestPid = run.bestPid /\ run.exp > 0
    <3>1. cand'.keep = Keep(s)
      BY <1>t, <2>1 DEF CandState
    <3>2. /\ Keep(s) => run'.bestPid = cand.pid
          /\ ~Keep(s) => run'.bestPid = run.bestPid
      BY <1>t, <2>1 DEF RunState
    <3>3. ~Keep(s) => run.exp > 0
      BY <1>t DEF Keep
    <3> QED BY <3>1, <3>2, <3>3
  <2>3. CASE Keep(s)
    <3>1. disk'.params = run'.bestPid
      BY <2>1, <2>2, <2>3 DEF ParamsInv
    <3> QED BY <2>1, <2>2, <2>3, <3>1
  <2>4. CASE ~Keep(s)
    <3>1. HeadCommit'.params = run'.bestPid
      BY <2>1, <2>2, <2>4 DEF HeadCommit
    <3> QED BY <2>1, <2>2, <2>4, <3>1
  <2> QED BY <2>3, <2>4
<1>6. CASE RaiseSentinel \/ ReleaseSentinel
  <2>1. disk'.params = disk.params
    <3>1. \E b \in BOOLEAN : disk' = WithSentinel(disk, b)
      BY <1>6 DEF RaiseSentinel, ReleaseSentinel
    <3> QED BY <1>t, <3>1, OneFileWritten
  <2>2. /\ run' = run /\ cand' = cand /\ commits' = commits /\ faults' = faults
        /\ HeadCommit' = HeadCommit
    BY <1>6 DEF RaiseSentinel, ReleaseSentinel, HeadCommit, git, mem
  <2> QED BY <1>6, <2>1, <2>2 DEF RaiseSentinel, ReleaseSentinel
<1>7. CASE AppendRow /\ pc' # "down"
  <2>1. disk' = WithRows(disk, Append(disk.rows, NewRow)) /\ faults' = faults
    BY <1>7 DEF AppendRow
  <2>2. disk'.params = disk.params
    BY <1>t, <2>1, OneFileWritten
  <2>3. /\ run' = run /\ HeadCommit' = HeadCommit /\ pc = "append"
        /\ pc' = IF cand.keep THEN "stage" ELSE "restore"
    BY <1>7 DEF AppendRow, HeadCommit, git, mem
  <2> QED BY <2>1, <2>2, <2>3
<1>8. CASE RestoreParams
  <2>1. /\ run' = run /\ HeadCommit' = HeadCommit /\ pc' = "stage"
        /\ HeadCommit.params = run.bestPid /\ faults = 0
    BY <1>8, <1>f DEF RestoreParams, HeadCommit, mem
  <2>2. commits # <<>>
    BY <1>t, <2>1 DEF HeadCommit, NoFiles
  <2>3. disk' = WithParams(disk, HeadCommit.params)
    BY <1>8, <1>f, <2>2 DEF RestoreParams
  <2>4. disk'.params = HeadCommit.params
    BY <1>t, <2>3 DEF WithParams, Snapshot
  <2> QED BY <2>1, <2>4
<1>9. CASE StageAll
  BY <1>9, <1>f DEF StageAll, mem
<1>10. CASE Commit
  <2>1. /\ run' = run /\ disk' = disk /\ pc' \in {"tag", "release"}
        /\ disk.params = run.bestPid /\ index.params = run.bestPid
    BY <1>10, <1>f DEF Commit, mem
  <2>2. HeadCommit' = index
    <3>1. CASE commits' = Append(commits, index)
      BY <1>t, <3>1, HeadAfterCommit
    <3>2. CASE index = HeadCommit /\ commits' = commits
      BY <3>2 DEF HeadCommit
    <3> QED BY <1>10, <1>f, <3>1, <3>2 DEF Commit
  <2> QED BY <2>1, <2>2
<1>11. CASE TagBest
  BY <1>11, <1>f DEF TagBest, HeadCommit, mem
<1>12. CASE NextIteration
  <2>1. /\ run'.bestPid = run.bestPid /\ HeadCommit' = HeadCommit
        /\ pc' \in {"propose", "done"}
        /\ disk.params = run.bestPid /\ HeadCommit.params = run.bestPid
    BY <1>t, <1>12 DEF NextIteration, RunState, HeadCommit, git
  <2>2. disk'.params = run.bestPid
    BY <1>t, <1>12, <2>1 DEF NextIteration, AfterDiscards, WithParams, Snapshot
  <2> QED BY <2>1, <2>2
<1>13. CASE UNCHANGED vars
  BY <1>13 DEF vars, git, mem, HeadCommit
<1> QED
  BY <1>1, <1>2, <1>3, <1>4, <1>5, <1>6, <1>7, <1>8, <1>9, <1>10, <1>11, <1>12,
     <1>13 DEF Next, Workspace, Loop, Open, RecoverReset, RecoverUnlink, Create,
               Populate, InitialCommit, AppendRow, Finish, Crash

LEMMA EndOfSequence ==
  ASSUME NEW s \in Seq(Row), NEW m \in 1..(Len(s) + 1)
  PROVE  /\ Len(SubSeq(s, m, Len(s))) = Len(s) - m + 1
         /\ \A j \in 1..(Len(s) - m + 1) : SubSeq(s, m, Len(s))[j] = s[m + j - 1]
  OBVIOUS

\* The rows of the run as a sequence.
LEMMA RunRowsAre ==
  ASSUME TypeInv, MemoryInv, LoopTop
  PROVE  /\ Len(RunRows) = Count /\ Count \in Nat
         /\ \A j \in 1..Count : RunRows[j] = RowOf(j)
         /\ Count > 0 => pc = "done" \/ run.exp > 0
<1>1. /\ disk.rows \in Seq(Row) /\ run.base \in Nat /\ run.exp \in Nat
  <2>1. disk \in Snapshot /\ run \in RunState
    BY DEF TypeInv, TypeOK
  <2>2. disk.rows \in Seq(Row) /\ run.base \in Nat /\ run.exp \in 0..(MaxExperiments - 1)
    BY <2>1, SnapshotFields, RunFields
  <2> QED BY <2>2, AutoResearchAssumption
<1>2. /\ Len(disk.rows) = run.base + Count /\ Count \in Nat
      /\ pc = "propose" => Count = run.exp
  BY <1>1 DEF MemoryInv, Counted, LoopTop, BeforeRow, AfterRow, Count
<1>3. /\ Len(RunRows) = Count
      /\ \A j \in 1..Count : RunRows[j] = disk.rows[run.base + j]
  <2>1. /\ run.base + 1 \in 1..(Len(disk.rows) + 1)
        /\ Len(disk.rows) \in Nat /\ Len(disk.rows) - (run.base + 1) + 1 = Count
    BY <1>1, <1>2
  <2>2. /\ Len(SubSeq(disk.rows, run.base + 1, Len(disk.rows)))
             = Len(disk.rows) - (run.base + 1) + 1
        /\ \A j \in 1..(Len(disk.rows) - (run.base + 1) + 1) :
             SubSeq(disk.rows, run.base + 1, Len(disk.rows))[j]
               = disk.rows[run.base + 1 + j - 1]
    BY <1>1, <2>1, EndOfSequence
  <2>3. ASSUME NEW j \in 1..Count PROVE run.base + 1 + j - 1 = run.base + j
    BY <1>1, <1>2
  <2> QED BY <2>1, <2>2, <2>3 DEF RunRows
<1> QED BY <1>1, <1>2, <1>3 DEF RowOf, LoopTop

\* AutoResearchLoop.run: what it remembers as best is what the last row it
\* kept shows, no row shows a better score, it recorded each experiment once
\* and in order, and params.yaml and HEAD hold the best gains themselves when
\* no command fails.
THEOREM BestCorrect == Spec => []BestIsLastKept
<1>1. TypeInv /\ MemoryInv /\ GainsCommitted => BestIsLastKept
  <2> SUFFICES ASSUME TypeInv, MemoryInv, GainsCommitted, LoopTop, Len(RunRows) > 0
               PROVE  BestIsLastKept
    BY DEF BestIsLastKept
  <2>1. /\ Len(RunRows) = Count /\ Count \in Nat /\ Count > 0
        /\ \A j \in 1..Count : RunRows[j] = RowOf(j)
        /\ pc = "done" \/ (pc = "propose" /\ run.exp > 0)
    <3>1. pc = "propose" \/ pc = "done"
      BY DEF LoopTop
    <3>2. Count > 0
      BY RunRowsAre
    <3> QED BY <3>1, <3>2, RunRowsAre
  <2>2. BestAmong /\ \A j \in 1..Count : RowOf(j).exp = j - 1
    BY <2>1 DEF MemoryInv, Counted, Remembered, BeforeRow, AfterRow
  <2>3. GitAvailable /\ faults = 0 => OnDisk /\ InHead
    BY <2>1 DEF GainsCommitted
  <2>4. \E i \in 1..Len(RunRows) :
           /\ RunRows[i].pid = PrintedPid[run.bestPid]
           /\ RunRows[i].score = PrintedScore[run.bestScore]
           /\ RunRows[i].keep
           /\ \A j \in 1..Len(RunRows) :
                /\ RunRows[j].exp = j - 1
                /\ RunRows[j].score <= PrintedScore[run.bestScore]
                /\ j > i => ~RunRows[j].keep
    <3>1. PICK i \in 1..Count :
            /\ RowOf(i).pid = PrintedPid[run.bestPid]
            /\ RowOf(i).score = PrintedScore[run.bestScore] /\ RowOf(i).keep
            /\ \A j \in 1..Count :
                 /\ RowOf(j).score <= PrintedScore[run.bestScore]
                 /\ j > i => ~RowOf(j).keep
      BY <2>2 DEF BestAmong
    <3>2. i \in 1..Len(RunRows)
      BY <2>1
    <3> WITNESS i \in 1..Len(RunRows)
    <3> QED BY <2>1, <2>2, <3>1
  <2> QED BY <2>3, <2>4 DEF BestIsLastKept, OnDisk, InHead
<1> QED BY <1>1, TypeInvInit, TypeInvNext, ParamsInit, ParamsNext, MemoryInit,
           MemoryNext, CommittedInit, CommittedNext, PTL DEF Spec
=============================================================================
