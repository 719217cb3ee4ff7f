---------------------------- MODULE LifecycleRepo ----------------------------
(***************************************************************************)
(* LifecycleRepo: one Git repository of a robot with a branch for each     *)
(* profile, and the sentinel file that tells the next init() of a crash.   *)
(*                                                                         *)
(* A file is its version: 0 when absent, Torn when a write has stopped in  *)
(* the middle.  HEAD, the index and the working tree are kept apart, for   *)
(* what a crash or an error leaves behind differs in where it lies.        *)
(***************************************************************************)
EXTENDS Integers, Sequences

CONSTANTS
  LrProfiles,   \* profile names
  LrFiles,      \* file names given to write_and_commit
  LrMaxWrites   \* bound: calls of write_and_commit

ASSUME LifecycleRepoAssumption == LrMaxWrites \in Nat

VARIABLES
  lrHead,      \* the branch checked out; "main" before the first profile
  lrBranch,    \* the commits of each branch after the first, "init: robot"
  lrIndex,     \* what is staged
  lrTree,      \* the working tree
  lrSentinel,  \* EXPERIMENT_IN_PROGRESS exists
  lrOpen,      \* profiles whose object has finished init() in this process
  lrNext,      \* number of calls of write_and_commit
  lrRaised     \* history: a write has raised since the last recovery

lrVars == <<lrHead, lrBranch, lrIndex, lrTree, lrSentinel, lrOpen, lrNext,
            lrRaised>>
-----------------------------------------------------------------------------
Torn == -1
Versions == Torn..LrMaxWrites
LrTrees == [LrFiles -> Versions]
NoFiles == [f \in LrFiles |-> 0]
NoBranch == <<>>   \* a branch that does not exist has no first commit

\* What the last commit of a branch holds.  The first commit of the
\* repository is the first of every branch and holds none of LrFiles.
Tip(b) == IF Len(b) = 0 THEN NoFiles ELSE b[Len(b)].tree
RootCommit == [tree |-> NoFiles]

LrInit ==
  /\ lrHead = "main"
  /\ lrBranch = [p \in LrProfiles \cup {"main"} |->
                   IF p = "main" THEN <<RootCommit>> ELSE NoBranch]
  /\ lrIndex = NoFiles /\ lrTree = NoFiles
  /\ lrSentinel = FALSE /\ lrOpen = {} /\ lrNext = 0 /\ lrRaised = FALSE

HeadTree == Tip(lrBranch[lrHead])

(***************************************************************************)
(* git checkout keeps what the two branches agree on, and what is staged   *)
(* as the other branch has it; it replaces a file that is as the current   *)
(* branch has it, and refuses if there is one of another kind.             *)
(***************************************************************************)
Moves(f, target)  == target[f] # HeadTree[f] /\ target[f] # lrIndex[f]
Blocked(target) ==
  \E f \in LrFiles : /\ Moves(f, target)
                     /\ ~(lrIndex[f] = HeadTree[f] /\ lrTree[f] = lrIndex[f])

CheckedOut(area, target) ==
  [f \in LrFiles |-> IF Moves(f, target) THEN target[f] ELSE area[f]]

\* git reset --hard: files in neither the commit nor the index stay.
ResetTree(index, tree, commit) ==
  [f \in LrFiles |-> IF commit[f] = 0 /\ index[f] = 0 THEN tree[f] ELSE commit[f]]

ResetIndex(index, commit) == commit

\* The branch after the reset of the recovery: reset --hard HEAD.
Recovered(b) == b

(***************************************************************************)
(* init: the branch is made from the current commit or checked out, then   *)
(* a sentinel found leads to a reset.  A checkout that git refuses raises  *)
(* before the recovery.  `reaches` is FALSE if the process ends between.   *)
(***************************************************************************)
LrOpen(p, reaches) ==
  LET isNew == lrBranch[p] = NoBranch
      b == IF isNew THEN lrBranch[lrHead] ELSE lrBranch[p]
      index == CheckedOut(lrIndex, Tip(b))
      tree  == CheckedOut(lrTree, Tip(b))
      recovers == reaches /\ lrSentinel
      after == IF recovers THEN Recovered(b) ELSE b
  IN  /\ isNew \/ ~Blocked(Tip(b))
      /\ lrHead' = p
      /\ lrBranch' = [lrBranch EXCEPT ![p] = after]
      /\ lrIndex' = IF recovers THEN ResetIndex(index, Tip(after)) ELSE index
      /\ lrTree'  = IF recovers THEN ResetTree(index, tree, Tip(after)) ELSE tree
      /\ lrSentinel' = (lrSentinel /\ ~recovers)
      /\ lrRaised' = (lrRaised /\ ~recovers)
      /\ lrOpen' = IF reaches THEN lrOpen \cup {p} ELSE {}
      /\ UNCHANGED lrNext

(***************************************************************************)
(* write_and_commit: the sentinel, the file, the index, the commit (of the *)
(* whole index, on the branch checked out), and the sentinel again.  The   *)
(* states it can stop in, by a crash or an exception, in their order.      *)
(***************************************************************************)
Staged_AddsAll(f, v) ==   \* mutant: git add -A
  [g \in LrFiles |-> IF g = f THEN v ELSE lrTree[g]]
Staged(f, v) == [lrIndex EXCEPT ![f] = v]

Commit(f, v) == [tree |-> Staged(f, v)]

SentinelUntilCommit == TRUE

AfterSteps(f, v) ==
  LET written == [lrTree EXCEPT ![f] = v]
      committed == [lrBranch EXCEPT ![lrHead] = Append(@, Commit(f, v))]
      At(tree, index, branch, sentinel) ==
        [tree |-> tree, index |-> index, branch |-> branch, sentinel |-> sentinel]
  IN  <<At(lrTree, lrIndex, lrBranch, TRUE),
        At([lrTree EXCEPT ![f] = Torn], lrIndex, lrBranch, TRUE),
        At(written, lrIndex, lrBranch, TRUE),
        At(written, Staged(f, v), lrBranch, SentinelUntilCommit),
        At(written, Staged(f, v), committed, TRUE),
        At(written, Staged(f, v), committed, FALSE)>>

StopsIn(s) ==
  /\ lrTree' = s.tree /\ lrIndex' = s.index
  /\ lrBranch' = s.branch /\ lrSentinel' = s.sentinel
  /\ lrNext' = lrNext + 1
  /\ UNCHANGED lrHead

Write(f) ==
  /\ lrOpen # {} /\ lrNext < LrMaxWrites
  /\ StopsIn(AfterSteps(f, lrNext + 1)[6])
  /\ UNCHANGED <<lrOpen, lrRaised>>

\* The exception goes to the caller, and the process may go on.
WriteRaises(f, k) ==
  /\ lrOpen # {} /\ lrNext < LrMaxWrites
  /\ StopsIn(AfterSteps(f, lrNext + 1)[k])
  /\ lrRaised' = TRUE
  /\ UNCHANGED lrOpen

CrashInWrite(f, k) ==
  /\ lrOpen # {} /\ lrNext < LrMaxWrites
  /\ StopsIn(AfterSteps(f, lrNext + 1)[k])
  /\ lrOpen' = {}
  /\ UNCHANGED lrRaised

\* git refuses to go back before the first commit.
HasBefore(n) == n < Len(lrBranch[lrHead])

\* rollback(n): reset --hard HEAD~n
Rollback(n) ==
  /\ lrOpen # {} /\ HasBefore(n)
  /\ LET b == SubSeq(lrBranch[lrHead], 1, Len(lrBranch[lrHead]) - n)
     IN  /\ lrBranch' = [lrBranch EXCEPT ![lrHead] = b]
         /\ lrIndex' = ResetIndex(lrIndex, Tip(b))
         /\ lrTree' = ResetTree(lrIndex, lrTree, Tip(b))
  /\ UNCHANGED <<lrHead, lrSentinel, lrOpen, lrNext, lrRaised>>

\* The process ends outside a call.
Ends == lrOpen # {} /\ lrOpen' = {}
        /\ UNCHANGED <<lrHead, lrBranch, lrIndex, lrTree, lrSentinel, lrNext, lrRaised>>

LrNext ==
  \/ \E p \in LrProfiles, reaches \in BOOLEAN : LrOpen(p, reaches)
  \/ \E f \in LrFiles : Write(f)
  \/ \E f \in LrFiles, k \in 1..5 : WriteRaises(f, k)
  \/ \E f \in LrFiles, k \in 1..5 : CrashInWrite(f, k)
  \/ \E n \in 1..LrMaxWrites : Rollback(n)
  \/ Ends

LrSpec == LrInit /\ [][LrNext]_lrVars
-----------------------------------------------------------------------------
LrTypeOK ==
  /\ lrHead \in LrProfiles \cup {"main"}
  /\ \A p \in LrProfiles \cup {"main"} : \A i \in DOMAIN lrBranch[p] :
       lrBranch[p][i].tree \in LrTrees
  /\ lrIndex \in LrTrees /\ lrTree \in LrTrees
  /\ lrSentinel \in BOOLEAN /\ lrRaised \in BOOLEAN
  /\ lrOpen \subseteq LrProfiles
  /\ lrNext \in 0..LrMaxWrites
  /\ lrOpen # {} => lrHead \in LrProfiles /\ lrBranch[lrHead] # NoBranch

\* Whatever a crash or a failed write has left in the tree or the index, no
\* commit of any branch ever holds a file that was written in part
\* (lifecycle_repo.py:80-85).
NoTornCommit ==
  \A p \in LrProfiles \cup {"main"} : \A i \in DOMAIN lrBranch[p] :
    \A f \in LrFiles : lrBranch[p][i].tree[f] # Torn

\* All that is not committed is under the sentinel, so that the next init
\* resets it; left out are files that were never added, which no reset
\* touches.
DirtUnderSentinel ==
  /\ lrIndex # HeadTree => lrSentinel
  /\ \A f \in LrFiles : lrIndex[f] # 0 /\ lrTree[f] # lrIndex[f] => lrSentinel

\* After crashes anywhere, changes of branch and rollbacks that is so, unless
\* a write has raised and its process has gone on: the next write then removes
\* the sentinel of the failed one.
CrashesUnderSentinel == ~lrRaised => DirtUnderSentinel

\* Every experiment is a commit of its own: a new commit differs from the one
\* before it only in the file it was called for, whatever crashes have left
\* in the index and the tree (lifecycle_repo.py:83-84 commits all the index).
OneWritePerCommit ==
  \A p \in LrProfiles :
    ~lrRaised /\ lrBranch[p] # NoBranch /\ Len(lrBranch'[p]) > Len(lrBranch[p])
      => \A f \in LrFiles : \/ Tip(lrBranch'[p])[f] = Tip(lrBranch[p])[f]
                            \/ Tip(lrBranch'[p])[f] = lrNext'

\* The history only says what was committed: only rollback takes commits
\* from a branch; init after a crash or an error never does, whether or not
\* the sentinel was removed in time.
OnlyRollbackDropsCommits ==
  \A p \in LrProfiles \cup {"main"} :
    Len(lrBranch'[p]) < Len(lrBranch[p]) => \E n \in 1..LrMaxWrites : Rollback(n)

\* The history of a profile is that of its experiments, whatever crashes and
\* failing writes have left behind.
HistoryIsTrue ==
  [][/\ NoTornCommit' /\ CrashesUnderSentinel'
     /\ OneWritePerCommit /\ OnlyRollbackDropsCommits]_lrVars
=============================================================================
