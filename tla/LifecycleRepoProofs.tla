------------------------- MODULE LifecycleRepoProofs -------------------------
(***************************************************************************)
(* Proofs about LifecycleRepo, for all profiles, files and numbers of      *)
(* writes: after crashes and failing writes anywhere, changes of branch    *)
(* and rollbacks, the history of each profile is that of its experiments.  *)
(***************************************************************************)
EXTENDS LifecycleRepo, SequenceTheorems, TLAPS

LrBranches == LrProfiles \cup {"main"}

\* Trees without a torn file: what may be staged, and so committed.
WholeTrees == [LrFiles -> 0..LrMaxWrites]
WholeCommits == [tree : WholeTrees]

\* A torn file is in the working tree or nowhere: this is what makes
\* NoTornCommit inductive.
LrShape ==
  /\ lrHead \in LrBranches
  /\ lrBranch \in [LrBranches -> Seq(WholeCommits)]
  /\ lrBranch[lrHead] # <<>>
  /\ lrIndex \in WholeTrees /\ lrTree \in LrTrees
  /\ lrSentinel \in BOOLEAN /\ lrRaised \in BOOLEAN
  /\ lrOpen \subseteq LrProfiles
  /\ lrNext \in 0..LrMaxWrites
  /\ lrOpen # {} => lrHead \in LrProfiles

\* A process that has come through init, and whose writes have all returned,
\* works without a sentinel: what it commits begins at a clean tree.
OpenIsClean == lrOpen # {} /\ ~lrRaised => ~lrSentinel

RepoInv == LrShape /\ OpenIsClean /\ CrashesUnderSentinel
-----------------------------------------------------------------------------
(* Branches and trees                                                      *)

LEMMA TipIsWhole ==
  ASSUME NEW b \in Seq(WholeCommits)
  PROVE  Tip(b) \in WholeTrees
<1>1. CASE Len(b) = 0
  BY <1>1, LifecycleRepoAssumption DEF Tip, NoFiles, WholeTrees
<1>2. CASE Len(b) # 0
  <2>1. b[Len(b)] \in WholeCommits
    BY <1>2
  <2>. QED BY <1>2, <2>1 DEF Tip, WholeCommits
<1>. QED BY <1>1, <1>2

\* A commit goes to the end of its branch.
LEMMA TipOfAppend ==
  ASSUME NEW b \in Seq(WholeCommits), NEW c \in WholeCommits
  PROVE  /\ Append(b, c) \in Seq(WholeCommits)
         /\ Append(b, c) # <<>>
         /\ Len(Append(b, c)) = Len(b) + 1
         /\ Tip(Append(b, c)) = c.tree
BY DEF Tip

\* What is left of a branch by rollback(n) is a branch.
LEMMA ShortBranch ==
  ASSUME NEW b \in Seq(WholeCommits), NEW n \in 1..LrMaxWrites, n < Len(b)
  PROVE  /\ SubSeq(b, 1, Len(b) - n) \in Seq(WholeCommits)
         /\ SubSeq(b, 1, Len(b) - n) # <<>>
         /\ Len(SubSeq(b, 1, Len(b) - n)) < Len(b)
<1>1. Len(b) - n \in 1..Len(b) /\ 1 \in 1..(Len(b) + 1)
  BY LifecycleRepoAssumption
<1>2. /\ SubSeq(b, 1, Len(b) - n) \in Seq(WholeCommits)
      /\ Len(SubSeq(b, 1, Len(b) - n)) = Len(b) - n
  BY <1>1, SubSeqProperties, LifecycleRepoAssumption
<1> DEFINE short == SubSeq(b, 1, Len(b) - n)
<1>3. Len(short) > 0 /\ Len(short) < Len(b)
  BY <1>1, <1>2, LifecycleRepoAssumption
<1> HIDE DEF short
<1>4. short # <<>>
  BY <1>3
<1>. QED BY <1>2, <1>3, <1>4 DEF short

\* Shapes have no torn commit.
LEMMA ShapeIsWhole == ASSUME LrShape PROVE NoTornCommit
<1>1. SUFFICES ASSUME NEW p \in LrBranches, NEW i \in DOMAIN lrBranch[p],
                      NEW f \in LrFiles
               PROVE  lrBranch[p][i].tree[f] # Torn
  BY DEF NoTornCommit, LrBranches
<1>2. lrBranch[p][i] \in WholeCommits
  BY DEF LrShape
<1>3. lrBranch[p][i].tree[f] \in 0..LrMaxWrites
  BY <1>2 DEF WholeCommits, WholeTrees
<1>. QED BY <1>3, LifecycleRepoAssumption DEF Torn

LEMMA HeadIsWhole == ASSUME LrShape PROVE HeadTree \in WholeTrees
BY TipIsWhole DEF LrShape, HeadTree

\* git reset --hard leaves nothing that the next reset would change, but for
\* files in neither the index nor the commit.
LEMMA ResetIsClean ==
  ASSUME NEW index \in WholeTrees, NEW tree \in LrTrees,
         NEW commit \in WholeTrees
  PROVE  /\ ResetTree(index, tree, commit) \in LrTrees
         /\ ResetIndex(index, commit) \in WholeTrees
         /\ ResetIndex(index, commit) = commit
         /\ \A f \in LrFiles :
              commit[f] # 0 => ResetTree(index, tree, commit)[f] = commit[f]
BY LifecycleRepoAssumption
   DEF ResetTree, ResetIndex, WholeTrees, LrTrees, Versions, Torn

\* git checkout of a clean tree gives a clean tree.
LEMMA CheckedOutTypes ==
  ASSUME LrShape, NEW target \in WholeTrees
  PROVE  /\ CheckedOut(lrIndex, target) \in WholeTrees
         /\ CheckedOut(lrTree, target) \in LrTrees
BY LifecycleRepoAssumption
   DEF LrShape, CheckedOut, WholeTrees, LrTrees, Versions, Torn

LEMMA CheckoutIsClean ==
  ASSUME LrShape, NEW target \in WholeTrees, lrIndex = HeadTree,
         \A f \in LrFiles : lrIndex[f] # 0 => lrTree[f] = lrIndex[f]
  PROVE  /\ CheckedOut(lrIndex, target) = target
         /\ \A f \in LrFiles :
              target[f] # 0 => CheckedOut(lrTree, target)[f] = target[f]
BY DEF LrShape, CheckedOut, Moves, WholeTrees
-----------------------------------------------------------------------------
(* write_and_commit                                                        *)

LEMMA StagedIsWhole ==
  ASSUME LrShape, NEW f \in LrFiles, NEW v \in 0..LrMaxWrites
  PROVE  /\ Staged(f, v) \in WholeTrees
         /\ Commit(f, v) \in WholeCommits
         /\ Staged(f, v)[f] = v
         /\ \A g \in LrFiles \ {f} : Staged(f, v)[g] = lrIndex[g]
         /\ [lrTree EXCEPT ![f] = v] \in LrTrees
         /\ [lrTree EXCEPT ![f] = Torn] \in LrTrees
BY LifecycleRepoAssumption
   DEF LrShape, Staged, Commit, WholeTrees, WholeCommits, LrTrees, Versions, Torn

\* A write ends or stops after k of its steps.
Stops(f, k) == StopsIn(AfterSteps(f, lrNext + 1)[k])

LEMMA StopsThere ==
  ASSUME NEW tree, NEW index, NEW branch, NEW sentinel \in BOOLEAN,
         StopsIn([tree |-> tree, index |-> index, branch |-> branch,
                  sentinel |-> sentinel])
  PROVE  /\ lrTree' = tree /\ lrIndex' = index /\ lrBranch' = branch
         /\ lrSentinel' = sentinel
BY DEF StopsIn

\* Wherever a write stops, the sentinel is there but for the end of it; the
\* branch is as it was, or has one more commit: what is then staged.
LEMMA StopsInKeeps ==
  ASSUME RepoInv, NEW f \in LrFiles, NEW k \in 1..6,
         lrOpen # {}, lrNext < LrMaxWrites,
         Stops(f, k)
  PROVE  /\ lrHead' = lrHead /\ lrNext' = lrNext + 1
         /\ lrIndex' \in WholeTrees /\ lrTree' \in LrTrees
         /\ lrSentinel' \in BOOLEAN
         /\ k # 6 => lrSentinel'
         /\ k = 6 => /\ ~lrSentinel'
                     /\ lrIndex' = Staged(f, lrNext + 1)
                     /\ lrTree' = [lrTree EXCEPT ![f] = lrNext + 1]
         /\ \/ k < 5 /\ lrBranch' = lrBranch
            \/ /\ k >= 5
               /\ lrBranch' = [lrBranch EXCEPT ![lrHead] =
                                 Append(@, Commit(f, lrNext + 1))]
<1> DEFINE v == lrNext + 1
<1>1. v \in 0..LrMaxWrites
  BY LifecycleRepoAssumption DEF RepoInv, LrShape
<1>2. /\ Staged(f, v) \in WholeTrees
      /\ lrTree \in LrTrees /\ lrIndex \in WholeTrees
      /\ [lrTree EXCEPT ![f] = v] \in LrTrees
      /\ [lrTree EXCEPT ![f] = Torn] \in LrTrees
  BY <1>1, StagedIsWhole DEF RepoInv, LrShape
<1> DEFINE written == [lrTree EXCEPT ![f] = v]
           more == [lrBranch EXCEPT ![lrHead] = Append(@, Commit(f, v))]
<1>3. lrNext' = v /\ lrHead' = lrHead
  BY DEF Stops, StopsIn
<1>4. CASE k = 1
  <2>1. AfterSteps(f, v)[k] = [tree |-> lrTree, index |-> lrIndex,
                               branch |-> lrBranch, sentinel |-> TRUE]
    BY <1>4 DEF AfterSteps
  <2>2. /\ lrTree' = lrTree /\ lrIndex' = lrIndex
        /\ lrBranch' = lrBranch /\ lrSentinel' = TRUE
    BY <2>1, StopsThere DEF Stops
  <2>. QED BY <1>2, <1>3, <1>4, <2>2
<1>5. CASE k = 2
  <2>1. AfterSteps(f, v)[k] = [tree |-> [lrTree EXCEPT ![f] = Torn],
                               index |-> lrIndex, branch |-> lrBranch,
                               sentinel |-> TRUE]
    BY <1>5 DEF AfterSteps
  <2>2. /\ lrTree' = [lrTree EXCEPT ![f] = Torn] /\ lrIndex' = lrIndex
        /\ lrBranch' = lrBranch /\ lrSentinel' = TRUE
    BY <2>1, StopsThere DEF Stops
  <2>. QED BY <1>2, <1>3, <1>5, <2>2
<1>6. CASE k = 3
  <2>1. AfterSteps(f, v)[k] = [tree |-> written, index |-> lrIndex,
                               branch |-> lrBranch, sentinel |-> TRUE]
    BY <1>6 DEF AfterSteps
  <2>2. /\ lrTree' = written /\ lrIndex' = lrIndex
        /\ lrBranch' = lrBranch /\ lrSentinel' = TRUE
    BY <2>1, StopsThere DEF Stops
  <2>. QED BY <1>2, <1>3, <1>6, <2>2
<1>7. CASE k = 4
  <2>1. AfterSteps(f, v)[k] = [tree |-> written, index |-> Staged(f, v),
                               branch |-> lrBranch, sentinel |-> TRUE]
    BY <1>7 DEF AfterSteps, SentinelUntilCommit
  <2>2. /\ lrTree' = written /\ lrIndex' = Staged(f, v)
        /\ lrBranch' = lrBranch /\ lrSentinel' = TRUE
    BY <2>1, StopsThere DEF Stops
  <2>. QED BY <1>2, <1>3, <1>7, <2>2
<1>8. CASE k = 5
  <2>1. AfterSteps(f, v)[k] = [tree |-> written, index |-> Staged(f, v),
                               branch |-> more, sentinel |-> TRUE]
    BY <1>8 DEF AfterSteps
  <2>2. /\ lrTree' = written /\ lrIndex' = Staged(f, v)
        /\ lrBranch' = more /\ lrSentinel' = TRUE
    BY <2>1, StopsThere DEF Stops
  <2>. QED BY <1>2, <1>3, <1>8, <2>2
<1>9. CASE k = 6
  <2>1. AfterSteps(f, v)[k] = [tree |-> written, index |-> Staged(f, v),
                               branch |-> more, sentinel |-> FALSE]
    BY <1>9 DEF AfterSteps
  <2>2. /\ lrTree' = written /\ lrIndex' = Staged(f, v)
        /\ lrBranch' = more /\ lrSentinel' = FALSE
    BY <2>1, StopsThere DEF Stops
  <2>3. ~lrSentinel' /\ lrSentinel' \in BOOLEAN
    BY <2>2, Zenon
  <2>. QED BY <1>2, <1>3, <1>9, <2>2, <2>3
<1>. QED BY <1>4, <1>5, <1>6, <1>7, <1>8, <1>9

\* The parts of the shape that a write changes.
LEMMA StopShape ==
  ASSUME RepoInv, NEW f \in LrFiles, NEW k \in 1..6,
         lrOpen # {}, lrNext < LrMaxWrites,
         Stops(f, k),
         lrRaised' \in BOOLEAN, lrOpen' \subseteq lrOpen
  PROVE  LrShape'
<1>1. /\ lrHead' = lrHead /\ lrNext' \in 0..LrMaxWrites
      /\ lrIndex' \in WholeTrees /\ lrTree' \in LrTrees
      /\ lrSentinel' \in BOOLEAN
  BY StopsInKeeps, LifecycleRepoAssumption DEF RepoInv, LrShape
<1>2. /\ lrBranch' \in [LrBranches -> Seq(WholeCommits)]
      /\ lrBranch'[lrHead] # <<>>
  <2>1. /\ lrBranch \in [LrBranches -> Seq(WholeCommits)]
        /\ lrHead \in LrBranches /\ lrBranch[lrHead] # <<>>
        /\ lrNext + 1 \in 0..LrMaxWrites
    BY LifecycleRepoAssumption DEF RepoInv, LrShape
  <2>2. Commit(f, lrNext + 1) \in WholeCommits
    BY <2>1, StagedIsWhole DEF RepoInv
  <2>3. /\ Append(lrBranch[lrHead], Commit(f, lrNext + 1)) \in Seq(WholeCommits)
        /\ Append(lrBranch[lrHead], Commit(f, lrNext + 1)) # <<>>
    BY <2>1, <2>2, TipOfAppend
  <2>4. \/ lrBranch' = lrBranch
        \/ lrBranch' = [lrBranch EXCEPT ![lrHead] =
                          Append(@, Commit(f, lrNext + 1))]
    BY StopsInKeeps
  <2>. QED BY <2>1, <2>3, <2>4
<1>. QED BY <1>1, <1>2 DEF RepoInv, LrShape

\* No write shortens a branch, and what it adds is one file.
LEMMA StopWritesOne ==
  ASSUME RepoInv, NEW f \in LrFiles, NEW k \in 1..6,
         lrOpen # {}, lrNext < LrMaxWrites,
         Stops(f, k)
  PROVE  OneWritePerCommit /\ OnlyRollbackDropsCommits
<1> DEFINE v == lrNext + 1
           b == lrBranch[lrHead]
<1>1. /\ v \in 0..LrMaxWrites /\ lrHead \in LrBranches
      /\ lrBranch \in [LrBranches -> Seq(WholeCommits)]
      /\ b \in Seq(WholeCommits)
      /\ lrNext' = v
  BY StopsInKeeps, LifecycleRepoAssumption DEF RepoInv, LrShape
<1>2. Commit(f, v) \in WholeCommits /\ Commit(f, v).tree = Staged(f, v)
  BY <1>1, StagedIsWhole DEF RepoInv, Commit
<1>3. /\ Len(Append(b, Commit(f, v))) = Len(b) + 1
      /\ Tip(Append(b, Commit(f, v))) = Staged(f, v)
  BY <1>1, <1>2, TipOfAppend
<1>4. \/ lrBranch' = lrBranch
      \/ lrBranch' = [lrBranch EXCEPT ![lrHead] = Append(b, Commit(f, v))]
  BY StopsInKeeps
<1>5. ~lrRaised => \A g \in LrFiles : \/ Staged(f, v)[g] = Tip(b)[g]
                                      \/ Staged(f, v)[g] = lrNext'
  <2>1. SUFFICES ASSUME ~lrRaised, NEW g \in LrFiles
                 PROVE  \/ Staged(f, v)[g] = Tip(b)[g]
                        \/ Staged(f, v)[g] = lrNext'
    OBVIOUS
  <2>2. lrIndex = Tip(b)
    BY <2>1 DEF RepoInv, OpenIsClean, CrashesUnderSentinel, DirtUnderSentinel, HeadTree
  <2>3. /\ Staged(f, v)[f] = v
        /\ \A h \in LrFiles \ {f} : Staged(f, v)[h] = lrIndex[h]
    BY <1>1, StagedIsWhole DEF RepoInv
  <2>. QED BY <1>1, <2>2, <2>3
<1>6. OneWritePerCommit
  <2>1. SUFFICES ASSUME NEW p \in LrProfiles, ~lrRaised,
                        Len(lrBranch'[p]) > Len(lrBranch[p]), NEW g \in LrFiles
                 PROVE  \/ Tip(lrBranch'[p])[g] = Tip(lrBranch[p])[g]
                        \/ Tip(lrBranch'[p])[g] = lrNext'
    BY DEF OneWritePerCommit
  <2>2. p \in LrBranches /\ Len(lrBranch[p]) \in Nat
    BY <1>1 DEF LrBranches
  <2>3. p = lrHead /\ lrBranch'[p] = Append(b, Commit(f, v))
    BY <1>1, <1>4, <2>1, <2>2
  <2>. QED BY <1>3, <1>5, <2>1, <2>3
<1>7. OnlyRollbackDropsCommits
  <2>1. SUFFICES ASSUME NEW p \in LrBranches
                 PROVE  ~(Len(lrBranch'[p]) < Len(lrBranch[p]))
    BY DEF OnlyRollbackDropsCommits, LrBranches
  <2>2. Len(lrBranch[p]) \in Nat /\ Len(b) \in Nat
    BY <1>1
  <2>. QED BY <1>1, <1>3, <1>4, <2>1, <2>2
<1>. QED BY <1>6, <1>7
-----------------------------------------------------------------------------
(* One lemma for each action                                               *)

\* What every step but one keeps, and the action property of the step.
StepIsTrue == RepoInv' /\ OneWritePerCommit /\ OnlyRollbackDropsCommits

LEMMA WriteKeeps ==
  ASSUME RepoInv, NEW f \in LrFiles, Write(f)
  PROVE  StepIsTrue
<1> DEFINE v == lrNext + 1
           b == lrBranch[lrHead]
<1>1. /\ lrOpen # {} /\ lrNext < LrMaxWrites /\ lrOpen' = lrOpen /\ lrRaised' = lrRaised
      /\ Stops(f, 6) /\ 6 \in 1..6
  BY DEF Write, Stops
<1>2. /\ lrHead' = lrHead /\ ~lrSentinel'
      /\ lrIndex' = Staged(f, v) /\ lrTree' = [lrTree EXCEPT ![f] = v]
      /\ lrBranch' = [lrBranch EXCEPT ![lrHead] = Append(b, Commit(f, v))]
  BY <1>1, StopsInKeeps
<1>3. LrShape'
  BY <1>1, StopShape DEF RepoInv, LrShape
<1>4. OneWritePerCommit /\ OnlyRollbackDropsCommits
  BY <1>1, StopWritesOne
<1>5. OpenIsClean'
  BY <1>2 DEF OpenIsClean
<1>6. CrashesUnderSentinel'
  <2>1. SUFFICES ASSUME ~lrRaised PROVE DirtUnderSentinel'
    BY <1>1 DEF CrashesUnderSentinel
  <2>2. /\ lrBranch \in [LrBranches -> Seq(WholeCommits)] /\ lrHead \in LrBranches
        /\ b \in Seq(WholeCommits) /\ v \in 0..LrMaxWrites /\ lrTree \in LrTrees
    BY <1>1, LifecycleRepoAssumption DEF RepoInv, LrShape
  <2>3. /\ lrIndex = HeadTree
        /\ \A g \in LrFiles : lrIndex[g] # 0 => lrTree[g] = lrIndex[g]
    BY <1>1, <2>1 DEF RepoInv, OpenIsClean, CrashesUnderSentinel, DirtUnderSentinel
  <2>4. /\ Commit(f, v) \in WholeCommits /\ Commit(f, v).tree = Staged(f, v)
        /\ Staged(f, v)[f] = v
        /\ \A g \in LrFiles \ {f} : Staged(f, v)[g] = lrIndex[g]
    BY <2>2, StagedIsWhole DEF RepoInv, Commit
  <2>5. HeadTree' = Staged(f, v)
    BY <1>2, <2>2, <2>4, TipOfAppend DEF HeadTree
  <2>6. \A g \in LrFiles : lrIndex'[g] # 0 => lrTree'[g] = lrIndex'[g]
    BY <1>2, <2>2, <2>3, <2>4 DEF LrTrees
  <2>. QED BY <1>2, <2>5, <2>6 DEF DirtUnderSentinel
<1>. QED BY <1>3, <1>4, <1>5, <1>6 DEF StepIsTrue, RepoInv

LEMMA WriteRaisesKeeps ==
  ASSUME RepoInv, NEW f \in LrFiles, NEW k \in 1..5, WriteRaises(f, k)
  PROVE  StepIsTrue
<1>1. /\ lrOpen # {} /\ lrNext < LrMaxWrites /\ lrOpen' = lrOpen /\ lrRaised' = TRUE
      /\ Stops(f, k) /\ k \in 1..6
  BY DEF WriteRaises, Stops
<1>2. LrShape'
  BY <1>1, StopShape
<1>3. OneWritePerCommit /\ OnlyRollbackDropsCommits
  BY <1>1, StopWritesOne
<1>. QED BY <1>1, <1>2, <1>3
         DEF StepIsTrue, RepoInv, OpenIsClean, CrashesUnderSentinel

LEMMA CrashInWriteKeeps ==
  ASSUME RepoInv, NEW f \in LrFiles, NEW k \in 1..5, CrashInWrite(f, k)
  PROVE  StepIsTrue
<1>1. /\ lrOpen # {} /\ lrNext < LrMaxWrites /\ lrOpen' = {} /\ lrRaised' = lrRaised
      /\ Stops(f, k) /\ k \in 1..6
  BY DEF CrashInWrite, Stops
<1>2. LrShape'
  BY <1>1, StopShape DEF RepoInv, LrShape
<1>3. OneWritePerCommit /\ OnlyRollbackDropsCommits
  BY <1>1, StopWritesOne
<1>4. lrSentinel'
  BY <1>1, StopsInKeeps
<1>. QED BY <1>1, <1>2, <1>3, <1>4
         DEF StepIsTrue, RepoInv, OpenIsClean, CrashesUnderSentinel, DirtUnderSentinel

LEMMA RollbackKeeps ==
  ASSUME RepoInv, NEW n \in 1..LrMaxWrites, Rollback(n)
  PROVE  StepIsTrue
<1> DEFINE old == lrBranch[lrHead]
           b == SubSeq(old, 1, Len(old) - n)
<1>1. /\ lrBranch \in [LrBranches -> Seq(WholeCommits)] /\ lrHead \in LrBranches
      /\ old \in Seq(WholeCommits) /\ n < Len(old)
      /\ lrIndex \in WholeTrees /\ lrTree \in LrTrees
  BY DEF RepoInv, LrShape, Rollback, HasBefore
<1>2. b \in Seq(WholeCommits) /\ b # <<>> /\ Len(b) < Len(old)
  BY <1>1, ShortBranch
<1>3. Tip(b) \in WholeTrees
  BY <1>2, TipIsWhole
<1>4. /\ lrBranch' = [lrBranch EXCEPT ![lrHead] = b]
      /\ lrIndex' = ResetIndex(lrIndex, Tip(b))
      /\ lrTree' = ResetTree(lrIndex, lrTree, Tip(b))
      /\ UNCHANGED <<lrHead, lrSentinel, lrOpen, lrNext, lrRaised>>
  BY DEF Rollback
<1>5. /\ lrTree' \in LrTrees /\ lrIndex' = Tip(b)
      /\ \A f \in LrFiles : lrIndex'[f] # 0 => lrTree'[f] = lrIndex'[f]
  BY <1>1, <1>3, <1>4, ResetIsClean
<1> HIDE DEF b, old
<1>6. LrShape'
  BY <1>1, <1>2, <1>3, <1>4, <1>5 DEF RepoInv, LrShape
<1>7. HeadTree' = lrIndex'
  BY <1>1, <1>4, <1>5 DEF HeadTree
<1>8. CrashesUnderSentinel' /\ OpenIsClean'
  BY <1>4, <1>5, <1>7
     DEF RepoInv, CrashesUnderSentinel, DirtUnderSentinel, OpenIsClean
<1>9. OneWritePerCommit
  <2>1. \A p \in LrProfiles : p \in LrBranches /\ Len(lrBranch[p]) \in Nat
    BY <1>1 DEF LrBranches
  <2>2. Len(b) \in Nat /\ Len(old) \in Nat
    BY <1>1, <1>2
  <2>3. \A p \in LrProfiles : ~(Len(lrBranch'[p]) > Len(lrBranch[p]))
    BY <1>1, <1>2, <1>4, <2>1, <2>2 DEF old
  <2>. QED BY <2>3 DEF OneWritePerCommit
<1>10. OnlyRollbackDropsCommits
  BY DEF OnlyRollbackDropsCommits
<1>. QED BY <1>6, <1>8, <1>9, <1>10 DEF StepIsTrue, RepoInv

\* A sentinel found is taken away together with all it stands for; without
\* one there is nothing for the checkout to carry to the other branch.
LEMMA LrOpenKeeps ==
  ASSUME RepoInv, NEW p \in LrProfiles, NEW reaches \in BOOLEAN,
         LrOpen(p, reaches)
  PROVE  StepIsTrue
<1> DEFINE isNew == lrBranch[p] = NoBranch
           b == IF isNew THEN lrBranch[lrHead] ELSE lrBranch[p]
           index == CheckedOut(lrIndex, Tip(b))
           tree == CheckedOut(lrTree, Tip(b))
           recovers == reaches /\ lrSentinel
<1>1. /\ lrBranch \in [LrBranches -> Seq(WholeCommits)] /\ lrHead \in LrBranches
      /\ p \in LrBranches /\ lrBranch[lrHead] # <<>>
      /\ lrSentinel \in BOOLEAN /\ lrRaised \in BOOLEAN
  BY DEF RepoInv, LrShape, LrBranches
<1>2. b \in Seq(WholeCommits) /\ b # <<>>
  BY <1>1 DEF NoBranch
<1>3. Tip(b) \in WholeTrees
  BY <1>2, TipIsWhole
<1>4. index \in WholeTrees /\ tree \in LrTrees
  BY <1>3, CheckedOutTypes DEF RepoInv
<1>5. /\ lrHead' = p /\ lrBranch' = [lrBranch EXCEPT ![p] = b]
      /\ lrIndex' = IF recovers THEN ResetIndex(index, Tip(b)) ELSE index
      /\ lrTree' = IF recovers THEN ResetTree(index, tree, Tip(b)) ELSE tree
      /\ lrSentinel' = (lrSentinel /\ ~recovers)
      /\ lrRaised' = (lrRaised /\ ~recovers)
      /\ lrOpen' = IF reaches THEN lrOpen \cup {p} ELSE {}
      /\ lrNext' = lrNext
  BY DEF LrOpen, Recovered
<1>6. ~isNew => lrBranch[p] = b
  OBVIOUS
<1> HIDE DEF b, index, tree
<1>7. LrShape'
  <2>1. lrIndex' \in WholeTrees /\ lrTree' \in LrTrees
    BY <1>3, <1>4, <1>5, ResetIsClean
  <2>2. lrBranch' \in [LrBranches -> Seq(WholeCommits)] /\ lrBranch'[p] # <<>>
    BY <1>1, <1>2, <1>5
  <2>3. lrSentinel' \in BOOLEAN /\ lrRaised' \in BOOLEAN
    BY <1>5
  <2>4. lrOpen' \subseteq LrProfiles /\ lrNext' \in 0..LrMaxWrites
    BY <1>5 DEF RepoInv, LrShape
  <2>. QED BY <1>1, <1>5, <2>1, <2>2, <2>3, <2>4 DEF LrShape
<1>8. OpenIsClean'
  BY <1>5 DEF OpenIsClean
<1>9. HeadTree' = Tip(b)
  BY <1>1, <1>5 DEF HeadTree
<1>10. CrashesUnderSentinel'
  <2>1. SUFFICES ASSUME ~lrRaised', ~lrSentinel'
                 PROVE  /\ lrIndex' = Tip(b)
                        /\ \A f \in LrFiles : lrIndex'[f] # 0 => lrTree'[f] = lrIndex'[f]
    BY <1>9 DEF CrashesUnderSentinel, DirtUnderSentinel
  <2>2. CASE recovers
    BY <1>3, <1>4, <1>5, <2>2, ResetIsClean
  <2>3. CASE ~recovers
    <3>1. ~lrRaised /\ ~lrSentinel
      BY <1>5, <2>1, <2>3
    <3>2. /\ lrIndex = HeadTree
          /\ \A f \in LrFiles : lrIndex[f] # 0 => lrTree[f] = lrIndex[f]
      BY <3>1 DEF RepoInv, CrashesUnderSentinel, DirtUnderSentinel
    <3>. QED BY <1>3, <1>5, <2>3, <3>2, CheckoutIsClean DEF RepoInv, index, tree
  <2>. QED BY <2>2, <2>3
<1>11. OneWritePerCommit
  <2>1. \A q \in LrProfiles :
          lrBranch[q] # NoBranch => lrBranch'[q] = lrBranch[q]
    BY <1>1, <1>5, <1>6 DEF LrBranches
  <2>2. \A q \in LrProfiles : Len(lrBranch[q]) \in Nat
    BY <1>1 DEF LrBranches
  <2>. QED BY <2>1, <2>2 DEF OneWritePerCommit
<1>12. OnlyRollbackDropsCommits
  <2>1. SUFFICES ASSUME NEW q \in LrBranches
                 PROVE  ~(Len(lrBranch'[q]) < Len(lrBranch[q]))
    BY DEF OnlyRollbackDropsCommits, LrBranches
  <2>2. Len(lrBranch[q]) \in Nat /\ Len(b) \in Nat
    BY <1>1, <1>2
  <2>3. CASE q # p \/ ~isNew
    BY <1>1, <1>5, <1>6, <2>2, <2>3
  <2>4. CASE q = p /\ isNew
    BY <1>1, <1>5, <2>2, <2>4 DEF NoBranch
  <2>. QED BY <2>3, <2>4
<1>. QED BY <1>7, <1>8, <1>10, <1>11, <1>12 DEF StepIsTrue, RepoInv

LEMMA EndsKeeps == ASSUME RepoInv, Ends PROVE StepIsTrue
<1>1. RepoInv'
  BY DEF Ends, RepoInv, LrShape, OpenIsClean, CrashesUnderSentinel,
         DirtUnderSentinel, HeadTree
<1>2. \A p \in LrBranches : Len(lrBranch[p]) \in Nat /\ lrBranch' = lrBranch
  BY DEF Ends, RepoInv, LrShape
<1>. QED BY <1>1, <1>2
         DEF StepIsTrue, OneWritePerCommit, OnlyRollbackDropsCommits, LrBranches
-----------------------------------------------------------------------------
LEMMA RepoStarts == LrInit => RepoInv
<1> SUFFICES ASSUME LrInit PROVE RepoInv
  OBVIOUS
<1>1. NoFiles \in WholeTrees /\ NoFiles \in LrTrees
  BY LifecycleRepoAssumption DEF NoFiles, WholeTrees, LrTrees, Versions, Torn
<1>2. RootCommit \in WholeCommits
  BY <1>1 DEF RootCommit, WholeCommits
<1>3. /\ lrBranch \in [LrBranches -> Seq(WholeCommits)]
      /\ lrHead = "main" /\ lrHead \in LrBranches
      /\ lrBranch[lrHead] = <<RootCommit>>
  BY <1>2 DEF LrInit, LrBranches, NoBranch
<1>4. LrShape
  <2>1. <<RootCommit>> # <<>>
    OBVIOUS
  <2>2. /\ lrIndex \in WholeTrees /\ lrTree \in LrTrees /\ lrOpen = {}
        /\ lrNext \in 0..LrMaxWrites
    BY <1>1, LifecycleRepoAssumption DEF LrInit
  <2>3. lrSentinel \in BOOLEAN /\ lrRaised \in BOOLEAN
    BY DEF LrInit
  <2>. QED BY <1>3, <2>1, <2>2, <2>3 DEF LrShape
<1>5. HeadTree = NoFiles
  BY <1>3 DEF HeadTree, Tip, RootCommit
<1>. QED BY <1>4, <1>5
         DEF LrInit, RepoInv, OpenIsClean, CrashesUnderSentinel, DirtUnderSentinel

LEMMA RepoStep == RepoInv /\ LrNext => StepIsTrue
BY LrOpenKeeps, WriteKeeps, WriteRaisesKeeps, CrashInWriteKeeps, RollbackKeeps,
   EndsKeeps
   DEF LrNext

LEMMA RepoInvariant == LrSpec => []RepoInv
<1>1. RepoInv /\ [LrNext]_lrVars => RepoInv'
  <2>1. RepoInv /\ UNCHANGED lrVars => RepoInv'
    BY DEF lrVars, RepoInv, LrShape, OpenIsClean, CrashesUnderSentinel,
           DirtUnderSentinel, HeadTree
  <2>. QED BY <2>1, RepoStep DEF StepIsTrue
<1>. QED BY <1>1, RepoStarts, PTL DEF LrSpec

\* No commit of any branch ever holds a file that was written in part, and
\* what is not committed is under the sentinel, through crashes anywhere
\* (lifecycle_repo.py:77-97).
THEOREM RepositoryIsClean == LrSpec => [](NoTornCommit /\ CrashesUnderSentinel)
<1>1. RepoInv => NoTornCommit /\ CrashesUnderSentinel
  BY ShapeIsWhole DEF RepoInv
<1>. QED BY <1>1, RepoInvariant, PTL

\* The history of a profile is that of its experiments: every new commit
\* changes the one file it was called for, and only rollback takes commits
\* away (lifecycle_repo.py:47-102).
THEOREM HistoryKept == LrSpec => HistoryIsTrue
<1>1. /\ RepoInv /\ LrNext
      => /\ NoTornCommit' /\ CrashesUnderSentinel'
         /\ OneWritePerCommit /\ OnlyRollbackDropsCommits
  <2>1. RepoInv' => NoTornCommit' /\ CrashesUnderSentinel'
    <3>1. RepoInv => NoTornCommit /\ CrashesUnderSentinel
      BY ShapeIsWhole DEF RepoInv
    <3>. QED BY <3>1, PTL
  <2>. QED BY <2>1, RepoStep DEF StepIsTrue
<1>2. LrSpec => [][LrNext]_lrVars
  BY PTL DEF LrSpec
<1>. QED BY <1>1, <1>2, RepoInvariant, PTL DEF HistoryIsTrue
=============================================================================
