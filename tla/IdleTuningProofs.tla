-------------------------- MODULE IdleTuningProofs --------------------------
(***************************************************************************)
(* Theorems about IdleTuning, and about the flywheel that its sessions     *)
(* feed, for every value of the constants.                                 *)
(***************************************************************************)
EXTENDS MCIdle, FiniteSetTheorems, SequenceTheorems, WellFoundedInduction,
        TLAPS

\* Gains of a chain inside the safety bounds, or none.
Safe(c) == [Joints(c) -> Lo..Hi] \cup {Unwritten}

\* A session file whose gains are safe.
File == {f \in [chain : Chains, params : UNION {Safe(c) : c \in Chains},
                outcome : Outcomes] : f.params \in Safe(f.chain)}

\* An operator may restore any stored session, so AppliedInBounds is
\* inductive only with the gains in the files.
BoundsInv ==
  /\ applied = [c \in Chains |-> applied[c]]
  /\ \A c \in Chains : applied[c] \in Safe(c)
  /\ sessions \in Seq(File) /\ Len(sessions) <= MaxSessions
  /\ unsaved \subseteq Chains
-----------------------------------------------------------------------------
(* One suggestion                                                          *)

\* What either path suggests is an integer for each joint of the chain.
LEMMA SuggestedType ==
  ASSUME NEW c \in Chains, NEW a, NEW g \in Suggested(c, a)
  PROVE  g \in [Joints(c) -> Int]
<1>1. ContextGain \in Int /\ LlmGains \subseteq Int /\ Deltas \subseteq Int
      /\ MaxStep \in Int
  BY IdleTuningAssumption
<1>2. CASE g \in DeepPath(c)
  BY <1>1, <1>2 DEF DeepPath
<1>3. CASE g \in FastPath(c)
  <2>1. PICK d \in [Joints(c) -> Deltas] :
          g = [j \in Joints(c) |-> ApplyDelta(ContextGain, d[j], MaxStep)]
    BY <1>3 DEF FastPath
  <2>2. ASSUME NEW j \in Joints(c)
        PROVE  ApplyDelta(ContextGain, d[j], MaxStep) \in Int
    <3>1. d[j] \in Int
      BY <1>1
    <3> DEFINE p == Clip(d[j], -MaxStep, MaxStep)
    <3>2. p \in Int
      BY <1>1, <3>1 DEF Clip, GreatestOf, LeastOf
    <3> HIDE DEF p
    <3>3. ContextGain * (100 + p) \in Int
      BY <1>1, <3>2
    <3>4. Percent(ContextGain, p) \in Int
      BY <3>3 DEF Percent
    <3>5. ApplyDelta(ContextGain, d[j], MaxStep)
            = GreatestOf(0, Percent(ContextGain, p))
      BY DEF ApplyDelta, p
    <3> QED BY <3>4, <3>5 DEF GreatestOf
  <2> QED BY <2>1, <2>2
<1> QED BY <1>2, <1>3 DEF Suggested

\* The safety check brings every gain inside the bounds.
LEMMA ClampSafe ==
  ASSUME NEW g \in Int
  PROVE  Clamp(g) \in Lo..Hi
BY IdleTuningAssumption DEF Clamp, Clip, GreatestOf, LeastOf

\* The context gains are safe, and so is what is kept of safe gains.
LEMMA KeptSafe ==
  ASSUME NEW c \in Chains, NEW g \in [Joints(c) -> Lo..Hi], NEW outcome
  PROVE  Kept(c, g, outcome) \in Safe(c)
<1>1. Context(c) \in [Joints(c) -> Lo..Hi]
  BY IdleTuningAssumption DEF Context
<1> QED BY <1>1 DEF Kept, Safe

LEMMA OutcomeType ==
  ASSUME NEW c, NEW g, NEW a
  PROVE  Outcome(c, g, a) \in Outcomes
BY DEF Outcome, Outcomes

\* A file written for safe gains, complete or torn.
LEMMA SessionIsFile ==
  ASSUME NEW c \in Chains, NEW g \in Safe(c), NEW o \in Outcomes
  PROVE  Session(c, g, o) \in File
BY DEF Session, File
-----------------------------------------------------------------------------
(* The steps                                                               *)

\* Clamp, write, roll back and save keep gains and files safe.
LEMMA TuneStep ==
  ASSUME BoundsInv, Len(sessions) < MaxSessions, NEW c \in Chains, NEW a,
         NEW g \in Suggested(c, a), Tune(c, g, a)
  PROVE  BoundsInv'
<1> DEFINE safe    == [j \in Joints(c) |-> Clamp(g[j])]
           outcome == Outcome(c, safe, a)
<1>1. safe \in [Joints(c) -> Lo..Hi]
  BY SuggestedType, ClampSafe
<1>2. outcome \in Outcomes
  BY OutcomeType
<1>3. /\ Session(c, safe, outcome) \in File
      /\ Session(c, Unwritten, "torn") \in File
  <2>1. safe \in Safe(c) /\ Unwritten \in Safe(c)
    BY <1>1 DEF Safe
  <2>2. "torn" \in Outcomes
    BY DEF Outcomes
  <2> QED BY <1>2, <2>1, <2>2, SessionIsFile
<1>4. Kept(c, safe, outcome) \in Safe(c)
  BY <1>1, KeptSafe
<1>5. /\ applied' = [applied EXCEPT ![c] = Kept(c, safe, outcome)]
      /\ sessions' \in {sessions, Append(sessions, Session(c, safe, outcome)),
                        Append(sessions, Session(c, Unwritten, "torn"))}
      /\ unsaved' \subseteq unsaved \cup {c}
  BY DEF Tune
<1> HIDE DEF safe, outcome
<1>6. sessions' \in Seq(File) /\ Len(sessions') <= MaxSessions
  <2>1. ASSUME NEW f \in File
        PROVE  /\ Append(sessions, f) \in Seq(File)
               /\ Len(Append(sessions, f)) <= MaxSessions
    BY IdleTuningAssumption DEF BoundsInv
  <2> QED BY <1>3, <1>5, <2>1 DEF BoundsInv
<1>7. /\ applied' = [d \in Chains |-> applied'[d]]
      /\ \A d \in Chains : applied'[d] \in Safe(d)
  BY <1>4, <1>5 DEF BoundsInv
<1> QED BY <1>5, <1>6, <1>7 DEF BoundsInv, Safe, Joints

\* The step of a manual rollback writes the gains of a file of the chain.
LEMMA ManualRollbackStep ==
  ASSUME BoundsInv, NEW c \in Chains, ManualRollback(c)
  PROVE  BoundsInv'
<1>1. PICK k \in DOMAIN sessions :
        /\ IsLastGood(c, k)
        /\ applied' = [applied EXCEPT ![c] = sessions[k].params]
        /\ unsaved' = unsaved \ {c} /\ sessions' = sessions
  BY DEF ManualRollback
<1>2. sessions[k] \in File
  BY DEF BoundsInv
<1>3. sessions[k].chain = c
  BY <1>1 DEF IsLastGood, Good, Recent, Own
<1>4. sessions[k].params \in Safe(c)
  BY <1>2, <1>3 DEF File
<1>5. /\ applied' = [d \in Chains |-> applied'[d]]
      /\ \A d \in Chains : applied'[d] \in Safe(d)
  BY <1>1, <1>4 DEF BoundsInv
<1> QED BY <1>1, <1>5 DEF BoundsInv, Safe, Joints

LEMMA BoundsInvariant == Spec => []BoundsInv
<1>1. Init => BoundsInv
  BY IdleTuningAssumption DEF Init, BoundsInv, Safe
<1>2. BoundsInv /\ [Next]_vars => BoundsInv'
  <2> SUFFICES ASSUME BoundsInv, [Next]_vars PROVE BoundsInv'
    OBVIOUS
  <2>1. CASE RunOnce
    BY <2>1, TuneStep DEF RunOnce, Eligible
  <2>2. CASE Restart
    BY <2>2 DEF Restart, BoundsInv, Safe
  <2>3. CASE \E c \in Chains : ManualRollback(c)
    BY <2>3, ManualRollbackStep
  <2>4. CASE UNCHANGED vars
    BY <2>4 DEF vars, BoundsInv, Safe, Joints
  <2> QED BY <2>1, <2>2, <2>3, <2>4 DEF Next
<1> QED BY <1>1, <1>2, PTL DEF Spec
-----------------------------------------------------------------------------
(* What explains the gains a chain holds                                   *)

\* The files of chains other than the one tuned stay the accepted ones.
LEMMA AcceptedOfOthers ==
  ASSUME BoundsInv, NEW c \in Chains, NEW d \in Chains \ {c}, NEW f \in File,
         f.chain = c, sessions' \in {sessions, Append(sessions, f)}
  PROVE  /\ Accepted(d)' = Accepted(d)
         /\ \A k \in Accepted(d) : sessions'[k] = sessions[k]
<1>1. CASE sessions' = sessions
  BY <1>1 DEF Accepted
<1>2. CASE sessions' = Append(sessions, f)
  <2>1. /\ DOMAIN sessions = 1..Len(sessions) /\ Len(sessions) \in Nat
        /\ DOMAIN sessions' = 1..(Len(sessions) + 1)
        /\ \A k \in 1..Len(sessions) : sessions'[k] = sessions[k]
        /\ sessions'[Len(sessions) + 1] = f
    BY <1>2 DEF BoundsInv
  <2> QED BY <2>1 DEF Accepted
<1> QED BY <1>1, <1>2

\* A run: its session explains what its chain holds, and other chains keep
\* what they hold and what explains it.
LEMMA TuneExplained ==
  ASSUME BoundsInv, AppliedIsExplained, NEW c \in Chains, NEW a,
         NEW g \in Suggested(c, a), Tune(c, g, a)
  PROVE  AppliedIsExplained'
<1> DEFINE safe    == [j \in Joints(c) |-> Clamp(g[j])]
           outcome == Outcome(c, safe, a)
<1>1. safe \in Safe(c) /\ Unwritten \in Safe(c)
  BY SuggestedType, ClampSafe DEF Safe
<1>2. outcome \in {"rollback", "improved", "neutral"}
  BY DEF Outcome
<1>3. applied' = [applied EXCEPT ![c] = Kept(c, safe, outcome)]
  BY DEF Tune
<1>4. \/ /\ sessions' = Append(sessions, Session(c, safe, outcome))
         /\ unsaved' = unsaved \ {c}
      \/ /\ sessions' \in
              {sessions, Append(sessions, Session(c, Unwritten, "torn"))}
         /\ unsaved' = unsaved \cup {c}
  BY DEF Tune
<1>5. /\ Session(c, safe, outcome) \in File
      /\ Session(c, Unwritten, "torn") \in File
  BY <1>1, <1>2, SessionIsFile DEF Outcomes
<1>6. /\ Session(c, safe, outcome).chain = c
      /\ Session(c, safe, outcome).params = safe
      /\ Session(c, safe, outcome).outcome = outcome
      /\ Session(c, Unwritten, "torn").chain = c
  BY DEF Session
<1> HIDE DEF safe, outcome
<1> SUFFICES ASSUME NEW d \in Chains \ unsaved'
             PROVE  \/ applied'[d] \in {Unwritten, Context(d)}
                    \/ \E k \in Accepted(d)' :
                         /\ \A j \in Accepted(d)' : j <= k
                         /\ applied'[d] = sessions'[k].params
  BY DEF AppliedIsExplained, Context, Joints
<1>7. CASE d = c
  <2>1. sessions' = Append(sessions, Session(c, safe, outcome))
    BY <1>4, <1>7
  <2>2. applied'[c] = Kept(c, safe, outcome)
    BY <1>3 DEF BoundsInv
  <2>3. CASE outcome = "rollback"
    BY <1>7, <2>2, <2>3 DEF Kept
  <2>4. CASE outcome \in {"improved", "neutral"}
    <3> DEFINE k == Len(sessions) + 1
    <3>1. /\ Len(sessions) \in Nat /\ DOMAIN sessions' = 1..k
          /\ sessions'[k] = Session(c, safe, outcome)
      BY <1>5, <2>1 DEF BoundsInv
    <3>2. k \in Accepted(c)' /\ \A j \in Accepted(c)' : j <= k
      BY <1>6, <2>4, <3>1 DEF Accepted
    <3>3. applied'[c] = sessions'[k].params
      BY <1>6, <2>2, <2>4, <3>1 DEF Kept
    <3> HIDE DEF k
    <3> QED BY <1>7, <3>2, <3>3
  <2> QED BY <1>2, <2>3, <2>4
<1>8. CASE d # c
  <2>1. d \in Chains \ unsaved /\ applied'[d] = applied[d]
    BY <1>3, <1>4, <1>8 DEF BoundsInv
  <2>2. /\ Accepted(d)' = Accepted(d)
        /\ \A k \in Accepted(d) : sessions'[k] = sessions[k]
    BY <1>4, <1>5, <1>6, <1>8, AcceptedOfOthers
  <2> QED BY <2>1, <2>2 DEF AppliedIsExplained
<1> QED BY <1>7, <1>8

\* The newest good file among the last QueryLimit ones of a chain is the
\* newest accepted one of all: a newer one would be among the last, too.
LEMMA LastGoodIsNewest ==
  ASSUME BoundsInv, NEW c \in Chains, NEW k, IsLastGood(c, k)
  PROVE  k \in Accepted(c) /\ \A j \in Accepted(c) : j <= k
<1>1. DOMAIN sessions = 1..Len(sessions) /\ Len(sessions) \in Nat
  BY DEF BoundsInv
<1>2. /\ k \in 1..Len(sessions) /\ k \in Accepted(c) /\ k \in Recent(c)
      /\ \A j \in Good(c) : j <= k
  BY <1>1 DEF IsLastGood, Good, Recent, Own, Accepted
<1>3. ASSUME NEW j \in Accepted(c), ~(j <= k) PROVE FALSE
  <2> DEFINE After(i) == {h \in Own(c) : h > i}
  <2>1. j \in Own(c) /\ j \in 1..Len(sessions)
    BY <1>1 DEF Own, Accepted
  <2>2. After(j) \subseteq After(k)
    BY <1>1, <1>2, <1>3, <2>1 DEF Own
  <2>3. IsFiniteSet(After(k))
    <3>1. IsFiniteSet(1..Len(sessions))
      BY <1>1, FS_Interval
    <3>2. After(k) \subseteq 1..Len(sessions)
      BY <1>1 DEF Own
    <3> QED BY <3>1, <3>2, FS_Subset
  <2>4. /\ Cardinality(After(j)) <= Cardinality(After(k))
        /\ Cardinality(After(j)) \in Nat /\ Cardinality(After(k)) \in Nat
    BY <2>2, <2>3, FS_Subset, FS_CardinalityType
  <2>5. Cardinality(After(k)) < QueryLimit
    BY <1>2 DEF Recent
  <2>6. Cardinality(After(j)) < QueryLimit
    BY <2>4, <2>5, IdleTuningAssumption
  <2>7. j \in Good(c)
    BY <2>1, <2>6 DEF Good, Recent, Accepted
  <2> QED BY <1>2, <1>3, <2>7
<1> QED BY <1>2, <1>3

LEMMA ManualRollbackExplained ==
  ASSUME BoundsInv, AppliedIsExplained, NEW c \in Chains, ManualRollback(c)
  PROVE  AppliedIsExplained'
<1>1. PICK k \in DOMAIN sessions :
        /\ IsLastGood(c, k)
        /\ applied' = [applied EXCEPT ![c] = sessions[k].params]
        /\ unsaved' = unsaved \ {c} /\ sessions' = sessions
  BY DEF ManualRollback
<1>2. k \in Accepted(c) /\ \A j \in Accepted(c) : j <= k
  BY <1>1, LastGoodIsNewest
<1>3. \A d \in Chains : Accepted(d)' = Accepted(d)
  BY <1>1 DEF Accepted
<1>4. \A d \in Chains : applied'[d] = IF d = c THEN sessions[k].params
                                             ELSE applied[d]
  BY <1>1 DEF BoundsInv
<1> SUFFICES ASSUME NEW d \in Chains \ unsaved'
             PROVE  \/ applied'[d] \in {Unwritten, Context(d)}
                    \/ \E i \in Accepted(d)' :
                         /\ \A j \in Accepted(d)' : j <= i
                         /\ applied'[d] = sessions'[i].params
  BY DEF AppliedIsExplained, Context, Joints
<1>5. CASE d = c
  BY <1>1, <1>2, <1>3, <1>4, <1>5
<1>6. CASE d # c
  <2>1. d \in Chains \ unsaved
    BY <1>1, <1>6
  <2> QED BY <1>1, <1>3, <1>4, <1>6, <2>1 DEF AppliedIsExplained
<1> QED BY <1>5, <1>6
-----------------------------------------------------------------------------
(* Theorems                                                                *)

\* Gains held and stored are gains of the chain they are filed under.
THEOREM TypeCorrect == Spec => []TypeOK
<1>1. BoundsInv => TypeOK
  <2> SUFFICES ASSUME BoundsInv PROVE TypeOK
    OBVIOUS
  <2>1. Lo..Hi \subseteq Nat
    BY IdleTuningAssumption
  <2>2. \A c \in Chains : Safe(c) \subseteq GainsOf(c) \cup {Unwritten}
    BY <2>1 DEF Safe, GainsOf
  <2>3. DOMAIN applied = Chains
    BY DEF BoundsInv
  <2>4. ASSUME NEW k \in DOMAIN sessions
        PROVE  /\ sessions[k].chain \in Chains
               /\ sessions[k].outcome \in Outcomes
               /\ sessions[k].params \in
                    GainsOf(sessions[k].chain) \cup {Unwritten}
    <3>1. sessions[k] \in File
      BY DEF BoundsInv
    <3> QED BY <2>2, <3>1 DEF File
  <2> QED BY <2>2, <2>3, <2>4 DEF BoundsInv, TypeOK
<1> QED BY <1>1, BoundsInvariant, PTL

\* Whatever is suggested, and after any number of runs, rollbacks, failed
\* saves, restarts and manual restores, gains are inside the safety bounds.
THEOREM AppliedGainsInBounds == Spec => []AppliedInBounds
<1>1. BoundsInv => AppliedInBounds
  <2> SUFFICES ASSUME BoundsInv, NEW c \in Chains, NEW j \in DOMAIN applied[c]
               PROVE  applied[c][j] \in Lo..Hi
    BY DEF AppliedInBounds
  <2>1. CASE applied[c] \in [Joints(c) -> Lo..Hi]
    BY <2>1
  <2>2. CASE applied[c] = Unwritten
    BY <2>2 DEF Unwritten
  <2> QED BY <2>1, <2>2 DEF BoundsInv, Safe
<1> QED BY <1>1, BoundsInvariant, PTL

\* Rejected gains never stay: unless saving failed, a chain holds the context
\* gains or those of its newest accepted session.
THEOREM ExplanationCorrect == Spec => []AppliedIsExplained
<1>1. Init => AppliedIsExplained
  BY DEF Init, AppliedIsExplained
<1>2. BoundsInv /\ AppliedIsExplained /\ [Next]_vars => AppliedIsExplained'
  <2> SUFFICES ASSUME BoundsInv, AppliedIsExplained, [Next]_vars
               PROVE  AppliedIsExplained'
    OBVIOUS
  <2>1. CASE RunOnce
    BY <2>1, TuneExplained DEF RunOnce, Eligible
  <2>2. CASE Restart
    BY <2>2 DEF Restart, AppliedIsExplained
  <2>3. CASE \E c \in Chains : ManualRollback(c)
    BY <2>3, ManualRollbackExplained
  <2>4. CASE UNCHANGED vars
    BY <2>4 DEF vars, AppliedIsExplained, Accepted, Context, Joints
  <2> QED BY <2>1, <2>2, <2>3, <2>4 DEF Next
<1> QED BY <1>1, <1>2, BoundsInvariant, PTL DEF Spec
-----------------------------------------------------------------------------
(***************************************************************************)
(* Flywheel, for all milestones, numbers of trainings under way and of     *)
(* failures: the predictor in use is that of the last training that saved  *)
(* its model.                                                              *)
(***************************************************************************)

Last(s) == s[Len(s)]

FileTypes == [state : {"none", "torn", "good"}, samples : 0..MaxImproved]
Endings   == {"returned", "raised"}

FwShape ==
  /\ improved \in 0..MaxImproved
  /\ jobs \in Seq(1..MaxImproved) /\ finished \in Seq(Endings)
  /\ files \in [Versions -> FileTypes]
  /\ kept \in 0..MaxImproved
  /\ worker \in {"training", "writing"} => jobs # <<>>
  /\ worker = "broken" => failures # 0
  /\ kept # 0 \/ worker = "writing" => CanTrain

\* Jobs are in the order of the sessions they count, and no file is newer than
\* one of them or than the sessions there are.
JobsInOrder ==
  /\ \A i, j \in DOMAIN jobs : i <= j => jobs[i] <= jobs[j]
  /\ \A i \in DOMAIN jobs : jobs[i] <= improved
  /\ \A v \in OnDisk : /\ v <= Version(improved)
                       /\ \A i \in DOMAIN jobs : v <= Version(jobs[i])

\* The last saved model is the newest file, unless one is being written, and it
\* is in use or a coroutine is about to load it.
LastSaved ==
  kept # 0 /\ worker # "writing" =>
    /\ files[Version(kept)] = [state |-> "good", samples |-> kept]
    /\ \A v \in OnDisk : v <= Version(kept)
    /\ kept < 10 * PerVersion =>
         predictor.samples = kept \/ \E i \in DOMAIN finished : finished[i] = "returned"

\* Where nothing fails, every milestone is trained and its model kept.
Undisturbed ==
  failures = 0 /\ CanTrain =>
    IF jobs = <<>> THEN kept = Milestone(improved)
                   ELSE Last(jobs) = Milestone(improved)

FlywheelInv == FwShape /\ JobsInOrder /\ LastSaved /\ Undisturbed
-----------------------------------------------------------------------------
(* Milestones and versions                                                 *)

LEMMA Quotient ==
  ASSUME NEW n \in Nat, NEW d \in Nat \ {0}
  PROVE  /\ n \div d \in Nat
         /\ d * (n \div d) <= n
         /\ n < d * (n \div d) + d
         /\ n % d = 0 => n = d * (n \div d)
         /\ n % d # 0 => n # d * (n \div d)
OBVIOUS

LEMMA QuotientGrows ==
  ASSUME NEW a \in Nat, NEW b \in Nat, NEW d \in Nat \ {0}, a <= b
  PROVE  a \div d <= b \div d
<1> DEFINE p == a \div d
           q == b \div d
<1>1. /\ p \in Nat /\ q \in Nat
      /\ d * p <= a /\ b < d * q + d
  BY Quotient
<1> HIDE DEF p, q
<1>2. SUFFICES ASSUME q + 1 <= p PROVE FALSE
  BY <1>1 DEF p, q
<1>3. d * (q + 1) <= d * p
  BY <1>1, <1>2
<1>4. d * (q + 1) = d * q + d
  BY <1>1
<1>. QED BY <1>1, <1>3, <1>4

\* The quotient stays where the next number is no multiple.
LEMMA QuotientStays ==
  ASSUME NEW n \in Nat, NEW d \in Nat \ {0}, (n + 1) % d # 0
  PROVE  (n + 1) \div d = n \div d
<1> DEFINE p == (n + 1) \div d
           q == n \div d
<1>1. /\ p \in Nat /\ q \in Nat
      /\ d * p <= n + 1 /\ n + 1 # d * p /\ n < d * q + d
  BY Quotient
<1>2. q <= p
  BY QuotientGrows
<1> HIDE DEF p, q
<1>3. SUFFICES ASSUME q + 1 <= p PROVE FALSE
  BY <1>1, <1>2 DEF p, q
<1>4. d * (q + 1) <= d * p
  BY <1>1, <1>3
<1>5. d * (q + 1) = d * q + d
  BY <1>1
<1>6. d * p \in Nat /\ d * q \in Nat
  BY <1>1
<1>. QED BY <1>1, <1>4, <1>5, <1>6

LEMMA MilestoneType ==
  ASSUME NEW n \in Nat
  PROVE  /\ Milestone(n) \in 0..n
         /\ n >= First => Milestone(n) >= First
         /\ n < First => Milestone(n) = 0
<1>1. CASE n < First
  BY <1>1, FlywheelAssumption DEF Milestone
<1>2. CASE n >= First /\ n < Every
  BY <1>2, FlywheelAssumption DEF Milestone
<1>3. CASE n >= Every
  <2> DEFINE q == n \div Every
  <2>1. q \in Nat /\ Every * q <= n /\ n < Every * q + Every
    BY Quotient, FlywheelAssumption
  <2>2. Milestone(n) = Every * q
    BY <1>3, FlywheelAssumption DEF Milestone
  <2> HIDE DEF q
  <2>3. q >= 1
    BY <1>3, <2>1, FlywheelAssumption
  <2>4. Every * q >= Every * 1 /\ Every * q \in Nat
    BY <2>1, <2>3, FlywheelAssumption
  <2>. QED BY <1>3, <2>1, <2>2, <2>4, FlywheelAssumption
<1>. QED BY <1>1, <1>2, <1>3, FlywheelAssumption

\* A training starts at a milestone, and every milestone starts one.
LEMMA DueIsMilestone ==
  ASSUME NEW n \in Nat, Due(n)
  PROVE  n >= First /\ Milestone(n) = n
<1>1. CASE n < Every
  <2>1. n % Every = n
    BY <1>1, FlywheelAssumption
  <2>2. n = First
    BY <2>1, FlywheelAssumption DEF Due
  <2>. QED BY <1>1, <2>2, FlywheelAssumption DEF Milestone
<1>2. CASE n >= Every
  <2>1. Every % Every = 0
    BY FlywheelAssumption
  <2>2. n % Every = 0
    BY <1>2, <2>1, FlywheelAssumption DEF Due
  <2>3. n = Every * (n \div Every)
    BY <2>2, Quotient, FlywheelAssumption
  <2>. QED BY <1>2, <2>3, FlywheelAssumption DEF Milestone
<1>. QED BY <1>1, <1>2, FlywheelAssumption

LEMMA MilestoneStays ==
  ASSUME NEW n \in Nat, ~Due(n + 1)
  PROVE  /\ Milestone(n + 1) = Milestone(n)
         /\ n + 1 >= First => n >= First
<1>1. n + 1 # First /\ (n + 1 > First => (n + 1) % Every # 0)
  BY DEF Due
<1>2. CASE n + 1 < First
  BY <1>2, FlywheelAssumption DEF Milestone
<1>3. CASE n + 1 > First
  <2>1. (n + 1) % Every # 0
    BY <1>1, <1>3
  <2>2. (n + 1) \div Every = n \div Every
    BY <2>1, QuotientStays, FlywheelAssumption
  <2>3. n + 1 # Every
    <3>1. Every % Every = 0
      BY FlywheelAssumption
    <3>. QED BY <2>1, <3>1
  <2>4. n >= First /\ (n + 1 < Every <=> n < Every)
    BY <1>3, <2>3, FlywheelAssumption
  <2>. QED BY <1>3, <2>2, <2>4, FlywheelAssumption DEF Milestone
<1>. QED BY <1>1, <1>2, <1>3, FlywheelAssumption

LEMMA VersionType ==
  ASSUME NEW n \in 0..MaxImproved
  PROVE  /\ Version(n) \in Versions
         /\ Version(n) \in Nat
         /\ \A k \in 0..n : Version(k) <= Version(n)
<1>1. n \in Nat /\ MaxImproved \in Nat /\ n <= MaxImproved
  BY FlywheelAssumption
<1>2. /\ n \div PerVersion \in Nat /\ MaxImproved \div PerVersion \in Nat
      /\ n \div PerVersion <= MaxImproved \div PerVersion
  BY <1>1, Quotient, QuotientGrows, FlywheelAssumption
<1>3. \A k \in 0..n : k \div PerVersion <= n \div PerVersion
  BY <1>1, QuotientGrows, FlywheelAssumption
<1>. QED BY <1>2, <1>3 DEF Version, Versions

\* With one digit, names compare as the numbers do.
LEMMA OneDigit ==
  ASSUME NEW n \in Nat, n < 10 * PerVersion
  PROVE  Version(n) < 10
<1> DEFINE q == n \div PerVersion
<1>1. q \in Nat /\ PerVersion * q <= n
  BY Quotient, FlywheelAssumption
<1> HIDE DEF q
<1>2. SUFFICES ASSUME q >= 10 PROVE FALSE
  BY <1>1 DEF Version, q
<1>3. PerVersion * q >= PerVersion * 10
  BY <1>1, <1>2, FlywheelAssumption
<1>4. PerVersion * q \in Nat
  BY <1>1, FlywheelAssumption
<1>. QED BY <1>1, <1>3, <1>4, FlywheelAssumption

\* A set of natural numbers up to n has a largest element.
LEMMA LargestExists ==
  ASSUME NEW n \in Nat, NEW T, T \subseteq 0..n, T # {}
  PROVE  \E m \in T : \A k \in T : k <= m
<1> DEFINE D == {n - k : k \in T}
<1>1. D \subseteq Nat /\ D # {}
  <2>1. \A k \in T : n - k \in Nat
    OBVIOUS
  <2>2. PICK k : k \in T
    OBVIOUS
  <2>3. n - k \in D
    BY <2>2
  <2>4. D \subseteq Nat
    BY <2>1
  <2> QED BY <2>3, <2>4
<1>2. PICK d \in D : \A e \in D : <<e, d>> \notin OpToRel(<, Nat)
  BY <1>1, WFMin, NatLessThanWellFounded
<1>3. PICK m \in T : d = n - m
  OBVIOUS
<1>4. ASSUME NEW k \in T, k > m PROVE FALSE
  <2>1. n - k \in D /\ n - k < d /\ n - k \in Nat /\ d \in Nat
    BY <1>3, <1>4
  <2>2. <<n - k, d>> \in OpToRel(<, Nat)
    BY <2>1 DEF OpToRel
  <2> QED BY <1>2, <2>1, <2>2
<1> QED BY <1>4

\* The order of the names is total, so there is a latest file.
LEMMA LatestOnDisk == OnDisk # {} => FindLatest \in OnDisk
<1> SUFFICES ASSUME OnDisk # {} PROVE FindLatest \in OnDisk
  OBVIOUS
<1>1. PICK n \in Nat : OnDisk \subseteq 0..n
  <2>1. MaxImproved \div PerVersion \in Nat
    BY Quotient, FlywheelAssumption
  <2> QED BY <2>1 DEF OnDisk, Versions
<1>2. \A v \in 0..n : Lead(v) \in 0..n
  <2> SUFFICES ASSUME NEW v \in 0..n PROVE Lead(v) \in 0..n
    OBVIOUS
  <2>1. v \div 10 \in Nat /\ 10 * (v \div 10) <= v
    BY Quotient
  <2> QED BY <2>1 DEF Lead
<1> DEFINE L == {Lead(v) : v \in OnDisk}
<1>3. L \subseteq 0..n /\ L # {}
  BY <1>1, <1>2
<1>4. PICK m \in L : \A k \in L : k <= m
  <2> HIDE DEF L
  <2> QED BY <1>3, LargestExists
<1> DEFINE T == {v \in OnDisk : Lead(v) = m}
<1>5. T \subseteq 0..n /\ T # {}
  BY <1>1, <1>4
<1>6. PICK v \in T : \A w \in T : w <= v
  <2> HIDE DEF T
  <2> QED BY <1>5, LargestExists
<1>7. v \in OnDisk /\ \A w \in OnDisk : NotAfter(w, v)
  <2>1. v \in OnDisk /\ Lead(v) = m
    BY <1>6
  <2>2. ASSUME NEW w \in OnDisk PROVE NotAfter(w, v)
    <3>1. Lead(w) \in L /\ Lead(w) \in Int /\ m \in Int
      BY <1>1, <1>2, <1>3, <1>4
    <3>2. Lead(w) <= m
      BY <1>4, <3>1
    <3>3. CASE Lead(w) = m
      <4>1. w \in T
        BY <3>3
      <4> QED BY <1>6, <2>1, <3>3, <4>1 DEF NotAfter
    <3>4. CASE Lead(w) # m
      BY <2>1, <3>1, <3>2, <3>4 DEF NotAfter
    <3> QED BY <3>3, <3>4
  <2> QED BY <2>1, <2>2
<1> QED BY <1>7 DEF FindLatest

LEMMA LatestIsLargest ==
  ASSUME NEW top \in OnDisk, top < 10, \A v \in OnDisk : v <= top
  PROVE  FindLatest = top
<1>1. \A v \in OnDisk : v \in Nat
  BY DEF OnDisk, Versions
<1>2. \A v \in OnDisk : Lead(v) = v
  BY <1>1 DEF Lead
<1>3. \A w \in OnDisk : NotAfter(w, top)
  BY <1>1, <1>2 DEF NotAfter
<1>4. \A v \in OnDisk : NotAfter(top, v) => v = top
  BY <1>1, <1>2 DEF NotAfter
<1>. QED BY <1>3, <1>4 DEF FindLatest
-----------------------------------------------------------------------------
(* Queues                                                                  *)

LEMMA Appended ==
  ASSUME NEW S, NEW s \in Seq(S), NEW n \in S
  PROVE  /\ Append(s, n) \in Seq(S) /\ Append(s, n) # <<>>
         /\ Last(Append(s, n)) = n
         /\ \A i \in DOMAIN Append(s, n) :
              Append(s, n)[i] = n \/ (i \in DOMAIN s /\ Append(s, n)[i] = s[i])
BY DEF Last

LEMMA Taken ==
  ASSUME NEW S, NEW s \in Seq(S), s # <<>>
  PROVE  /\ Head(s) \in S /\ Head(s) = s[1] /\ 1 \in DOMAIN s
         /\ Tail(s) \in Seq(S)
         /\ Tail(s) = <<>> => Head(s) = Last(s)
         /\ Tail(s) # <<>> => Last(Tail(s)) = Last(s)
         /\ \A i \in DOMAIN Tail(s) :
              i + 1 \in DOMAIN s /\ Tail(s)[i] = s[i + 1]
<1>1. /\ Len(s) \in Nat \ {0} /\ Len(Tail(s)) = Len(s) - 1
      /\ Tail(s) \in Seq(S) /\ Head(s) = s[1] /\ 1 \in DOMAIN s
  OBVIOUS
<1>2. \A i \in DOMAIN Tail(s) : i + 1 \in DOMAIN s /\ Tail(s)[i] = s[i + 1]
  BY <1>1
<1>3. Tail(s) = <<>> => Len(s) = 1
  <2> DEFINE t == Tail(s)
  <2>1. t \in Seq(S) /\ Len(t) = Len(s) - 1
    BY <1>1
  <2> HIDE DEF t
  <2>2. t = <<>> => Len(t) = 0
    OBVIOUS
  <2>. QED BY <1>1, <2>1, <2>2 DEF t
<1>4. Tail(s) # <<>> => Last(Tail(s)) = Last(s)
  <2>1. SUFFICES ASSUME Tail(s) # <<>> PROVE Last(Tail(s)) = Last(s)
    OBVIOUS
  <2>2. Len(s) - 1 \in DOMAIN Tail(s)
    BY <1>1, <2>1
  <2>. QED BY <1>1, <1>2, <2>2 DEF Last
<1>. QED BY <1>1, <1>2, <1>3, <1>4 DEF Last
-----------------------------------------------------------------------------
(* One lemma for each action                                               *)

\* What is common to both kinds of sessions: n is what they count.
LEMMA SubmitKeeps ==
  ASSUME FlywheelInv, NEW n \in 0..MaxImproved, Submit(n), improved' = n,
         n = improved \/ n = improved + 1,
         UNCHANGED <<libs, worker, finished, files, predictor, kept, failures>>
  PROVE  FlywheelInv'
<1>1. /\ improved \in 0..MaxImproved /\ improved \in Nat /\ n \in Nat
      /\ improved <= n /\ jobs \in Seq(1..MaxImproved)
      /\ First \in Nat \ {0} /\ MaxImproved \in Nat
  BY FlywheelAssumption DEF FlywheelInv, FwShape
<1>2. \A v \in OnDisk : v <= Version(n) /\ v \in Nat
  <2>1. Version(improved) <= Version(n) /\ Version(improved) \in Nat
        /\ Version(n) \in Nat
    BY <1>1, VersionType
  <2>. QED BY <2>1 DEF FlywheelInv, JobsInOrder, OnDisk, Versions
<1>3. OnDisk' = OnDisk /\ CanTrain' = CanTrain
  BY DEF OnDisk, CanTrain
<1>4. LastSaved'
  BY <1>3 DEF FlywheelInv, LastSaved
<1>5. CASE Due(n) /\ worker # "broken"
  <2>1. n \in 1..MaxImproved /\ Milestone(n) = n /\ jobs' = Append(jobs, n)
    BY <1>1, <1>5, DueIsMilestone DEF Submit
  <2>2. /\ jobs' \in Seq(1..MaxImproved) /\ jobs' # <<>>
        /\ Last(jobs') = n
        /\ Len(jobs) \in Nat /\ DOMAIN jobs = 1..Len(jobs)
        /\ DOMAIN jobs' = 1..(Len(jobs) + 1) /\ jobs'[Len(jobs) + 1] = n
        /\ \A i \in 1..Len(jobs) : jobs'[i] = jobs[i]
    BY <1>1, <2>1 DEF Last
  <2>3. FwShape'
    BY <1>1, <1>3, <2>2 DEF FlywheelInv, FwShape
  <2>4. \A i \in DOMAIN jobs : jobs[i] <= n /\ jobs[i] \in Nat
    BY <1>1 DEF FlywheelInv, JobsInOrder
  <2>5. /\ \A i, j \in DOMAIN jobs' : i <= j => jobs'[i] <= jobs'[j]
        /\ \A i \in DOMAIN jobs' : jobs'[i] <= n
    <3>1. \A i \in DOMAIN jobs' : i = Len(jobs) + 1 \/ i \in DOMAIN jobs
      BY <2>2
    <3>3. \A i \in DOMAIN jobs' : jobs'[i] <= n
      <4>1. \A i \in DOMAIN jobs : jobs'[i] <= n
        BY <2>2, <2>4
      <4>2. jobs'[Len(jobs) + 1] <= n
        BY <1>1, <2>2
      <4>. QED BY <3>1, <4>1, <4>2
    <3>2. ASSUME NEW i \in DOMAIN jobs', NEW j \in DOMAIN jobs', i <= j
          PROVE  jobs'[i] <= jobs'[j]
      <4>1. CASE j = Len(jobs) + 1
        BY <2>2, <3>3, <4>1
      <4>2. CASE j \in DOMAIN jobs
        <5>1. i \in DOMAIN jobs
          BY <2>2, <3>2, <4>2
        <5>. QED BY <2>2, <3>2, <4>2, <5>1 DEF FlywheelInv, JobsInOrder
      <4>. QED BY <3>1, <4>1, <4>2
    <3>. QED BY <3>3, <3>2
  <2>6. ASSUME NEW v \in OnDisk, NEW i \in DOMAIN jobs'
        PROVE  v <= Version(jobs'[i])
    <3>1. CASE i = Len(jobs) + 1
      BY <1>2, <2>2, <3>1
    <3>2. CASE i \in DOMAIN jobs
      BY <2>2, <3>2 DEF FlywheelInv, JobsInOrder
    <3>. QED BY <2>2, <3>1, <3>2
  <2>7. JobsInOrder'
    BY <1>2, <1>3, <2>5, <2>6 DEF JobsInOrder, Version
  <2>8. Undisturbed'
    BY <2>1, <2>2 DEF Undisturbed, Last
  <2>. QED BY <1>4, <2>3, <2>7, <2>8 DEF FlywheelInv
<1>6. CASE ~(Due(n) /\ worker # "broken")
  <2>1. jobs' = jobs
    BY <1>6 DEF Submit
  <2>2. FwShape'
    BY <1>1, <1>3, <2>1 DEF FlywheelInv, FwShape
  <2>3. \A i \in DOMAIN jobs : jobs[i] <= n
    BY <1>1 DEF FlywheelInv, JobsInOrder
  <2>4. JobsInOrder'
    BY <1>2, <1>3, <2>1, <2>3 DEF FlywheelInv, JobsInOrder, Version
  <2>5. Undisturbed'
    <3>1. CASE worker = "broken"
      BY <3>1 DEF FlywheelInv, FwShape, Undisturbed
    <3>2. CASE worker # "broken"
      <4>1. Milestone(n) = Milestone(improved)
        BY <1>1, <1>6, <3>2, MilestoneStays
      <4>. QED BY <1>3, <2>1, <4>1 DEF FlywheelInv, Undisturbed, Last
    <3>. QED BY <3>1, <3>2
  <2>. QED BY <1>4, <2>2, <2>4, <2>5 DEF FlywheelInv
<1>. QED BY <1>5, <1>6

LEMMA SavesKeep ==
  ASSUME FlywheelInv, SaveImproved \/ SaveOther
  PROVE  FlywheelInv'
<1>1. CASE SaveImproved
  <2>1. improved + 1 \in 0..MaxImproved
    BY <1>1, FlywheelAssumption DEF FlywheelInv, FwShape, SaveImproved
  <2>. QED BY <1>1, <2>1, SubmitKeeps DEF SaveImproved
<1>2. CASE SaveOther
  BY <1>2, SubmitKeeps DEF SaveOther, FlywheelInv, FwShape
<1>. QED BY <1>1, <1>2

\* The job in hand, the file it is written to, and what is left without it.
LEMMA HeadOfJobs ==
  ASSUME FlywheelInv, jobs # <<>>
  PROVE  /\ Head(jobs) \in 1..MaxImproved /\ Head(jobs) <= improved
         /\ Version(Head(jobs)) \in Versions
         /\ Version(Head(jobs)) <= Version(improved)
         /\ \A v \in OnDisk : v <= Version(Head(jobs))
         /\ \A i \in DOMAIN jobs : Version(Head(jobs)) <= Version(jobs[i])
         /\ Tail(jobs) \in Seq(1..MaxImproved)
         /\ Tail(jobs) = <<>> => Head(jobs) = Last(jobs)
         /\ Tail(jobs) # <<>> => Last(Tail(jobs)) = Last(jobs)
         /\ \A i \in DOMAIN Tail(jobs) :
              i \in Nat /\ i + 1 \in DOMAIN jobs /\ Tail(jobs)[i] = jobs[i + 1]
<1>1. /\ jobs \in Seq(1..MaxImproved) /\ improved \in 0..MaxImproved
      /\ MaxImproved \in Nat
  BY FlywheelAssumption DEF FlywheelInv, FwShape
<1>2. /\ Head(jobs) \in 1..MaxImproved /\ Head(jobs) = jobs[1]
      /\ 1 \in DOMAIN jobs /\ Tail(jobs) \in Seq(1..MaxImproved)
      /\ Tail(jobs) = <<>> => Head(jobs) = Last(jobs)
      /\ Tail(jobs) # <<>> => Last(Tail(jobs)) = Last(jobs)
      /\ \A i \in DOMAIN Tail(jobs) :
           i + 1 \in DOMAIN jobs /\ Tail(jobs)[i] = jobs[i + 1]
  BY <1>1, Taken
<1>3. \A i \in DOMAIN Tail(jobs) : i \in Nat
  BY <1>2
<1>4. \A i \in DOMAIN jobs : /\ jobs[i] \in 0..MaxImproved
                            /\ Head(jobs) \in 0..jobs[i]
  BY <1>1, <1>2 DEF FlywheelInv, JobsInOrder
<1>5. \A i \in DOMAIN jobs : Version(Head(jobs)) <= Version(jobs[i])
  BY <1>4, VersionType
<1>6. Head(jobs) \in 0..improved /\ Head(jobs) \in 0..MaxImproved
  BY <1>1, <1>2 DEF FlywheelInv, JobsInOrder
<1>7. Version(Head(jobs)) \in Versions /\ Version(Head(jobs)) <= Version(improved)
  BY <1>1, <1>6, VersionType
<1>8. \A v \in OnDisk : v <= Version(Head(jobs))
  BY <1>2 DEF FlywheelInv, JobsInOrder
<1>. QED BY <1>2, <1>3, <1>5, <1>6, <1>7, <1>8

LEMMA WorkerStartsKeeps ==
  ASSUME FlywheelInv, WorkerStarts
  PROVE  FlywheelInv'
<1>1. /\ jobs # <<>> /\ worker = "free" /\ worker' = "training"
      /\ UNCHANGED <<libs, improved, jobs, finished, files, predictor, kept, failures>>
  BY DEF WorkerStarts
<1>2. OnDisk' = OnDisk /\ CanTrain' = CanTrain
  BY <1>1 DEF OnDisk, CanTrain
<1>3. FwShape' /\ JobsInOrder'
  BY <1>1, <1>2 DEF FlywheelInv, FwShape, JobsInOrder, Version
<1>4. LastSaved' /\ Undisturbed'
  BY <1>1, <1>2 DEF FlywheelInv, LastSaved, Undisturbed, Last, Version
<1>. QED BY <1>3, <1>4 DEF FlywheelInv

\* What a change of the file in hand leaves in order.
LEMMA FileChanges ==
  ASSUME FlywheelInv, jobs # <<>>, NEW f \in FileTypes,
         files' = [files EXCEPT ![Version(Head(jobs))] = f]
  PROVE  /\ files' \in [Versions -> FileTypes]
         /\ files'[Version(Head(jobs))] = f
         /\ \A v \in OnDisk' : /\ v <= Version(Head(jobs)) /\ v <= Version(improved)
                              /\ \A i \in DOMAIN jobs : v <= Version(jobs[i])
<1> DEFINE h == Version(Head(jobs))
<1>1. /\ h \in Versions /\ h <= Version(improved)
      /\ \A v \in OnDisk : v <= h
      /\ \A i \in DOMAIN jobs : h <= Version(jobs[i])
      /\ files \in [Versions -> FileTypes]
  BY HeadOfJobs DEF FlywheelInv, FwShape
<1> HIDE DEF h
<1>2. files' = [files EXCEPT ![h] = f]
  BY DEF h
<1>3. files' \in [Versions -> FileTypes] /\ files'[h] = f
  BY <1>1, <1>2
<1>4. \A v \in OnDisk' : v = h \/ v \in OnDisk
  BY <1>1, <1>2 DEF OnDisk
<1>5. h <= h
  BY <1>1 DEF Versions
<1>6. \A v \in OnDisk : /\ v <= Version(improved)
                        /\ \A i \in DOMAIN jobs : v <= Version(jobs[i])
  BY DEF FlywheelInv, JobsInOrder
<1>. QED BY <1>1, <1>3, <1>4, <1>5, <1>6 DEF h

LEMMA WorkerWritesKeeps ==
  ASSUME FlywheelInv, WorkerWrites
  PROVE  FlywheelInv'
<1>1. /\ jobs # <<>> /\ worker' = "writing"
      /\ files' = [files EXCEPT ![Version(Head(jobs))] = Torn]
      /\ UNCHANGED <<libs, improved, jobs, finished, predictor, kept, failures>>
  BY DEF WorkerWrites, FlywheelInv, FwShape
<1>2. Torn \in FileTypes
  BY FlywheelAssumption DEF Torn, FileTypes
<1>3. /\ files' \in [Versions -> FileTypes]
      /\ \A v \in OnDisk' : /\ v <= Version(improved)
                           /\ \A i \in DOMAIN jobs : v <= Version(jobs[i])
  BY <1>1, <1>2, FileChanges
<1>4. CanTrain' = CanTrain
  BY <1>1 DEF CanTrain
<1>5. FwShape'
  BY <1>1, <1>3, <1>4 DEF FlywheelInv, FwShape, WorkerWrites
<1>6. JobsInOrder'
  BY <1>1, <1>3 DEF FlywheelInv, JobsInOrder, Version
<1>7. LastSaved' /\ Undisturbed'
  BY <1>1, <1>4 DEF FlywheelInv, LastSaved, Undisturbed, Last
<1>. QED BY <1>5, <1>6, <1>7 DEF FlywheelInv

\* The end of a job, well or not.
LEMMA JobEnds ==
  ASSUME FlywheelInv, jobs # <<>>, NEW how \in Endings, Ends(how)
  PROVE  /\ jobs' \in Seq(1..MaxImproved)
         /\ finished' \in Seq(Endings)
         /\ \A i, j \in DOMAIN jobs' : i <= j => jobs'[i] <= jobs'[j]
         /\ \A i \in DOMAIN jobs' : jobs'[i] <= improved
         /\ \A v : (\A i \in DOMAIN jobs : v <= Version(jobs[i]))
                     => \A i \in DOMAIN jobs' : v <= Version(jobs'[i])
         /\ \E i \in DOMAIN finished' : finished'[i] = how
         /\ (\E i \in DOMAIN finished : finished[i] = "returned")
              => \E i \in DOMAIN finished' : finished'[i] = "returned"
<1>1. finished \in Seq(Endings) /\ finished' = Append(finished, how) /\ jobs' = Tail(jobs)
  BY DEF FlywheelInv, FwShape, Ends
<1>2. /\ finished' \in Seq(Endings)
      /\ Len(finished) + 1 \in DOMAIN finished'
      /\ finished'[Len(finished) + 1] = how
      /\ \A i \in DOMAIN finished : i \in DOMAIN finished' /\ finished'[i] = finished[i]
  BY <1>1
<1>3. /\ jobs' \in Seq(1..MaxImproved)
      /\ \A i \in DOMAIN jobs' :
           i \in Nat /\ i + 1 \in DOMAIN jobs /\ jobs'[i] = jobs[i + 1]
  BY <1>1, HeadOfJobs
<1>4. /\ \A i, j \in DOMAIN jobs' : i <= j => jobs'[i] <= jobs'[j]
      /\ \A i \in DOMAIN jobs' : jobs'[i] <= improved
  BY <1>3 DEF FlywheelInv, JobsInOrder
<1>5. ASSUME NEW v, \A i \in DOMAIN jobs : v <= Version(jobs[i])
      PROVE  \A i \in DOMAIN jobs' : v <= Version(jobs'[i])
  BY <1>3, <1>5
<1>. QED BY <1>2, <1>3, <1>4, <1>5

LEMMA WorkerSavesKeeps ==
  ASSUME FlywheelInv, WorkerSaves
  PROVE  FlywheelInv'
<1> DEFINE h == Head(jobs)
           good == [state |-> "good", samples |-> h]
<1>1. /\ jobs # <<>> /\ Ends("returned") /\ kept' = h
      /\ files' = [files EXCEPT ![Version(h)] = good]
      /\ UNCHANGED failures
  BY DEF WorkerSaves, Saved, FlywheelInv, FwShape
<1>2. /\ UNCHANGED <<libs, improved, predictor>> /\ worker' = "free"
      /\ jobs' = Tail(jobs) /\ CanTrain' = CanTrain
  BY <1>1 DEF Ends, CanTrain
<1>3. /\ jobs' \in Seq(1..MaxImproved)
      /\ finished' \in Seq(Endings)
      /\ \A i, j \in DOMAIN jobs' : i <= j => jobs'[i] <= jobs'[j]
      /\ \A i \in DOMAIN jobs' : jobs'[i] <= improved
      /\ \A v : (\A i \in DOMAIN jobs : v <= Version(jobs[i]))
                  => \A i \in DOMAIN jobs' : v <= Version(jobs'[i])
      /\ \E i \in DOMAIN finished' : finished'[i] = "returned"
  BY <1>1, JobEnds DEF Endings
<1>4. /\ h \in 1..MaxImproved
      /\ Tail(jobs) = <<>> => h = Last(jobs)
      /\ Tail(jobs) # <<>> => Last(Tail(jobs)) = Last(jobs)
  BY <1>1, HeadOfJobs
<1>5. good \in FileTypes
  BY <1>4, FlywheelAssumption DEF FileTypes
<1>6. /\ files' \in [Versions -> FileTypes] /\ files'[Version(h)] = good
      /\ \A v \in OnDisk' : /\ v <= Version(h) /\ v <= Version(improved)
                           /\ \A i \in DOMAIN jobs : v <= Version(jobs[i])
  BY <1>1, <1>5, FileChanges
<1>7. CanTrain
  BY DEF WorkerSaves, FlywheelInv, FwShape
<1>8. FwShape'
  BY <1>1, <1>2, <1>3, <1>4, <1>6, <1>7, FlywheelAssumption DEF FlywheelInv, FwShape
<1>9. JobsInOrder'
  BY <1>2, <1>3, <1>6 DEF JobsInOrder, Version
<1>10. LastSaved'
  BY <1>1, <1>3, <1>6 DEF LastSaved, Version
<1>11. Undisturbed'
  BY <1>1, <1>2, <1>4 DEF FlywheelInv, Undisturbed, Last
<1>. QED BY <1>8, <1>9, <1>10, <1>11 DEF FlywheelInv

\* A job that ends without having written: the last saved model stays.
LEMMA UnwrittenKeeps ==
  ASSUME FlywheelInv, worker = "training", NEW how \in Endings, Ends(how),
         UNCHANGED <<files, kept>>,
         failures' # 0 \/ (failures' = failures /\ ~CanTrain)
  PROVE  FlywheelInv'
<1>1. /\ jobs # <<>> /\ UNCHANGED <<libs, improved, predictor>> /\ worker' = "free"
      /\ OnDisk' = OnDisk /\ CanTrain' = CanTrain
  BY DEF FlywheelInv, FwShape, Ends, OnDisk, CanTrain
<1>2. /\ jobs' \in Seq(1..MaxImproved)
      /\ finished' \in Seq(Endings)
      /\ \A i, j \in DOMAIN jobs' : i <= j => jobs'[i] <= jobs'[j]
      /\ \A i \in DOMAIN jobs' : jobs'[i] <= improved
      /\ \A v : (\A i \in DOMAIN jobs : v <= Version(jobs[i]))
                  => \A i \in DOMAIN jobs' : v <= Version(jobs'[i])
      /\ (\E i \in DOMAIN finished : finished[i] = "returned")
           => \E i \in DOMAIN finished' : finished'[i] = "returned"
  BY <1>1, JobEnds
<1>3. FwShape'
  BY <1>1, <1>2 DEF FlywheelInv, FwShape
<1>4. JobsInOrder'
  BY <1>1, <1>2 DEF FlywheelInv, JobsInOrder, Version
<1>5. LastSaved'
  BY <1>1, <1>2 DEF FlywheelInv, LastSaved, Version
<1>6. Undisturbed'
  BY <1>1 DEF Undisturbed
<1>. QED BY <1>3, <1>4, <1>5, <1>6 DEF FlywheelInv

\* The number of failures grows, so it is not 0.
LEMMA FailuresGrow ==
  ASSUME FlywheelInv, failures \in Nat, failures' = failures + 1
  PROVE  failures' # 0
OBVIOUS

LEMMA WorkerFailsKeeps ==
  ASSUME FlywheelInv, failures \in Nat, WorkerFails
  PROVE  FlywheelInv'
<1>1. failures' # 0 /\ files' = files
  BY FailuresGrow DEF WorkerFails
<1>2. CASE worker = "training"
  <2>1. kept' = kept /\ (Ends("raised") \/ Ends("returned"))
    BY <1>2 DEF WorkerFails
  <2>. QED BY <1>1, <1>2, <2>1, UnwrittenKeeps DEF Endings
<1>3. CASE worker = "writing"
  <2>1. kept' = 0 /\ Ends("returned") /\ jobs # <<>>
    BY <1>3 DEF WorkerFails, FlywheelInv, FwShape
  <2>2. /\ UNCHANGED <<libs, improved, predictor>> /\ worker' = "free"
        /\ OnDisk' = OnDisk /\ CanTrain' = CanTrain
    BY <1>1, <2>1 DEF Ends, OnDisk, CanTrain
  <2>3. /\ jobs' \in Seq(1..MaxImproved)
        /\ finished' \in Seq(Endings)
        /\ \A i, j \in DOMAIN jobs' : i <= j => jobs'[i] <= jobs'[j]
        /\ \A i \in DOMAIN jobs' : jobs'[i] <= improved
        /\ \A v : (\A i \in DOMAIN jobs : v <= Version(jobs[i]))
                    => \A i \in DOMAIN jobs' : v <= Version(jobs'[i])
    BY <2>1, JobEnds DEF Endings
  <2>4. FwShape'
    BY <1>1, <2>1, <2>2, <2>3, FlywheelAssumption DEF FlywheelInv, FwShape
  <2>5. JobsInOrder'
    BY <2>2, <2>3 DEF FlywheelInv, JobsInOrder, Version
  <2>6. LastSaved' /\ Undisturbed'
    BY <1>1, <2>1 DEF LastSaved, Undisturbed
  <2>. QED BY <2>4, <2>5, <2>6 DEF FlywheelInv
<1>. QED BY <1>2, <1>3 DEF WorkerFails

LEMMA WorkerDiesKeeps ==
  ASSUME FlywheelInv, failures \in Nat, WorkerDies
  PROVE  FlywheelInv'
<1>1. /\ worker' = "broken" /\ jobs' = <<>>
      /\ finished' = finished \o [i \in DOMAIN jobs |-> "raised"]
      /\ UNCHANGED <<libs, improved, predictor>>
      /\ failures' # 0
  BY FailuresGrow DEF WorkerDies
<1>2. finished \in Seq(Endings) /\ [i \in DOMAIN jobs |-> "raised"] \in Seq(Endings)
  <2>1. jobs \in Seq(1..MaxImproved)
    BY DEF FlywheelInv, FwShape
  <2>2. Len(jobs) \in Nat /\ DOMAIN jobs = 1..Len(jobs)
    BY <2>1
  <2>3. [i \in 1..Len(jobs) |-> "raised"] \in Seq(Endings)
    BY <2>2 DEF Endings
  <2>. QED BY <2>2, <2>3 DEF FlywheelInv, FwShape
<1> DEFINE rest == [i \in DOMAIN jobs |-> "raised"]
<1> HIDE DEF rest
<1>3. /\ finished' \in Seq(Endings)
      /\ \A i \in DOMAIN finished : i \in DOMAIN finished' /\ finished'[i] = finished[i]
  <2>1. finished \in Seq(Endings) /\ rest \in Seq(Endings) /\ finished' = finished \o rest
    BY <1>1, <1>2 DEF rest
  <2>. QED BY <2>1
<1>4. CanTrain' = CanTrain
  BY <1>1 DEF CanTrain
<1>5. CASE worker # "writing"
  <2>1. files' = files /\ kept' = kept /\ OnDisk' = OnDisk
    BY <1>5 DEF WorkerDies, OnDisk
  <2>2. FwShape' /\ JobsInOrder' /\ Undisturbed'
    BY <1>1, <1>3, <1>4, <1>5, <2>1
       DEF FlywheelInv, FwShape, JobsInOrder, Undisturbed, Version
  <2>3. LastSaved'
    BY <1>1, <1>3, <1>5, <2>1 DEF FlywheelInv, LastSaved, Version
  <2>. QED BY <2>2, <2>3 DEF FlywheelInv
<1>6. CASE worker = "writing"
  <2>1. kept' = 0 /\ files' \in {files, Saved} /\ jobs # <<>>
    BY <1>6 DEF WorkerDies, FlywheelInv, FwShape
  <2>2. /\ files' \in [Versions -> FileTypes]
        /\ \A v \in OnDisk' : v <= Version(improved)
    <3>1. CASE files' = files
      BY <3>1 DEF FlywheelInv, FwShape, JobsInOrder, OnDisk
    <3>2. CASE files' = Saved
      <4>1. [state |-> "good", samples |-> Head(jobs)] \in FileTypes
        BY <2>1, HeadOfJobs, FlywheelAssumption DEF FileTypes
      <4>. QED BY <2>1, <3>2, <4>1, FileChanges DEF Saved
    <3>. QED BY <2>1, <3>1, <3>2
  <2>3. FwShape'
    BY <1>1, <1>3, <1>4, <2>1, <2>2, FlywheelAssumption DEF FlywheelInv, FwShape
  <2>4. JobsInOrder' /\ LastSaved' /\ Undisturbed'
    BY <1>1, <2>1, <2>2 DEF JobsInOrder, LastSaved, Undisturbed, Version
  <2>. QED BY <2>3, <2>4 DEF FlywheelInv
<1>. QED BY <1>5, <1>6

\* The coroutine loads the newest file, which is the last saved model, unless
\* one is being written.
LEMMA ResumeKeeps ==
  ASSUME FlywheelInv, Resume
  PROVE  FlywheelInv'
<1>1. /\ finished # <<>> /\ finished' = Tail(finished)
      /\ UNCHANGED <<libs, improved, jobs, worker, files, kept, failures>>
      /\ finished \in Seq(Endings)
      /\ OnDisk' = OnDisk /\ CanTrain' = CanTrain
  BY DEF Resume, FlywheelInv, FwShape, OnDisk, CanTrain
<1>2. /\ finished' \in Seq(Endings) /\ Head(finished) = finished[1]
      /\ \A i \in DOMAIN finished : i = 1 \/ (i - 1 \in DOMAIN finished'
                                            /\ finished'[i - 1] = finished[i])
  BY <1>1
<1>3. FwShape' /\ JobsInOrder' /\ Undisturbed'
  BY <1>1, <1>2 DEF FlywheelInv, FwShape, JobsInOrder, Undisturbed, Last, Version
<1>4. LastSaved'
  <2> SUFFICES ASSUME kept # 0, worker # "writing"
               PROVE  LastSaved'
    BY <1>1 DEF LastSaved
  <2>1. /\ files[Version(kept)] = [state |-> "good", samples |-> kept]
        /\ \A v \in OnDisk : v <= Version(kept)
        /\ kept < 10 * PerVersion =>
             predictor.samples = kept \/ \E i \in DOMAIN finished : finished[i] = "returned"
    BY DEF FlywheelInv, LastSaved
  <2>2. ASSUME kept < 10 * PerVersion
        PROVE  \/ predictor'.samples = kept
               \/ \E i \in DOMAIN finished' : finished'[i] = "returned"
    <3>1. CASE Head(finished) # "returned"
      BY <1>1, <1>2, <2>1, <2>2, <3>1 DEF Resume
    <3>2. CASE Head(finished) = "returned"
      <4>1. kept \in 0..MaxImproved /\ kept \in Nat
        BY FlywheelAssumption DEF FlywheelInv, FwShape
      <4>2. Version(kept) \in Versions /\ Version(kept) < 10
        BY <2>2, <4>1, VersionType, OneDigit
      <4>3. Version(kept) \in OnDisk
        BY <2>1, <4>2 DEF OnDisk
      <4>4. FindLatest = Version(kept)
        BY <2>1, <4>2, <4>3, LatestIsLargest
      <4>5. CanLoad
        BY DEF FlywheelInv, FwShape, CanTrain, CanLoad, Libraries
      <4>6. Load(files[Version(kept)]).samples = kept
        BY <2>1, <4>5 DEF Load
      <4>7. predictor' = Load(files[FindLatest])
        BY <3>2, <4>3 DEF Resume
      <4>. QED BY <4>4, <4>6, <4>7
    <3>. QED BY <3>1, <3>2
  <2>. QED BY <1>1, <2>1, <2>2 DEF LastSaved, Version
<1>. QED BY <1>3, <1>4 DEF FlywheelInv

LEMMA FwRestartKeeps ==
  ASSUME FlywheelInv, failures \in Nat, FwRestart
  PROVE  FlywheelInv'
<1>1. /\ kept' = 0 /\ failures' # 0
      /\ jobs' = <<>> /\ worker' = "free" /\ finished' = <<>>
      /\ UNCHANGED <<improved, files>> /\ OnDisk' = OnDisk
  BY FailuresGrow DEF FwRestart, OnDisk
<1>. QED BY <1>1, FlywheelAssumption
         DEF FlywheelInv, FwShape, JobsInOrder, LastSaved, Undisturbed, Version
-----------------------------------------------------------------------------
-----------------------------------------------------------------------------
(* The other types                                                         *)

\* What FlywheelInv leaves open.
OtherTypes ==
  /\ libs \subseteq Libraries
  /\ worker \in {"free", "training", "writing", "broken"}
  /\ predictor \in [trained : BOOLEAN, confidence : 0..100, samples : 0..MaxImproved]
  /\ failures \in 0..MaxFailures

LEMMA OtherTypesStep ==
  ASSUME FlywheelInv, OtherTypes, [FwNext]_fwVars
  PROVE  OtherTypes'
<1>1. failures \in 0..MaxFailures /\ MaxFailures \in Nat /\ MaxImproved \in Nat
  BY FlywheelAssumption DEF OtherTypes
<1>2. CASE UNCHANGED fwVars
  BY <1>2 DEF fwVars, OtherTypes
<1>3. CASE SaveImproved \/ SaveOther
  BY <1>3 DEF SaveImproved, SaveOther, OtherTypes
<1>4. CASE WorkerStarts \/ WorkerSkips \/ WorkerWrites \/ WorkerSaves
  BY <1>4 DEF WorkerStarts, WorkerSkips, WorkerWrites, WorkerSaves, Ends, OtherTypes
<1>5. CASE WorkerFails \/ WorkerDies
  <2>1. failures' \in 0..MaxFailures
    BY <1>1, <1>5 DEF WorkerFails, WorkerDies
  <2> QED BY <1>5, <2>1 DEF WorkerFails, WorkerDies, Ends, OtherTypes
<1>6. CASE Resume
  <2>1. \A v \in OnDisk : Load(files[v]) \in
          [trained : BOOLEAN, confidence : 0..100, samples : 0..MaxImproved]
    BY <1>1 DEF OnDisk, Load, FlywheelInv, FwShape, FileTypes, Untrained, Confidence
  <2>2. OnDisk # {} => FindLatest \in OnDisk
    BY LatestOnDisk
  <2> QED BY <1>6, <2>1, <2>2 DEF Resume, OtherTypes
<1>7. CASE FwRestart
  <2>1. failures' \in 0..MaxFailures
    BY <1>1, <1>7 DEF FwRestart
  <2>2. Untrained \in [trained : BOOLEAN, confidence : 0..100, samples : 0..MaxImproved]
    BY <1>1 DEF Untrained
  <2> QED BY <1>7, <2>1, <2>2 DEF FwRestart, OtherTypes
<1> QED BY <1>2, <1>3, <1>4, <1>5, <1>6, <1>7 DEF FwNext
-----------------------------------------------------------------------------
LEMMA FlywheelStarts == FwInit => FlywheelInv /\ OtherTypes
<1> SUFFICES ASSUME FwInit PROVE FlywheelInv /\ OtherTypes
  OBVIOUS
<1>1. improved < First /\ Milestone(improved) = 0 /\ improved \in 0..MaxImproved
  BY FlywheelAssumption, MilestoneType DEF FwInit
<1>2. NoFile \in FileTypes
  BY FlywheelAssumption DEF NoFile, FileTypes
<1>3. FwShape
  BY <1>1, <1>2, FlywheelAssumption DEF FwInit, FwShape
<1>4. OnDisk = {}
  BY DEF FwInit, NoFile, OnDisk
<1>5. JobsInOrder /\ LastSaved /\ Undisturbed
  BY <1>1, <1>4 DEF FwInit, JobsInOrder, LastSaved, Undisturbed
<1>6. OtherTypes
  BY FlywheelAssumption DEF FwInit, OtherTypes, Untrained
<1>. QED BY <1>3, <1>5, <1>6 DEF FlywheelInv

LEMMA FlywheelStep ==
  FlywheelInv /\ OtherTypes /\ [FwNext]_fwVars => FlywheelInv' /\ OtherTypes'
<1> SUFFICES ASSUME FlywheelInv, OtherTypes, [FwNext]_fwVars
             PROVE  FlywheelInv' /\ OtherTypes'
  OBVIOUS
<1>1. failures \in Nat
  BY FlywheelAssumption DEF OtherTypes
<1>2. CASE UNCHANGED fwVars
  <2>1. OnDisk' = OnDisk /\ CanTrain' = CanTrain
    BY <1>2 DEF fwVars, OnDisk, CanTrain
  <2>2. FwShape' /\ JobsInOrder'
    BY <1>2, <2>1 DEF fwVars, FlywheelInv, FwShape, JobsInOrder, Version
  <2>3. LastSaved' /\ Undisturbed'
    BY <1>2, <2>1 DEF fwVars, FlywheelInv, LastSaved, Undisturbed, Last, Version
  <2>. QED BY <2>2, <2>3, OtherTypesStep DEF FlywheelInv
<1>3. CASE WorkerSkips
  <2>1. /\ worker = "training" /\ Ends("returned") /\ "returned" \in Endings
        /\ UNCHANGED <<files, kept>> /\ failures' = failures /\ ~CanTrain
    BY <1>3 DEF WorkerSkips, Endings
  <2>2. FlywheelInv'
    BY <2>1, UnwrittenKeeps
  <2>. QED BY <2>2, OtherTypesStep
<1>4. FlywheelInv'
  BY <1>1, <1>2, <1>3, SavesKeep, WorkerStartsKeeps, WorkerWritesKeeps,
     WorkerSavesKeeps, WorkerFailsKeeps, WorkerDiesKeeps, ResumeKeeps,
     FwRestartKeeps
     DEF FwNext
<1>. QED BY <1>4, OtherTypesStep

LEMMA FlywheelCorrect == FwSpec => []FlywheelInv /\ []OtherTypes
BY FlywheelStarts, FlywheelStep, PTL DEF FwSpec

\* With fewer than 100 improved sessions, and whatever trainings overlap,
\* raise, die, save nothing or are cut off, the predictor in use is in the end
\* that of the last training that saved its model, and where nothing fails
\* that of the last milestone (trainer.py:36-115).
THEOREM PredictorIsCurrent == FwSpec => []ModelIsCurrent
<1>1. FlywheelInv => ModelIsCurrent
  <2> SUFFICES ASSUME FlywheelInv, Quiet, kept < 10 * PerVersion
               PROVE  /\ kept # 0 => predictor.samples = kept
                      /\ failures = 0 /\ CanTrain => kept = Milestone(improved)
    BY DEF ModelIsCurrent
  <2>1. worker # "writing"
    BY DEF FlywheelInv, FwShape, Quiet
  <2>2. ~ \E i \in DOMAIN finished : finished[i] = "returned"
    BY DEF Quiet
  <2>. QED BY <2>1, <2>2 DEF FlywheelInv, LastSaved, Undisturbed, Quiet
<1>. QED BY <1>1, FlywheelCorrect, PTL

\* The values of the flywheel are of the sorts they are meant to be.
THEOREM FlywheelTypes == FwSpec => []FwTypeOK
<1>1. FlywheelInv /\ OtherTypes => FwTypeOK
  <2> SUFFICES ASSUME FlywheelInv, OtherTypes PROVE FwTypeOK
    OBVIOUS
  <2>1. 1..MaxImproved \subseteq 0..MaxImproved
    BY FlywheelAssumption
  <2>2. jobs \in Seq(0..MaxImproved)
    <3>1. jobs \in Seq(1..MaxImproved)
      BY DEF FlywheelInv, FwShape
    <3> QED BY <2>1, <3>1, SeqMonotonic
  <2> QED BY <2>2 DEF FlywheelInv, FwShape, FileTypes, Endings, OtherTypes, FwTypeOK
<1> QED BY <1>1, FlywheelCorrect, PTL

mcVars == <<part, vars, fwVars>>

\* Whichever of the two moves, all values are of the sorts they are meant to
\* be: a move of one is no move of the other.
THEOREM TypesCorrect == MCInit /\ [][MCNext]_mcVars => []TypesOK
<1>1. MCInit => Init /\ FwInit
  BY DEF MCInit
<1>2. [MCNext]_mcVars => [Next]_vars /\ [FwNext]_fwVars
  BY DEF MCNext, mcVars
<1>3. MCInit /\ [][MCNext]_mcVars => Spec /\ FwSpec
  BY <1>1, <1>2, PTL DEF Spec, FwSpec
<1>4. TypeOK /\ FwTypeOK => TypesOK
  BY DEF TypesOK
<1> QED BY <1>3, <1>4, TypeCorrect, FlywheelTypes, PTL
=============================================================================
