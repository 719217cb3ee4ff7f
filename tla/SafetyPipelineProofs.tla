------------------------ MODULE SafetyPipelineProofs ------------------------
(***************************************************************************)
(* Facts of gain arithmetic for every gain, limit and anomaly, and what    *)
(* they give for the pipeline.                                             *)
(***************************************************************************)
EXTENDS SafetyPipeline, TLAPS

-----------------------------------------------------------------------------
(* Lemmas about PIDParams                                                  *)

\* A clipped number lies between the bounds.
LEMMA ClipInRange ==
  ASSUME NEW g \in Int, NEW lo \in Int, NEW hi \in Int, lo <= hi
  PROVE  Clip(g, lo, hi) \in lo..hi
BY DEF Clip, GreatestOf, LeastOf

\* A number inside the bounds is its own clip.
LEMMA ClipInside ==
  ASSUME NEW lo \in Int, NEW hi \in Int, NEW g \in lo..hi
  PROVE  Clip(g, lo, hi) = g
BY DEF Clip, GreatestOf, LeastOf

\* A product of naturals grows with its second factor.
LEMMA ProductMonotone ==
  ASSUME NEW g \in Nat, NEW a \in Nat, NEW b \in Nat, a <= b
  PROVE  g * a <= g * b /\ g * a \in Nat /\ g * b \in Nat
<1>1. PICK d \in Nat : b = a + d
  <2>1. b - a \in Nat /\ b = a + (b - a)
    OBVIOUS
  <2>. QED BY <2>1
<1>2. g * b = g * a + g * d
  BY <1>1
<1>3. g * d \in Nat /\ g * a \in Nat
  OBVIOUS
<1>. QED BY <1>2, <1>3

\* Rounding down is monotone, and exact on a multiple.
LEMMA QuotientMonotone ==
  ASSUME NEW m \in Nat, NEW n \in Nat, m <= n
  PROVE  m \div 100 <= n \div 100 /\ m \div 100 \in Nat
OBVIOUS

\* From -100 % on, a percentage of a gain is a gain, grows with the
\* percentage, and 0 % leaves the gain alone.
LEMMA PercentType ==
  ASSUME NEW g \in Nat, NEW p \in Int, -100 <= p
  PROVE  Percent(g, p) \in Nat
<1>1. 100 + p \in Nat
  OBVIOUS
<1>2. g * (100 + p) \in Nat
  BY <1>1
<1>. QED BY <1>2, QuotientMonotone DEF Percent

LEMMA PercentMonotone ==
  ASSUME NEW g \in Nat, NEW p \in Int, NEW q \in Int, -100 <= p, p <= q
  PROVE  Percent(g, p) <= Percent(g, q)
<1>1. 100 + p \in Nat /\ 100 + q \in Nat /\ 100 + p <= 100 + q
  OBVIOUS
<1>2. /\ g * (100 + p) <= g * (100 + q)
      /\ g * (100 + p) \in Nat /\ g * (100 + q) \in Nat
  BY <1>1, ProductMonotone
<1>. QED BY <1>2, QuotientMonotone DEF Percent

LEMMA PercentZero ==
  ASSUME NEW g \in Nat
  PROVE  Percent(g, 0) = g
<1>1. (g * 100) \div 100 = g
  OBVIOUS
<1>. QED BY <1>1 DEF Percent

\* The two sides of a limit.
LEMMA LimitSides ==
  ASSUME NEW max \in 0..100
  PROVE  -max \in Int /\ max \in Int /\ -100 <= -max /\ -100 <= max
         /\ -max <= 0 /\ 0 <= max /\ -max <= max
OBVIOUS

\* A limited change is a gain no further from the last one than the limit.
LEMMA LimitChangeRange ==
  ASSUME NEW s \in Nat, NEW last \in Nat, NEW max \in 0..100
  PROVE  LimitChange(s, last, max) \in Percent(last, -max)..Percent(last, max)
         /\ LimitChange(s, last, max) \in Nat
<1>1. /\ Percent(last, -max) \in Nat /\ Percent(last, max) \in Nat
      /\ Percent(last, -max) <= Percent(last, max)
  BY LimitSides, PercentType, PercentMonotone
<1>2. CASE last = 0
  <2>1. Percent(0, -max) = 0 /\ Percent(0, max) = 0
    BY DEF Percent
  <2>. QED BY <1>2, <2>1 DEF LimitChange, NoGain
<1>3. CASE last # 0
  <2>1. Clip(s, Percent(last, -max), Percent(last, max))
          \in Percent(last, -max)..Percent(last, max)
    BY <1>1 DEF Clip, GreatestOf, LeastOf
  <2>. QED BY <1>1, <1>3, <2>1 DEF LimitChange, NoGain
<1>. QED BY <1>2, <1>3

\* apply_delta gives a gain no further from the old one than the limit.
LEMMA ApplyDeltaRange ==
  ASSUME NEW g \in Nat, NEW d \in Int, NEW max \in 0..100
  PROVE  /\ ApplyDelta(g, d, max) \in Nat
         /\ ApplyDelta(g, d, max) \in Percent(g, -max)..Percent(g, max)
<1> DEFINE p == Clip(d, -max, max)
<1>1. p \in -max..max /\ p \in Int /\ -100 <= p
  <2>1. p \in -max..max
    BY LimitSides, ClipInRange
  <2>. QED BY <2>1, LimitSides
<1>2. /\ Percent(g, -max) \in Nat /\ Percent(g, p) \in Nat
      /\ Percent(g, max) \in Nat
  BY <1>1, LimitSides, PercentType
<1>3. Percent(g, -max) <= Percent(g, p) /\ Percent(g, p) <= Percent(g, max)
  <2>1. -max <= p /\ p <= max /\ p \in Int
    BY <1>1, LimitSides
  <2>2. Percent(g, -max) <= Percent(g, p)
    BY <2>1, LimitSides, PercentMonotone
  <2>3. Percent(g, p) <= Percent(g, max)
    BY <1>1, <2>1, LimitSides, PercentMonotone
  <2>. QED BY <2>2, <2>3
<1> HIDE DEF p
<1>4. ApplyDelta(g, d, max) = GreatestOf(0, Percent(g, p))
  BY DEF ApplyDelta, p
<1>. QED BY <1>2, <1>3, <1>4 DEF GreatestOf

\* A narrower limit allows less.
LEMMA LimitsNest ==
  ASSUME NEW g \in Nat, NEW m \in 0..100, NEW n \in 0..100, m <= n
  PROVE  /\ Percent(g, -n) <= Percent(g, -m) /\ Percent(g, m) <= Percent(g, n)
         /\ Percent(g, -m) <= g /\ g <= Percent(g, m)
         /\ Percent(g, -n) \in Nat /\ Percent(g, -m) \in Nat
         /\ Percent(g, m) \in Nat /\ Percent(g, n) \in Nat
<1>1. Percent(g, -n) <= Percent(g, -m) /\ Percent(g, m) <= Percent(g, n)
  BY LimitSides, PercentMonotone
<1>2. Percent(g, -m) <= Percent(g, 0) /\ Percent(g, 0) <= Percent(g, m)
  BY LimitSides, PercentMonotone
<1>3. /\ Percent(g, -n) \in Nat /\ Percent(g, -m) \in Nat
      /\ Percent(g, m) \in Nat /\ Percent(g, n) \in Nat
  BY LimitSides, PercentType
<1>. QED BY <1>1, <1>2, <1>3, PercentZero

\* A gain is within every limit of itself.
LEMMA OwnLimit ==
  ASSUME NEW g \in Nat, NEW m \in 0..100
  PROVE  g \in Percent(g, -m)..Percent(g, m)
<1>1. m <= m
  BY LimitSides
<1>2. /\ Percent(g, -m) <= g /\ g <= Percent(g, m)
      /\ Percent(g, -m) \in Nat /\ Percent(g, m) \in Nat
  BY <1>1, LimitsNest
<1>. QED BY <1>2

\* The pipeline returns a gain; from a gain inside the bounds, or of a calm
\* joint, one inside the bounds; from a gain inside them one within the limit;
\* of an anomalous joint, none above the last.
LEMMA ConstrainCorrect ==
  ASSUME NEW s \in Nat, NEW last \in Nat, NEW anomaly \in Nat,
         NEW max \in 0..100, NEW lo \in Nat, NEW hi \in Nat, lo <= hi
  PROVE  LET r == Constrain(s, last, anomaly, max, lo, hi)
         IN  /\ r \in Nat
             /\ anomaly > 70 => r <= last
             /\ anomaly <= 70 => r \in lo..hi
             /\ last \in lo..hi =>
                  r \in lo..hi /\ r \in Percent(last, -max)..Percent(last, max)
<1> DEFINE l == LimitChange(s, last, max)
           c == Clip(l, lo, hi)
<1>1. l \in Percent(last, -max)..Percent(last, max) /\ l \in Nat
  BY LimitChangeRange
<1>2. Percent(last, -max) \in Nat /\ Percent(last, max) \in Nat
      /\ Percent(last, -max) <= last /\ last <= Percent(last, max)
  <2>1. max <= max
    BY LimitSides
  <2>. QED BY <2>1, LimitsNest
<1> HIDE DEF l
<1>3. c \in lo..hi /\ c \in Nat
  BY <1>1 DEF Clip, GreatestOf, LeastOf
<1>4. last \in lo..hi => c \in Percent(last, -max)..Percent(last, max)
  BY <1>1, <1>2 DEF Clip, GreatestOf, LeastOf
<1>5. Constrain(s, last, anomaly, max, lo, hi) = OnlyDecrease(c, last, anomaly)
  BY DEF Constrain, l
<1> HIDE DEF c
<1>6. CASE anomaly > 70
  <2>1. Constrain(s, last, anomaly, max, lo, hi) = LeastOf(c, last)
    BY <1>5, <1>6 DEF OnlyDecrease, NoGain
  <2>2. LeastOf(c, last) <= last /\ LeastOf(c, last) \in {c, last}
    BY <1>3 DEF LeastOf
  <2>3. ~(anomaly <= 70)
    BY <1>6
  <2>. QED BY <1>2, <1>3, <1>4, <2>1, <2>2, <2>3
<1>7. CASE ~(anomaly > 70)
  <2>1. Constrain(s, last, anomaly, max, lo, hi) = c
    BY <1>5, <1>7 DEF OnlyDecrease
  <2>. QED BY <1>2, <1>3, <1>4, <1>7, <2>1
<1>. QED BY <1>6, <1>7
-----------------------------------------------------------------------------
(* The steps of the module                                                 *)

\* Where no gain is known, the suggestion within the bounds.
LEMMA ConstrainFirst ==
  ASSUME NEW s \in Nat, NEW anomaly, NEW max,
         NEW lo \in Nat, NEW hi \in Nat, lo <= hi
  PROVE  Constrain(s, NoGain, anomaly, max, lo, hi) \in lo..hi
<1>1. Constrain(s, NoGain, anomaly, max, lo, hi) = Clip(s, lo, hi)
  BY DEF Constrain, OnlyDecrease, LimitChange, NoGain
<1>. QED BY <1>1, ClipInRange

\* What one constrained write does to each joint.
LEMMA ConstrainedStep ==
  ASSUME TypeOK, ConstrainedWrite, NEW j \in Joints
  PROVE  /\ gain'[j] \in Nat \cup {NoGain}
         /\ j \in stray /\ j \notin stray' => gain'[j] \in Lo..Hi
         /\ gain[j] \in Lo..Hi =>
              /\ gain'[j] \in Lo..Hi
              /\ gain'[j] \in Percent(gain[j], -MaxChange)
                              ..Percent(gain[j], MaxChange)
<1> DEFINE Written(J, s, a) ==
             /\ gain' = [i \in Joints |->
                  IF i \in J
                    THEN Constrain(s[i], gain[i], a[i], MaxChange, Lo, Hi)
                    ELSE gain[i]]
             /\ stray' = stray \ {i \in J : a[i] <= 70 \/ gain[i] = NoGain}
<1>1. PICK J \in SUBSET Joints :
        \E s \in [J -> Suggestions], a \in [J -> Anomalies] : Written(J, s, a)
  BY DEF ConstrainedWrite
<1>2. PICK s \in [J -> Suggestions], a \in [J -> Anomalies] : Written(J, s, a)
  BY <1>1
<1>3. gain[j] \in Nat \cup {NoGain} /\ Lo \in Nat /\ Hi \in Nat /\ Lo <= Hi
      /\ MaxChange \in 0..100
  BY SafetyPipelineAssumption DEF TypeOK
<1>4. CASE j \in J
  <2>1. gain'[j] = Constrain(s[j], gain[j], a[j], MaxChange, Lo, Hi)
    BY <1>2, <1>4
  <2>2. s[j] \in Nat /\ a[j] \in Nat
    <3>1. s[j] \in Suggestions /\ a[j] \in Anomalies
      BY <1>4
    <3>2. Suggestions \subseteq Nat /\ Anomalies \subseteq 0..100
      BY SafetyPipelineAssumption
    <3>3. s[j] \in Nat /\ a[j] \in 0..100
      BY <3>1, <3>2, Zenon
    <3>. QED BY <3>3
  <2>3. CASE gain[j] = NoGain
    <3>1. gain'[j] \in Lo..Hi
      BY <1>3, <2>1, <2>2, <2>3, ConstrainFirst
    <3>2. gain[j] \notin Lo..Hi /\ gain'[j] \in Nat
      BY <1>3, <2>3, <3>1 DEF NoGain
    <3>. QED BY <3>1, <3>2
  <2>4. CASE gain[j] # NoGain
    <3> DEFINE r == Constrain(s[j], gain[j], a[j], MaxChange, Lo, Hi)
    <3>1. gain[j] \in Nat
      BY <1>3, <2>4
    <3>2. /\ r \in Nat
          /\ a[j] <= 70 => r \in Lo..Hi
          /\ gain[j] \in Lo..Hi =>
               /\ r \in Lo..Hi
               /\ r \in Percent(gain[j], -MaxChange)..Percent(gain[j], MaxChange)
      BY <1>3, <2>2, <3>1, ConstrainCorrect
    <3>3. j \in stray /\ j \notin stray' => a[j] <= 70
      BY <1>2, <2>4
    <3>. QED BY <2>1, <3>2, <3>3
  <2>. QED BY <2>3, <2>4
<1>5. CASE j \notin J
  <2>1. gain'[j] = gain[j] /\ (j \in stray => j \in stray')
    BY <1>2, <1>5
  <2>2. gain[j] \in Lo..Hi =>
          gain[j] \in Percent(gain[j], -MaxChange)..Percent(gain[j], MaxChange)
    <3>1. gain[j] \in Lo..Hi => gain[j] \in Nat
      BY <1>3
    <3>. QED BY <1>3, <3>1, OwnLimit
  <2>. QED BY <1>3, <2>1, <2>2
<1>. QED BY <1>4, <1>5

\* What a nudge of joint i does to each joint.
LEMMA NudgeStep ==
  ASSUME TypeOK, NEW i \in Joints, Nudge(i), NEW j \in Joints
  PROVE  /\ gain'[j] \in Nat \cup {NoGain}
         /\ j \notin stray' => j \notin stray /\ gain'[j] = gain[j]
         /\ gain[j] \in Nat =>
              gain'[j] \in Nat /\ gain'[j] \in Percent(gain[j], -MaxNudge)..Percent(gain[j], MaxNudge)
<1>1. PICK d \in Deltas :
        /\ gain' = [gain EXCEPT ![i] = ApplyDelta(@, d \div 2, MaxNudge)]
        /\ stray' = stray \cup {i} /\ gain[i] # NoGain
  BY DEF Nudge
<1>2. gain \in [Joints -> Nat \cup {NoGain}] /\ MaxNudge \in 0..100 /\ d \div 2 \in Int
  BY SafetyPipelineAssumption DEF TypeOK
<1>3. CASE i = j
  <2>1. gain'[j] = ApplyDelta(gain[j], d \div 2, MaxNudge)
    BY <1>1, <1>2, <1>3
  <2>2. j \in stray'
    BY <1>1, <1>3
  <2>3. gain[j] \in Nat
    BY <1>1, <1>2, <1>3
  <2>. QED BY <1>2, <2>1, <2>2, <2>3, ApplyDeltaRange
<1>4. CASE i # j
  <2>1. gain'[j] = gain[j]
    BY <1>1, <1>2, <1>4
  <2>2. gain[j] \in Nat =>
          gain[j] \in Percent(gain[j], -MaxNudge)..Percent(gain[j], MaxNudge)
    BY <1>2, OwnLimit
  <2>3. j \notin stray' => j \notin stray
    BY <1>1
  <2>. QED BY <1>2, <2>1, <2>2, <2>3
<1>. QED BY <1>3, <1>4

\* The domain of the gains never changes.
LEMMA GainIsFunction ==
  ASSUME TypeOK, [Next]_vars
  PROVE  gain' = [j \in Joints |-> gain'[j]]
<1>1. CASE ConstrainedWrite
  BY <1>1 DEF ConstrainedWrite
<1>2. CASE \E i \in Joints : Nudge(i)
  BY <1>2 DEF Nudge, TypeOK
<1>3. CASE UNCHANGED vars
  BY <1>3 DEF vars, TypeOK
<1>. QED BY <1>1, <1>2, <1>3 DEF Next
-----------------------------------------------------------------------------
(* Theorems                                                                *)

\* Gains that are known stay natural numbers, whatever is suggested or predicted.
THEOREM TypeCorrect == Spec => []TypeOK
<1>1. Init => TypeOK
  <2> SUFFICES ASSUME Init PROVE TypeOK
    OBVIOUS
  <2>1. gain \in [Joints -> Start] /\ nudges = 0 /\ stray \subseteq Joints
    BY DEF Init
  <2>2. gain \in [Joints -> Nat \cup {NoGain}]
    BY <2>1, SafetyPipelineAssumption
  <2>. QED BY <2>1, <2>2, SafetyPipelineAssumption DEF TypeOK
<1>2. TypeOK /\ [Next]_vars => TypeOK'
  <2> SUFFICES ASSUME TypeOK, [Next]_vars PROVE TypeOK'
    OBVIOUS
  <2>1. ASSUME NEW j \in Joints PROVE gain'[j] \in Nat \cup {NoGain}
    <3>1. CASE ConstrainedWrite BY <3>1, ConstrainedStep
    <3>2. CASE \E i \in Joints : Nudge(i) BY <3>2, NudgeStep
    <3>3. CASE UNCHANGED vars BY <3>3 DEF vars, TypeOK
    <3>. QED BY <3>1, <3>2, <3>3 DEF Next
  <2>2. gain' \in [Joints -> Nat \cup {NoGain}]
    BY <2>1, GainIsFunction
  <2>3. nudges' \in 0..Nudges
    BY SafetyPipelineAssumption
    DEF TypeOK, Next, ConstrainedWrite, Nudge, vars
  <2>4. stray' \subseteq Joints
    BY DEF TypeOK, Next, ConstrainedWrite, Nudge, vars
  <2>. QED BY <2>2, <2>3, <2>4 DEF TypeOK
<1>. QED BY <1>1, <1>2, PTL DEF Spec

\* A gain is outside the static bounds only if it started there or was
\* nudged, and no constrained write in a calm state came after.
THEOREM ConstrainedCorrect == Spec => []ConstrainedInBounds
<1>1. Init => ConstrainedInBounds
  BY DEF Init, ConstrainedInBounds
<1>2. TypeOK /\ ConstrainedInBounds /\ [Next]_vars => ConstrainedInBounds'
  <2> SUFFICES ASSUME TypeOK, ConstrainedInBounds, [Next]_vars,
                      NEW j \in Joints, j \notin stray'
               PROVE  gain'[j] \in Lo..Hi
    BY DEF ConstrainedInBounds
  <2>1. j \notin stray => gain[j] \in Lo..Hi
    BY DEF ConstrainedInBounds
  <2>2. CASE ConstrainedWrite
    BY <2>1, <2>2, ConstrainedStep
  <2>3. CASE \E i \in Joints : Nudge(i)
    BY <2>1, <2>3, NudgeStep
  <2>4. CASE UNCHANGED vars
    BY <2>1, <2>4 DEF vars
  <2>. QED BY <2>2, <2>3, <2>4 DEF Next
<1>. QED BY <1>1, <1>2, TypeCorrect, PTL DEF Spec

\* No step throws a gain inside the bounds further than the larger limit.
THEOREM ChangesLimited == Spec => ChangeLimited
<1>1. TypeOK /\ [Next]_vars =>
        [\A j \in Joints :
           gain[j] \in Lo..Hi =>
             /\ gain'[j] <= Percent(gain[j], Limit)
             /\ gain'[j] >= Percent(gain[j], -Limit)]_vars
  <2> SUFFICES ASSUME TypeOK, Next, NEW j \in Joints, gain[j] \in Lo..Hi
               PROVE  /\ gain'[j] <= Percent(gain[j], Limit)
                      /\ gain'[j] >= Percent(gain[j], -Limit)
    OBVIOUS
  <2>1. /\ Limit \in 0..100 /\ MaxChange \in 0..100 /\ MaxNudge \in 0..100
        /\ MaxChange <= Limit /\ MaxNudge <= Limit /\ gain[j] \in Nat
        /\ Lo \in Nat /\ Hi \in Nat
    BY SafetyPipelineAssumption DEF Limit, GreatestOf
  <2>2. CASE ConstrainedWrite
    <3>1. /\ gain'[j] \in Lo..Hi
          /\ gain'[j] \in Percent(gain[j], -MaxChange)..Percent(gain[j], MaxChange)
      BY <2>2, ConstrainedStep
    <3>2. /\ Percent(gain[j], -Limit) <= Percent(gain[j], -MaxChange)
          /\ Percent(gain[j], MaxChange) <= Percent(gain[j], Limit)
          /\ Percent(gain[j], -Limit) \in Nat /\ Percent(gain[j], Limit) \in Nat
          /\ Percent(gain[j], -MaxChange) \in Nat
          /\ Percent(gain[j], MaxChange) \in Nat
      BY <2>1, LimitsNest
    <3>. QED BY <2>1, <3>1, <3>2
  <2>3. CASE \E i \in Joints : Nudge(i)
    <3>1. gain'[j] \in Nat /\ gain'[j] \in
            Percent(gain[j], -MaxNudge)..Percent(gain[j], MaxNudge)
      BY <2>1, <2>3, NudgeStep
    <3>2. /\ Percent(gain[j], -Limit) <= Percent(gain[j], -MaxNudge)
          /\ Percent(gain[j], MaxNudge) <= Percent(gain[j], Limit)
          /\ Percent(gain[j], -Limit) \in Nat /\ Percent(gain[j], Limit) \in Nat
          /\ Percent(gain[j], -MaxNudge) \in Nat
          /\ Percent(gain[j], MaxNudge) \in Nat
      BY <2>1, LimitsNest
    <3>. QED BY <3>1, <3>2
  <2>. QED BY <2>2, <2>3 DEF Next
<1>. QED BY <1>1, TypeCorrect, PTL DEF Spec, ChangeLimited

\* Bounds and anomalies are respected at once, although each step of the
\* pipeline undoes a part of what another one ensures.
THEOREM GuardCorrect == Spec => []GuardHolds
<1>1. TypeOK => AnomalousNeverRises
  <2> SUFFICES ASSUME TypeOK, NEW j \in Joints, gain[j] # NoGain,
                      NEW s \in Suggestions, NEW a \in Anomalies, a > 70
               PROVE  Constrain(s, gain[j], a, MaxChange, Lo, Hi) <= gain[j]
    BY DEF AnomalousNeverRises
  <2>1. /\ s \in Nat /\ gain[j] \in Nat /\ a \in Nat /\ MaxChange \in 0..100
        /\ Lo \in Nat /\ Hi \in Nat /\ Lo <= Hi
    BY SafetyPipelineAssumption DEF TypeOK
  <2>. QED BY <2>1, ConstrainCorrect
<1>2. TypeOK /\ ConstrainedInBounds => GuardHolds
  BY <1>1 DEF GuardHolds
<1>. QED BY <1>2, TypeCorrect, ConstrainedCorrect, PTL
=============================================================================
