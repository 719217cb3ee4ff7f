----------------------------- MODULE PIDParams -----------------------------
(* Arithmetic on one gain of PIDParams, and the constraints every module   *)
(* that changes gains puts on it.  Gains are natural numbers, in units as  *)
(* fine as the instance wants, fractions are in percent and rounded down.  *)
(* A joint whose gain is not known has NoGain (last_params is None).       *)
EXTENDS Integers

NoGain == -1

LeastOf(a, b)    == IF a <= b THEN a ELSE b
GreatestOf(a, b) == IF a <= b THEN b ELSE a

\* np.clip, and max(low, min(high, gain))
Clip(g, lo, hi) == GreatestOf(lo, LeastOf(hi, g))

\* g * (1 + p), never below 0
Percent(g, p) == (g * (100 + p)) \div 100

\* PIDParams.apply_delta
ApplyDelta_NoCap(g, d, max) == Percent(g, d)   \* mutant
ApplyDelta(g, d, max) == GreatestOf(0, Percent(g, Clip(d, -max, max)))

\* SafetyGuard.apply_chain_constraints, step 1: the fraction by which a
\* suggestion s leaves the last gain, limited to max; a gain of 0 stays, and
\* where there is none the suggestion counts.
LimitChange_None(s, last, max) == s   \* mutant

LimitChange(s, last, max) ==
  CASE last = NoGain -> s
    [] last = 0      -> 0
    [] OTHER         -> Clip(s, Percent(last, -max), Percent(last, max))

\* Step 3: above 70 % anomaly only decreases.
OnlyDecrease(g, last, anomaly) ==
  IF anomaly > 70 /\ last # NoGain THEN LeastOf(g, last) ELSE g

\* The whole pipeline; step 2 clips to the static bounds.

Constrain_ClipLast(s, last, anomaly, max, lo, hi) ==    \* mutant: 3 before 2
  Clip(OnlyDecrease(LimitChange(s, last, max), last, anomaly), lo, hi)

Constrain(s, last, anomaly, max, lo, hi) ==
  OnlyDecrease(Clip(LimitChange(s, last, max), lo, hi), last, anomaly)
=============================================================================
