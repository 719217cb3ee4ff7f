----------------------------- MODULE LLMBudget -----------------------------
(***************************************************************************)
(* The token limits of the agent.  One call passes three of them: the      *)
(* daily budget (TokenBudget), the session limit (LLMProxy) and the same   *)
(* limit again in the client (LLMClient), which counts what the provider   *)
(* bills, while the proxy counts an estimate made before the call.         *)
(*                                                                         *)
(* The client blocks, so calls do not overlap, but a call may last beyond  *)
(* midnight.  All counters live in the process.                            *)
(***************************************************************************)
EXTENDS Integers

CONSTANTS
  DailyBudget,           \* daily_budget
  SessionLimit,          \* config.get_max_tokens_per_session()
  Prompts, Answers,      \* sizes of prompts, limits of answers, in tokens
  MaxContext,            \* injected memory context, 1000
  LastDay, MaxStarts     \* bounds: days, times a date begins

ASSUME LLMBudgetAssumption ==
  /\ DailyBudget \in Nat /\ SessionLimit \in Nat /\ MaxContext \in Nat
  /\ Prompts \subseteq Nat /\ Answers \subseteq Nat
  /\ LastDay \in Nat /\ MaxStarts \in Nat \ {0}

VARIABLES
  budget,   \* _daily_used and _reset_date
  session,  \* _session_tokens_used
  client,   \* _tokens_used of the client
  today,    \* the local date
  call,     \* history: the last call, its date and how it ended
  spent,    \* history: estimates of the calls answered on each date
  begun     \* history: how often each date began: clock or new process

lbVars == <<budget, session, client, today, call, spent, begun>>
-----------------------------------------------------------------------------
Days  == 0..LastDay
Calls == [prompt : Prompts, max : Answers, context : 0..MaxContext]
NoCall == [end |-> "none", tokens |-> 0, day |-> 0, first |-> TRUE]

LbInit == /\ budget = [used |-> 0, date |-> 0]
          /\ session = 0 /\ client = 0 /\ today = 0 /\ call = NoCall
          /\ spent = [d \in Days |-> 0]
          /\ begun = [d \in Days |-> IF d = 0 THEN 1 ELSE 0]

\* _check_reset: any other date, also an earlier one.
OnDate(b, d) == IF b.date # d THEN [used |-> 0, date |-> d] ELSE b

\* What call and call_json count: the prompt and the longest answer, but not
\* the memory context that may be put before the prompt.
Estimate(c) == c.prompt + c.max

Affordable_Daily(c) == TRUE   \* mutant
Affordable(c) == OnDate(budget, today).used + Estimate(c) <= DailyBudget

InSession(c) == session + Estimate(c) <= SessionLimit

\* The client's own check leaves the prompt out.
ClientAllows(c) == client + c.max <= SessionLimit

\* How call c ended on date d; whether it was the first one of its date.
Ended(c, end, d) == [end |-> end, tokens |-> Estimate(c), day |-> d,
                     first |-> call.end = "none" \/ call.day # today]

\* The date when a call ends.
Later == {today} \cup ({today + 1} \cap Days)
Turn(d) == /\ today' = d
           /\ begun' = IF d = today THEN begun ELSE [begun EXCEPT ![d] = @ + 1]
           /\ begun'[d] <= MaxStarts

Refused(c) == /\ ~(Affordable(c) /\ InSession(c) /\ ClientAllows(c))
              /\ budget' = OnDate(budget, today)
              /\ call' = Ended(c, "refused", today)
              /\ UNCHANGED <<session, client, today, spent, begun>>

Bill(c) == client' \in (client + 1)..(client + c.context + Estimate(c))

\* No key, a provider's error, or an answer that is no JSON: nobody counts
\* it.  A JSON answer that is not an object is counted by the client alone.
Failed(c) == /\ Affordable(c) /\ InSession(c) /\ ClientAllows(c)
             /\ \E d \in Later : Turn(d)
             /\ budget' = OnDate(budget, today)
             /\ UNCHANGED client \/ Bill(c)
             /\ call' = Ended(c, "failed", today')
             /\ UNCHANGED <<session, spent>>

Spend_Undated(b, n, d) == [b EXCEPT !.used = @ + n]   \* mutant
\* TokenBudget.spend, on the date the call ends.
Spend(b, n, d) == [OnDate(b, d) EXCEPT !.used = @ + n]

Answered(c) ==
  /\ Affordable(c) /\ InSession(c) /\ ClientAllows(c)
  /\ \E d \in Later :
       /\ Turn(d)
       /\ budget' = Spend(OnDate(budget, today), Estimate(c), d)
       /\ spent' = [spent EXCEPT ![d] = @ + Estimate(c)]
  /\ session' = session + Estimate(c)
  /\ Bill(c)
  /\ call' = Ended(c, "answered", today')

\* reset_session does not reach the client.
ResetSession == /\ session # 0 /\ session' = 0
                /\ UNCHANGED <<budget, client, today, call, spent, begun>>

\* Midnight, or the clock is set, also back.
SetClock == /\ \E d \in Days \ {today} : Turn(d)
            /\ UNCHANGED <<budget, session, client, call, spent>>

RestartProcess == /\ begun[today] < MaxStarts
                  /\ begun' = [begun EXCEPT ![today] = @ + 1]
                  /\ budget' = [used |-> 0, date |-> today]
                  /\ session' = 0 /\ client' = 0 /\ call' = NoCall
                  /\ UNCHANGED <<today, spent>>

LbNext == \/ \E c \in Calls : Refused(c) \/ Failed(c) \/ Answered(c)
          \/ ResetSession \/ SetClock \/ RestartProcess

LbSpec == LbInit /\ [][LbNext]_lbVars
-----------------------------------------------------------------------------
(* Properties                                                              *)

LbTypeOK ==
  /\ budget \in [used : Nat, date : Days]
  /\ session \in Nat /\ client \in Nat /\ today \in Days
  /\ call.end \in {"none", "refused", "failed", "answered"} /\ call.day \in Days
  /\ spent \in [Days -> Nat] /\ begun \in [Days -> 0..MaxStarts]

\* The calls answered on a date cost at most the daily budget for each time
\* that date began: a call over midnight is charged to one day, and to the
\* right one.  (A clock set back, and a restart, give the budget again.)
DayWithinBudget == \A d \in Days : spent[d] <= DailyBudget * begun[d]

\* Neither counter of the proxy passes its limit, though the daily one is
\* checked on one date and maybe charged on the next; and what the provider
\* bills one process exceeds the session limit at most by one prompt with its
\* context, which the client does not check beforehand.
LimitsHold ==
  /\ budget.used <= DailyBudget /\ session <= SessionLimit
  /\ client = 0 \/ \E p \in Prompts : client <= SessionLimit + p + MaxContext

\* DEPLOYMENT.md:688 "Budget resets daily at UTC 00:00": the first call of a
\* day is refused only if it exceeds the daily budget by itself.
FirstCallOfDayPasses ==
  call.end = "refused" /\ call.first => call.tokens > DailyBudget
=============================================================================
