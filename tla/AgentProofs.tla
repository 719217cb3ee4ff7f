----------------------------- MODULE AgentProofs -----------------------------
(***************************************************************************)
(* Proofs about the parts of one agent, for every value of the constants:  *)
(* its command gate (ConfirmGate), its token limits (LLMBudget), its       *)
(* memory with the background observer (AgentMemory), its file memories    *)
(* (MemDir) and the tuning jobs it starts (ChainTuning).                   *)
(***************************************************************************)
EXTENDS MCAgent, SequenceTheorems, FiniteSetTheorems, WellFoundedInduction,
        TLAPS
-----------------------------------------------------------------------------
(***************************************************************************)
(* ConfirmGate: a risky action runs after a confirmation in time, and no   *)
(* request is settled twice in a process.                                  *)
(***************************************************************************)

\* An entry of the working memory tells of the request its token was made for.
Registered(p) ==
  p # None => issued[p.token] = [action |-> p.action, born |-> p.born]

\* Whatever was settled with a token had been requested, and not later than
\* in this process; no request lies in the future.
History ==
  /\ \A e \in settled : e.life <= life /\ (e.token # 0 => issued[e.token] # Unissued)
  /\ \A t \in Tokens : issued[t].born <= now

\* The pending action has not been settled in this process.
PendingIsOpen ==
  pending # None =>
    \A e \in settled : ~(e.token = pending.token /\ e.life = life)

\* ConfirmedInTime and SettledOncePerLife are inductive with these: what is
\* settled next is the pending entry, or what a restart loads for it.
GateInv == /\ TypeOK /\ Registered(pending) /\ Registered(saved)
           /\ History /\ PendingIsOpen
           /\ ConfirmedInTime /\ SettledOncePerLife
-----------------------------------------------------------------------------
\* Entries are requests of a risky action, or none.
LEMMA EntryFields ==
  ASSUME NEW p \in Entries, p # None
  PROVE  /\ p.token \in Tokens /\ p.action \in Risky /\ p.born \in 0..MaxTime
         /\ p.token # 0
BY ConfirmGateAssumption DEF Entries, Tokens

\* A request is an entry, different from none and from no request.
LEMMA RequestIsEntry ==
  ASSUME NEW t \in Tokens, NEW a \in Risky, NEW b \in 0..MaxTime
  PROVE  /\ [token |-> t, action |-> a, born |-> b] \in Entries
         /\ [token |-> t, action |-> a, born |-> b] # None
         /\ [action |-> a, born |-> b] # Unissued
<1>1. t # 0
  BY ConfirmGateAssumption DEF Tokens
<1>2. [token |-> t, action |-> a, born |-> b].token # None.token
  BY <1>1 DEF None
<1>3. [action |-> a, born |-> b].action # Unissued.action
  BY ConfirmGateAssumption DEF Unissued
<1> QED BY <1>2, <1>3 DEF Entries

LEMMA NoneIsEntry == None \in Entries
BY DEF Entries

LEMMA UnissuedIsNone == Unissued.born = 0
BY DEF Unissued
-----------------------------------------------------------------------------
(* The steps                                                               *)

\* Settling the fresh pending entry, by a confirmation or a cancellation.
LEMMA SettleStep ==
  ASSUME GateInv, Fresh(pending), NEW how \in {"executed", "cancelled"},
         NEW text \in 0..MaxTokens, Settle(how, text), pending' = None,
         UNCHANGED <<issued, saved, now, life>>
  PROVE  GateInv'
<1> DEFINE e == [token |-> pending.token, action |-> pending.action,
                 how |-> how, text |-> text, at |-> now, life |-> life]
<1>1. pending \in Entries /\ pending # None /\ now - pending.born <= TTL
  BY DEF GateInv, TypeOK, Fresh
<1>2. /\ pending.token \in Tokens /\ pending.action \in Risky
      /\ pending.born \in 0..MaxTime /\ pending.token # 0
  BY <1>1, EntryFields
<1>3. settled' = settled \cup {e}
  BY DEF Settle
<1>4. /\ e.token = pending.token /\ e.action = pending.action /\ e.how = how
      /\ e.at = now /\ e.life = life
  OBVIOUS
<1>5. /\ issued[pending.token].action = pending.action
      /\ issued[pending.token].born = pending.born
      /\ issued[pending.token] # Unissued
  <2>1. issued[pending.token] = [action |-> pending.action,
                                 born |-> pending.born]
    BY <1>1 DEF GateInv, Registered
  <2>2. issued[pending.token] # Unissued
    BY <1>2, <2>1, RequestIsEntry
  <2> QED BY <2>1, <2>2
<1>6. TypeOK'
  <2>1. e \in [token : 0..MaxTokens, action : Risky,
               how : {"executed", "cancelled"}, text : 0..MaxTokens,
               at : 0..MaxTime, life : 1..MaxLives]
    <3>1. pending.token \in 0..MaxTokens /\ now \in 0..MaxTime
          /\ life \in 1..MaxLives
      BY <1>2, ConfirmGateAssumption DEF GateInv, TypeOK, Tokens
    <3> QED BY <1>2, <3>1
  <2> HIDE DEF e
  <2>2. None \in Entries' /\ Entries' = Entries
    BY NoneIsEntry DEF Entries
  <2> QED BY <1>3, <2>1, <2>2 DEF GateInv, TypeOK
<1> HIDE DEF e
<1>7. Registered(pending)' /\ Registered(saved)' /\ PendingIsOpen'
  BY DEF GateInv, Registered, PendingIsOpen
<1>8. History'
  <2>1. life <= life
    BY DEF GateInv, TypeOK
  <2> QED BY <1>3, <1>4, <1>5, <2>1 DEF GateInv, History
<1>9. ConfirmedInTime'
  <2>1. now - pending.born \in 0..TTL
    <3>1. pending.born <= now
      BY <1>2, <1>5 DEF GateInv, History
    <3> QED BY <1>1, <1>2, <3>1, ConfirmGateAssumption DEF GateInv, TypeOK
  <2> QED BY <1>2, <1>3, <1>4, <1>5, <2>1 DEF GateInv, ConfirmedInTime
<1>10. SettledOncePerLife'
  <2>1. \A d \in settled : ~(d.token = e.token /\ d.life = e.life)
    BY <1>1, <1>4 DEF GateInv, PendingIsOpen
  <2> QED BY <1>3, <2>1 DEF GateInv, SettledOncePerLife
<1> QED BY <1>6, <1>7, <1>8, <1>9, <1>10 DEF GateInv

\* A request takes a token that nothing knows of yet.
LEMMA RequestStep ==
  ASSUME GateInv, NEW a, Request(a), UNCHANGED <<saved, now, life>>
  PROVE  GateInv'
<1>1. PICK t \in Tokens :
        /\ issued[t] = Unissued
        /\ issued' = [issued EXCEPT ![t] = [action |-> a, born |-> now]]
        /\ pending' = [token |-> t, action |-> a, born |-> now]
  BY DEF Request
<1>2. a \in Risky /\ now \in 0..MaxTime /\ settled' = settled
  BY DEF Request, RequiresConfirmation, GateInv, TypeOK
<1>3. /\ pending' \in Entries /\ pending' # None
      /\ [action |-> a, born |-> now] # Unissued
  BY <1>1, <1>2, RequestIsEntry
<1>4. /\ issued'[t] = [action |-> a, born |-> now]
      /\ \A u \in Tokens \ {t} : issued'[u] = issued[u]
  BY <1>1 DEF GateInv, TypeOK
<1>5. \A e \in settled : e.token # t
  <2>1. t # 0
    BY ConfirmGateAssumption DEF Tokens
  <2> QED BY <1>1, <2>1 DEF GateInv, History
<1>6. TypeOK'
  <2>1. Entries' = Entries
    BY DEF Entries
  <2>2. issued' \in [Tokens -> [action : Risky, born : 0..MaxTime]
                                 \cup {Unissued}]
    BY <1>1, <1>2 DEF GateInv, TypeOK
  <2> QED BY <1>2, <1>3, <2>1, <2>2 DEF GateInv, TypeOK
<1>7. Registered(pending)'
  BY <1>1, <1>4 DEF Registered
<1>8. Registered(saved)'
  <2> SUFFICES ASSUME saved # None
               PROVE  issued'[saved.token]
                        = [action |-> saved.action, born |-> saved.born]
    BY DEF Registered
  <2>1. /\ saved.token \in Tokens /\ saved.action \in Risky
        /\ saved.born \in 0..MaxTime
    BY EntryFields DEF GateInv, TypeOK
  <2>2. issued[saved.token] = [action |-> saved.action, born |-> saved.born]
    BY DEF GateInv, Registered
  <2>3. issued[saved.token] # Unissued
    BY <2>1, <2>2, RequestIsEntry
  <2> QED BY <1>1, <1>4, <2>1, <2>2, <2>3
<1>9. \A e \in settled : e.token # 0 => e.token \in Tokens \ {t}
  BY <1>5, ConfirmGateAssumption DEF GateInv, TypeOK, Tokens
<1>10. History'
  <2>1. \A e \in settled : e.token # 0 => issued'[e.token] # Unissued
    BY <1>4, <1>9 DEF GateInv, History
  <2>2. now <= now
    BY DEF GateInv, TypeOK
  <2>3. \A u \in Tokens : issued'[u].born <= now
    BY <1>4, <2>2 DEF GateInv, History
  <2> QED BY <1>2, <2>1, <2>3 DEF GateInv, History
<1>11. PendingIsOpen'
  <2>1. pending'.token = t
    BY <1>1
  <2> QED BY <1>2, <1>5, <2>1 DEF PendingIsOpen
<1>12. ConfirmedInTime'
  <2> SUFFICES ASSUME RequireConfirmations, NEW e \in settled,
                      e.how = "executed"
               PROVE  /\ e.token \in Tokens
                      /\ e.action = issued'[e.token].action
                      /\ e.at - issued'[e.token].born \in 0..TTL
    BY <1>2 DEF ConfirmedInTime
  <2>1. /\ e.token \in Tokens /\ e.action = issued[e.token].action
        /\ e.at - issued[e.token].born \in 0..TTL
    BY DEF GateInv, ConfirmedInTime
  <2>2. issued'[e.token] = issued[e.token]
    BY <1>4, <1>5, <2>1
  <2> QED BY <2>1, <2>2
<1>13. SettledOncePerLife'
  BY <1>2 DEF GateInv, SettledOncePerLife
<1> QED BY <1>6, <1>7, <1>8, <1>10, <1>11, <1>12, <1>13 DEF GateInv

\* Without a confirmation only harmless actions run, unless confirmations
\* are switched off.
LEMMA ExecuteStep ==
  ASSUME GateInv, NEW a \in Actions, Execute(a), UNCHANGED <<saved, now, life>>
  PROVE  GateInv'
<1> DEFINE e == [token |-> 0, action |-> a, how |-> "executed", text |-> 0,
                 at |-> now, life |-> life]
<1>1. /\ pending' = None /\ issued' = issued
      /\ \/ settled' = settled
         \/ settled' = settled \cup {e} /\ a \in Risky /\ ~RequireConfirmations
  BY DEF Execute, RequiresConfirmation
<1>2. e.token = 0 /\ e.life = life
  OBVIOUS
<1>3. TypeOK'
  <2>1. a \in Risky => e \in [token : 0..MaxTokens, action : Risky,
               how : {"executed", "cancelled"}, text : 0..MaxTokens,
               at : 0..MaxTime, life : 1..MaxLives]
    BY ConfirmGateAssumption DEF GateInv, TypeOK
  <2> HIDE DEF e
  <2>2. None \in Entries' /\ Entries' = Entries
    BY NoneIsEntry DEF Entries
  <2> QED BY <1>1, <2>1, <2>2 DEF GateInv, TypeOK
<1> HIDE DEF e
<1>4. Registered(pending)' /\ Registered(saved)' /\ PendingIsOpen'
  BY <1>1 DEF GateInv, Registered, PendingIsOpen
<1>5. History'
  <2>1. life <= life
    BY DEF GateInv, TypeOK
  <2> QED BY <1>1, <1>2, <2>1 DEF GateInv, History
<1>6. ConfirmedInTime'
  BY <1>1 DEF GateInv, ConfirmedInTime
<1>7. SettledOncePerLife'
  BY <1>1, <1>2 DEF GateInv, SettledOncePerLife
<1> QED BY <1>3, <1>4, <1>5, <1>6, <1>7 DEF GateInv

\* The gate's one handler.
LEMMA CommandStep ==
  ASSUME GateInv, Command
  PROVE  GateInv'
<1>1. UNCHANGED <<saved, now, life>>
  BY DEF Command
<1>2. PICK m \in Messages :
        \/ ConfirmPending(m) \/ CancelPending(m) \/ Refuse(m)
        \/ \E a \in Parsed(m) : Request(a) \/ Execute(a)
  BY DEF Command
<1>3. CASE ConfirmPending(m)
  <2>1. m.kind = "confirm"
    BY <1>3 DEF ConfirmPending, IsConfirmation
  <2>2. m.text \in 0..MaxTokens
    BY <2>1 DEF Messages
  <2>3. /\ Fresh(pending) /\ Settle("executed", m.text) /\ pending' = None
        /\ UNCHANGED issued
    BY <1>3 DEF ConfirmPending
  <2> QED BY <1>1, <2>2, <2>3, SettleStep
<1>4. CASE CancelPending(m)
  <2>1. /\ Fresh(pending) /\ Settle("cancelled", 0) /\ pending' = None
        /\ UNCHANGED issued
    BY <1>4 DEF CancelPending
  <2>2. 0 \in 0..MaxTokens
    BY ConfirmGateAssumption
  <2> QED BY <1>1, <2>1, <2>2, SettleStep
<1>5. CASE Refuse(m)
  BY <1>1, <1>5 DEF Refuse, GateInv, TypeOK, Entries, Registered, History,
     PendingIsOpen, ConfirmedInTime, SettledOncePerLife
<1>6. CASE \E a \in Parsed(m) : Request(a) \/ Execute(a)
  <2>1. PICK a \in Parsed(m) : Request(a) \/ Execute(a)
    BY <1>6
  <2>2. a \in Actions
    BY <1>2 DEF Parsed, Messages
  <2> QED BY <1>1, <2>1, <2>2, RequestStep, ExecuteStep
<1> QED BY <1>2, <1>3, <1>4, <1>5, <1>6

\* What a restart loads was not settled in the new process.
LEMMA RestartStep ==
  ASSUME GateInv, Restart
  PROVE  GateInv'
<1>1. /\ pending' \in {saved, None} /\ saved' = pending'
      /\ life < MaxLives /\ life' = life + 1
      /\ UNCHANGED <<now, issued, settled>>
  BY DEF Restart
<1>2. \A e \in settled : e.life <= life' /\ e.life # life'
  <2> SUFFICES ASSUME NEW e \in settled PROVE e.life <= life' /\ e.life # life'
    OBVIOUS
  <2>1. e.life \in 1..MaxLives /\ e.life <= life /\ life \in 1..MaxLives
    BY DEF GateInv, TypeOK, History
  <2> QED BY <1>1, <2>1, ConfirmGateAssumption
<1>3. TypeOK'
  <2>1. pending' \in Entries /\ Entries' = Entries
    BY <1>1, NoneIsEntry DEF GateInv, TypeOK, Entries
  <2>2. life' \in 1..MaxLives
    BY <1>1, ConfirmGateAssumption DEF GateInv, TypeOK
  <2> QED BY <1>1, <2>1, <2>2 DEF GateInv, TypeOK
<1>4. Registered(pending)' /\ Registered(saved)'
  BY <1>1 DEF GateInv, Registered
<1>5. History' /\ PendingIsOpen'
  BY <1>1, <1>2 DEF GateInv, History, PendingIsOpen
<1>6. ConfirmedInTime' /\ SettledOncePerLife'
  BY <1>1 DEF GateInv, ConfirmedInTime, SettledOncePerLife
<1> QED BY <1>3, <1>4, <1>5, <1>6 DEF GateInv

LEMMA GateInvariant == Spec => []GateInv
<1>1. Init => GateInv
  <2> SUFFICES ASSUME Init PROVE GateInv
    OBVIOUS
  <2>1. /\ pending = None /\ saved = None /\ now = 0 /\ life = 1
        /\ issued = [t \in Tokens |-> Unissued] /\ settled = {}
    BY DEF Init
  <2>2. TypeOK
    BY <2>1, NoneIsEntry, ConfirmGateAssumption DEF TypeOK
  <2>3. History
    BY <2>1, UnissuedIsNone DEF History
  <2> QED BY <2>1, <2>2, <2>3 DEF GateInv, Registered, PendingIsOpen,
          ConfirmedInTime, SettledOncePerLife
<1>2. GateInv /\ [Next]_vars => GateInv'
  <2> SUFFICES ASSUME GateInv, [Next]_vars PROVE GateInv'
    OBVIOUS
  <2>1. CASE Command
    BY <2>1, CommandStep
  <2>2. CASE Save
    BY <2>2 DEF Save, GateInv, TypeOK, Entries, Registered, History,
       PendingIsOpen, ConfirmedInTime, SettledOncePerLife
  <2>3. CASE Restart
    BY <2>3, RestartStep
  <2>4. CASE Tick
    <3>1. now \in 0..MaxTime /\ now < MaxTime /\ now' = now + 1
          /\ UNCHANGED <<pending, saved, issued, life, settled>>
      BY <2>4 DEF Tick, GateInv, TypeOK
    <3>2. TypeOK'
      <4>1. now' \in 0..MaxTime /\ Entries' = Entries
        BY <3>1, ConfirmGateAssumption DEF Entries
      <4> QED BY <3>1, <4>1 DEF GateInv, TypeOK
    <3>3. History'
      <4> SUFFICES ASSUME NEW t \in Tokens PROVE issued[t].born <= now'
        BY <3>1 DEF GateInv, History
      <4>1. issued[t].born <= now /\ issued[t].born \in Int
        BY UnissuedIsNone, ConfirmGateAssumption DEF GateInv, History, TypeOK
      <4> QED BY <3>1, <4>1
    <3> QED BY <3>1, <3>2, <3>3 DEF GateInv, Registered, PendingIsOpen,
            ConfirmedInTime, SettledOncePerLife
  <2>5. CASE UNCHANGED vars
    BY <2>5 DEF vars, GateInv, TypeOK, Entries, Registered, History,
       PendingIsOpen, ConfirmedInTime, SettledOncePerLife
  <2> QED BY <2>1, <2>2, <2>3, <2>4, <2>5 DEF Next
<1> QED BY <1>1, <1>2, PTL DEF Spec
-----------------------------------------------------------------------------
(* Theorems                                                                *)

\* Pending and saved entries are requests of risky actions.
THEOREM TypeCorrect == Spec => []TypeOK
<1>1. GateInv => TypeOK
  BY DEF GateInv
<1> QED BY <1>1, GateInvariant, PTL

\* A risky action runs only as it was requested, and within the TTL, however
\* often the process restarts in between.
THEOREM ConfirmationInTime == Spec => []ConfirmedInTime
<1>1. GateInv => ConfirmedInTime
  BY DEF GateInv
<1> QED BY <1>1, GateInvariant, PTL

\* No request is settled twice by one process.
THEOREM SettlementIsUnique == Spec => []SettledOncePerLife
<1>1. GateInv => SettledOncePerLife
  BY DEF GateInv
<1> QED BY <1>1, GateInvariant, PTL

\* A fresh request stays until it is settled, or the process ends.
THEOREM FreshStays == Spec => FreshRequestStays
<1>1. GateInv /\ [Next]_vars =>
        [Fresh(pending) /\ life' = life => pending' \in {pending, None}]_vars
  <2> SUFFICES ASSUME GateInv, Next, Fresh(pending), life' = life
               PROVE  pending' \in {pending, None}
    OBVIOUS
  <2>1. CASE Command
    BY <2>1 DEF Command, ConfirmPending, CancelPending, Refuse, Request, Execute
  <2>2. CASE Save
    BY <2>2 DEF Save
  <2>3. CASE Restart
    <3>1. life \in Int /\ life' = life + 1
      BY <2>3 DEF Restart, GateInv, TypeOK
    <3> QED BY <3>1
  <2>4. CASE Tick
    BY <2>4 DEF Tick
  <2> QED BY <2>1, <2>2, <2>3, <2>4 DEF Next
<1> QED BY <1>1, GateInvariant, PTL DEF Spec, FreshRequestStays
-----------------------------------------------------------------------------
(***************************************************************************)
(* LLMBudget, for all limits, sizes of calls and dates: no counter passes  *)
(* its limit, and a date costs at most one daily budget for each time it   *)
(* began.                                                                  *)
(***************************************************************************)

\* The types the proofs need.
BudgetShape == /\ budget \in [used : Nat, date : Days]
         /\ session \in Nat /\ client \in Nat /\ today \in Days
         /\ spent \in [Days -> Nat] /\ begun \in [Days -> Nat]

\* What may still be charged to today is what its newest beginning allows,
\* less what was charged since; a counter of another date counts as zero.
TodayIsOpen == spent[today] + DailyBudget
                 <= DailyBudget * begun[today] + OnDate(budget, today).used

BudgetInv == BudgetShape /\ LimitsHold /\ DayWithinBudget /\ TodayIsOpen
-----------------------------------------------------------------------------
(* The helpers of the calls                                                *)

LEMMA DateKept ==
  ASSUME NEW b \in [used : Nat, date : Days], NEW d \in Days
  PROVE  /\ OnDate(b, d) \in [used : Nat, date : Days]
         /\ OnDate(b, d).date = d
         /\ OnDate(b, d).used <= b.used
         /\ OnDate(OnDate(b, d), d) = OnDate(b, d)
  BY DEF OnDate

LEMMA EstimateIsNat ==
  ASSUME NEW c \in Calls
  PROVE  /\ c.prompt \in Prompts /\ c.prompt \in Nat /\ c.max \in Nat
         /\ c.context \in 0..MaxContext /\ Estimate(c) \in Nat
         /\ Estimate(c) = c.prompt + c.max
<1>1. c.prompt \in Prompts /\ c.max \in Answers /\ c.context \in 0..MaxContext
  BY DEF Calls
<1>2. c.prompt \in Nat /\ c.max \in Nat
  BY <1>1, LLMBudgetAssumption
<1>. QED BY <1>1, <1>2 DEF Estimate

\* A beginning more is a budget more.
LEMMA OneMore ==
  ASSUME NEW n \in Nat
  PROVE  DailyBudget * (n + 1) = DailyBudget * n + DailyBudget
  BY LLMBudgetAssumption

LEMMA QuotaIsNat ==
  ASSUME NEW n \in Nat
  PROVE  DailyBudget * n \in Nat
  BY LLMBudgetAssumption

\* Turning to a date opens it again, unless it is the date already.
LEMMA Turned ==
  ASSUME BudgetShape, NEW d \in Days, Turn(d)
  PROVE  /\ today' = d /\ begun' \in [Days -> Nat]
         /\ d = today => begun' = begun
         /\ d # today => DailyBudget * begun'[d] = DailyBudget * begun[d] + DailyBudget
         /\ \A e \in Days : e # d => begun'[e] = begun[e]
         /\ \A e \in Days : DailyBudget * begun'[e] >= DailyBudget * begun[e]
<1>1. today' = d /\ begun' = IF d = today THEN begun ELSE [begun EXCEPT ![d] = @ + 1]
  BY DEF Turn
<1>2. /\ begun' \in [Days -> Nat]
      /\ \A e \in Days : e # d => begun'[e] = begun[e]
  BY <1>1 DEF BudgetShape
<1>3. d # today => DailyBudget * begun'[d] = DailyBudget * begun[d] + DailyBudget
  <2> SUFFICES ASSUME d # today
               PROVE  DailyBudget * begun'[d] = DailyBudget * begun[d] + DailyBudget
    OBVIOUS
  <2>1. begun'[d] = begun[d] + 1 /\ begun[d] \in Nat
    BY <1>1 DEF BudgetShape
  <2>. QED BY <2>1, OneMore
<1>4. ASSUME NEW e \in Days
      PROVE  DailyBudget * begun'[e] >= DailyBudget * begun[e]
  <2>1. begun[e] \in Nat /\ DailyBudget * begun[e] \in Nat /\ DailyBudget \in Nat
    BY QuotaIsNat, LLMBudgetAssumption DEF BudgetShape
  <2>2. CASE begun'[e] = begun[e]
    BY <2>1, <2>2
  <2>3. CASE begun'[e] # begun[e]
    <3>1. e = d /\ d # today
      BY <1>1, <1>2, <2>3
    <3>. QED BY <3>1, <1>3, <2>1
  <2>. QED BY <2>2, <2>3
<1>. QED BY <1>1, <1>2, <1>3, <1>4
-----------------------------------------------------------------------------
(* The steps                                                               *)

\* A date or none of the counters alone: what happens when a date is turned
\* to and the counter is left, or only brought to the date of the call.
LEMMA TurnKeeps ==
  ASSUME BudgetInv, NEW d \in Days, Turn(d),
         budget' = budget \/ budget' = OnDate(budget, today),
         UNCHANGED spent
  PROVE  /\ budget' \in [used : Nat, date : Days] /\ budget'.used <= DailyBudget
         /\ DayWithinBudget' /\ TodayIsOpen'
<1>1. /\ budget \in [used : Nat, date : Days] /\ today \in Days
      /\ spent \in [Days -> Nat] /\ begun \in [Days -> Nat] /\ DailyBudget \in Nat
      /\ budget.used <= DailyBudget
  BY LLMBudgetAssumption DEF BudgetInv, BudgetShape, LimitsHold
<1>2. /\ budget' \in [used : Nat, date : Days] /\ budget'.used <= DailyBudget
      /\ OnDate(budget', d).used \in Nat
      /\ d = today => OnDate(budget', d).used = OnDate(budget, today).used
  BY <1>1, DateKept
<1>3. /\ today' = d
      /\ d = today => begun' = begun
      /\ d # today => DailyBudget * begun'[d] = DailyBudget * begun[d] + DailyBudget
      /\ \A e \in Days : DailyBudget * begun'[e] >= DailyBudget * begun[e]
      /\ begun' \in [Days -> Nat]
  BY Turned DEF BudgetInv
<1>4. \A e \in Days : DailyBudget * begun[e] \in Nat /\ DailyBudget * begun'[e] \in Nat
  BY <1>1, <1>3, QuotaIsNat
<1>5. \A e \in Days : spent[e] <= DailyBudget * begun[e]
  BY DEF BudgetInv, DayWithinBudget
<1>6. DayWithinBudget'
  <2> SUFFICES ASSUME NEW e \in Days
               PROVE  spent[e] <= DailyBudget * begun'[e]
    BY DEF DayWithinBudget
  <2>1. spent[e] \in Nat
    BY <1>1
  <2>. QED BY <2>1, <1>3, <1>4, <1>5
<1>7. TodayIsOpen'
  <2> SUFFICES spent[d] + DailyBudget
                 <= DailyBudget * begun'[d] + OnDate(budget', d).used
    BY <1>3 DEF TodayIsOpen
  <2>1. CASE d = today
    BY <2>1, <1>2, <1>3 DEF BudgetInv, TodayIsOpen
  <2>2. CASE d # today
    <3>1. spent[d] \in Nat /\ spent[d] <= DailyBudget * begun[d]
      BY <1>1, <1>5
    <3>. QED BY <2>2, <3>1, <1>1, <1>2, <1>3, <1>4
  <2>. QED BY <2>1, <2>2
<1>. QED BY <1>2, <1>6, <1>7

\* A bill after the client's check.
LEMMA BillInLimit ==
  ASSUME NEW c \in Calls, ClientAllows(c), Bill(c), client \in Nat
  PROVE  /\ client' \in Nat
         /\ \E p \in Prompts : client' <= SessionLimit + p + MaxContext
<1>1. /\ c.prompt \in Prompts /\ c.prompt \in Nat /\ c.max \in Nat
      /\ c.context \in 0..MaxContext /\ Estimate(c) = c.prompt + c.max
  BY EstimateIsNat
<1>2. /\ client' \in (client + 1)..(client + c.context + Estimate(c))
      /\ client + c.max <= SessionLimit
  BY DEF Bill, ClientAllows
<1>3. client' \in Nat /\ client' <= SessionLimit + c.prompt + MaxContext
  BY <1>1, <1>2, LLMBudgetAssumption
<1>. QED BY <1>1, <1>3

LEMMA AnsweredKeeps ==
  ASSUME BudgetInv, NEW c \in Calls, Answered(c)
  PROVE  BudgetInv'
<1>1. PICK d \in Later :
        /\ Turn(d)
        /\ budget' = Spend(OnDate(budget, today), Estimate(c), d)
        /\ spent' = [spent EXCEPT ![d] = @ + Estimate(c)]
  BY DEF Answered
<1>2. /\ Affordable(c) /\ InSession(c) /\ ClientAllows(c) /\ Bill(c)
      /\ session' = session + Estimate(c)
  BY DEF Answered
<1> DEFINE b == OnDate(budget, today)
           n == Estimate(c)
<1>3. /\ budget \in [used : Nat, date : Days] /\ today \in Days /\ d \in Days
      /\ spent \in [Days -> Nat] /\ begun \in [Days -> Nat] /\ DailyBudget \in Nat
      /\ session \in Nat /\ client \in Nat /\ n \in Nat
  BY EstimateIsNat, LLMBudgetAssumption DEF BudgetInv, BudgetShape, Later
<1>4. b \in [used : Nat, date : Days] /\ b.date = today /\ b.used + n <= DailyBudget
  BY <1>2, <1>3, DateKept DEF Affordable
<1>5. /\ today' = d /\ begun' \in [Days -> Nat]
      /\ d = today => begun' = begun
      /\ d # today => DailyBudget * begun'[d] = DailyBudget * begun[d] + DailyBudget
      /\ \A e \in Days : DailyBudget * begun'[e] >= DailyBudget * begun[e]
  BY <1>1, <1>3, Turned DEF BudgetInv
<1>6. /\ budget' \in [used : Nat, date : Days] /\ budget'.date = d
      /\ d = today => budget'.used = b.used + n
      /\ d # today => budget'.used = n
  <2>1. budget' = [OnDate(b, d) EXCEPT !.used = @ + n]
    BY <1>1 DEF Spend
  <2>2. /\ OnDate(b, d) \in [used : Nat, date : Days] /\ OnDate(b, d).date = d
        /\ d = today => OnDate(b, d).used = b.used
        /\ d # today => OnDate(b, d).used = 0
    BY <1>3, <1>4 DEF OnDate
  <2>. HIDE DEF b, n
  <2>. QED BY <2>1, <2>2, <1>3
<1>7. OnDate(budget', d) = budget'
  BY <1>6 DEF OnDate
<1>8. \A e \in Days : /\ DailyBudget * begun[e] \in Nat
                      /\ DailyBudget * begun'[e] \in Nat
                      /\ spent[e] \in Nat /\ spent[e] <= DailyBudget * begun[e]
  BY <1>3, <1>5, QuotaIsNat DEF BudgetInv, DayWithinBudget
<1>9. spent[today] + DailyBudget <= DailyBudget * begun[today] + b.used
  BY DEF BudgetInv, TodayIsOpen
<1>10. /\ spent' \in [Days -> Nat] /\ spent'[d] = spent[d] + n
       /\ \A e \in Days : e # d => spent'[e] = spent[e]
  BY <1>1, <1>3
<1> HIDE DEF b, n
<1>11. spent'[d] + DailyBudget <= DailyBudget * begun'[d] + budget'.used
  <2>1. CASE d = today
    BY <2>1, <1>3, <1>4, <1>5, <1>6, <1>8, <1>9, <1>10
  <2>2. CASE d # today
    BY <2>2, <1>3, <1>4, <1>5, <1>6, <1>8, <1>10
  <2>. QED BY <2>1, <2>2
<1>12. budget'.used \in Nat /\ budget'.used <= DailyBudget
  BY <1>3, <1>4, <1>6
<1>13. TodayIsOpen'
  BY <1>5, <1>7, <1>11 DEF TodayIsOpen
<1>14. DayWithinBudget'
  <2> SUFFICES ASSUME NEW e \in Days
               PROVE  spent'[e] <= DailyBudget * begun'[e]
    BY DEF DayWithinBudget
  <2>1. CASE e = d
    BY <2>1, <1>3, <1>8, <1>10, <1>11, <1>12
  <2>2. CASE e # d
    BY <2>2, <1>5, <1>8, <1>10
  <2>. QED BY <2>1, <2>2
<1>15. session' \in Nat /\ session' <= SessionLimit
  BY <1>2, <1>3 DEF InSession, n
<1>16. client' \in Nat /\ \E p \in Prompts : client' <= SessionLimit + p + MaxContext
  BY <1>2, <1>3, BillInLimit
<1>17. BudgetShape' /\ LimitsHold'
  BY <1>3, <1>5, <1>6, <1>10, <1>12, <1>15, <1>16 DEF BudgetShape, LimitsHold
<1>. QED BY <1>13, <1>14, <1>17 DEF BudgetInv

\* The calls that are not answered.
LEMMA UnansweredKeeps ==
  ASSUME BudgetInv, NEW c \in Calls, Refused(c) \/ Failed(c)
  PROVE  BudgetInv'
<1>1. CASE Refused(c)
  <2>1. /\ budget' = OnDate(budget, today)
        /\ UNCHANGED <<session, client, today, spent, begun>>
    BY <1>1 DEF Refused
  <2>2. budget \in [used : Nat, date : Days] /\ today \in Days
    BY DEF BudgetInv, BudgetShape
  <2>3. /\ OnDate(budget, today) \in [used : Nat, date : Days]
        /\ OnDate(budget, today).used <= budget.used
        /\ OnDate(OnDate(budget, today), today) = OnDate(budget, today)
    BY <2>2, DateKept
  <2>4. budget'.used <= DailyBudget
    BY <2>1, <2>2, <2>3, LLMBudgetAssumption DEF BudgetInv, LimitsHold
  <2>. QED BY <2>1, <2>3, <2>4
       DEF BudgetInv, BudgetShape, LimitsHold, DayWithinBudget, TodayIsOpen
<1>2. CASE Failed(c)
  <2>1. PICK d \in Later : Turn(d)
    BY <1>2 DEF Failed
  <2>2. /\ budget' = OnDate(budget, today) /\ UNCHANGED <<session, spent>>
        /\ UNCHANGED client \/ Bill(c)
        /\ ClientAllows(c)
    BY <1>2 DEF Failed
  <2>3. d \in Days
    BY DEF Later, BudgetInv, BudgetShape
  <2>4. /\ budget' \in [used : Nat, date : Days] /\ budget'.used <= DailyBudget
        /\ DayWithinBudget' /\ TodayIsOpen'
    BY <2>1, <2>2, <2>3, TurnKeeps
  <2>5. today' = d /\ begun' \in [Days -> Nat]
    BY <2>1, <2>3, Turned DEF BudgetInv
  <2>6. /\ client' \in Nat
        /\ client' = 0 \/ \E p \in Prompts : client' <= SessionLimit + p + MaxContext
    BY <2>2, BillInLimit DEF BudgetInv, BudgetShape, LimitsHold
  <2>. QED BY <2>2, <2>3, <2>4, <2>5, <2>6 DEF BudgetInv, BudgetShape, LimitsHold
<1>. QED BY <1>1, <1>2

\* Limits reset, the clock set, a new process.
LEMMA OthersKeep ==
  ASSUME BudgetInv, ResetSession \/ SetClock \/ RestartProcess
  PROVE  BudgetInv'
<1>1. CASE ResetSession
  BY <1>1, LLMBudgetAssumption
  DEF ResetSession, BudgetInv, BudgetShape, LimitsHold, DayWithinBudget, TodayIsOpen
<1>2. CASE SetClock
  <2>1. PICK d \in Days : Turn(d)
    BY <1>2 DEF SetClock
  <2>2. UNCHANGED <<budget, session, client, spent>>
    BY <1>2 DEF SetClock
  <2>3. DayWithinBudget' /\ TodayIsOpen'
    BY <2>1, <2>2, TurnKeeps
  <2>4. today' = d /\ begun' \in [Days -> Nat]
    BY <2>1, Turned DEF BudgetInv
  <2>. QED BY <2>2, <2>3, <2>4 DEF BudgetInv, BudgetShape, LimitsHold
<1>3. CASE RestartProcess
  <2>1. /\ begun' = [begun EXCEPT ![today] = @ + 1]
        /\ budget' = [used |-> 0, date |-> today]
        /\ session' = 0 /\ client' = 0 /\ UNCHANGED <<today, spent>>
    BY <1>3 DEF RestartProcess
  <2>2. /\ today \in Days /\ spent \in [Days -> Nat] /\ begun \in [Days -> Nat]
        /\ DailyBudget \in Nat
    BY LLMBudgetAssumption DEF BudgetInv, BudgetShape
  <2>3. /\ begun' \in [Days -> Nat] /\ begun'[today] = begun[today] + 1
        /\ \A e \in Days : e # today => begun'[e] = begun[e]
    BY <2>1, <2>2
  <2>4. DailyBudget * begun'[today] = DailyBudget * begun[today] + DailyBudget
    BY <2>2, <2>3, OneMore
  <2>5. \A e \in Days : /\ DailyBudget * begun[e] \in Nat
                        /\ spent[e] \in Nat /\ spent[e] <= DailyBudget * begun[e]
    BY <2>2, QuotaIsNat DEF BudgetInv, DayWithinBudget
  <2>6. DayWithinBudget'
    <3> SUFFICES ASSUME NEW e \in Days
                 PROVE  spent[e] <= DailyBudget * begun'[e]
      BY <2>1 DEF DayWithinBudget
    <3>1. CASE e = today BY <3>1, <2>2, <2>4, <2>5
    <3>2. CASE e # today BY <3>2, <2>3, <2>5
    <3>. QED BY <3>1, <3>2
  <2>7. TodayIsOpen'
    <3>1. OnDate(budget', today).used = 0
      BY <2>1 DEF OnDate
    <3>. QED BY <3>1, <2>1, <2>2, <2>4, <2>5 DEF TodayIsOpen
  <2>8. BudgetShape' /\ LimitsHold'
    BY <2>1, <2>2, <2>3, LLMBudgetAssumption DEF BudgetShape, LimitsHold
  <2>. QED BY <2>6, <2>7, <2>8 DEF BudgetInv
<1>. QED BY <1>1, <1>2, <1>3
-----------------------------------------------------------------------------
(* Theorems                                                                *)

LEMMA BudgetInvariant == LbSpec => []BudgetInv
<1>1. LbInit => BudgetInv
  <2> SUFFICES ASSUME LbInit PROVE BudgetInv
    OBVIOUS
  <2>1. /\ budget = [used |-> 0, date |-> 0] /\ session = 0 /\ client = 0
        /\ today = 0 /\ spent = [d \in Days |-> 0]
        /\ begun = [d \in Days |-> IF d = 0 THEN 1 ELSE 0]
        /\ 0 \in Days /\ DailyBudget \in Nat
    BY LLMBudgetAssumption DEF LbInit, Days
  <2>2. DailyBudget * 1 = DailyBudget /\ DailyBudget * 0 = 0
    BY <2>1
  <2>3. OnDate(budget, today).used = 0
    BY <2>1 DEF OnDate
  <2>4. BudgetShape /\ LimitsHold
    BY <2>1, LLMBudgetAssumption DEF BudgetShape, LimitsHold
  <2>5. DayWithinBudget /\ TodayIsOpen
    BY <2>1, <2>2, <2>3 DEF DayWithinBudget, TodayIsOpen
  <2>. QED BY <2>4, <2>5 DEF BudgetInv
<1>2. BudgetInv /\ [LbNext]_lbVars => BudgetInv'
  <2> SUFFICES ASSUME BudgetInv, [LbNext]_lbVars PROVE BudgetInv'
    OBVIOUS
  <2>1. CASE LbNext
    BY <2>1, AnsweredKeeps, UnansweredKeeps, OthersKeep DEF LbNext
  <2>2. CASE UNCHANGED lbVars
    BY <2>2 DEF lbVars, BudgetInv, BudgetShape, LimitsHold, DayWithinBudget, TodayIsOpen
  <2>. QED BY <2>1, <2>2
<1>. QED BY <1>1, <1>2, PTL DEF LbSpec

\* Neither the daily nor the session counter of the proxy passes its limit, and
\* the provider's bill of a process exceeds it by one prompt at most.
THEOREM CountersInLimits == LbSpec => []LimitsHold
<1>1. BudgetInv => LimitsHold
  BY DEF BudgetInv
<1>. QED BY <1>1, BudgetInvariant, PTL

\* A date costs at most one daily budget for each time it began.
THEOREM DaysInBudget == LbSpec => []DayWithinBudget
<1>1. BudgetInv => DayWithinBudget
  BY DEF BudgetInv
<1>. QED BY <1>1, BudgetInvariant, PTL
-----------------------------------------------------------------------------
(***************************************************************************)
(* AgentMemory, for all limits and any number of events, processes and     *)
(* failing saves: what the extractor is told of a cycle happened in it,    *)
(* and every insight of the observer is earned.                            *)
(***************************************************************************)

Sources == {"observer", "person"}

MemTypes == [episodic : Seq(Nat), streak : Nat, insights : Seq(Sources)]
CycleTypes == [events : Seq(Nat), rotated : BOOLEAN]

\* The types the proofs need.
MemShape ==
  /\ mem \in MemTypes /\ memFile \in MemTypes
  /\ Len(mem.episodic) <= MaxEpisodic /\ Len(memFile.episodic) <= MaxEpisodic
  /\ recorded \in Nat /\ rollbacks \in Nat
  /\ cycle \in CycleTypes

\* The list e ends as the events of cycle c do, as far back as the index s
\* points; s is the true start while nothing was cut from the front.
Tracks(e, c, s) ==
  /\ s \in 0..Len(e) /\ Len(e) <= s + Len(c.events)
  /\ \A j \in 0..(Len(e) - s - 1) : e[Len(e) - j] = c.events[Len(c.events) - j]
  /\ ~c.rotated => Len(e) = s + Len(c.events)

CycleIsTracked == Active => Tracks(mem.episodic, cycle, cycleStart)

MemoryInv ==
  MemShape /\ CycleIsTracked /\ SummaryIsOfTheCycle /\ InsightsAreEarned
-----------------------------------------------------------------------------
(* The ends of sequences                                                   *)

LEMMA LastOfFacts ==
  ASSUME NEW S, NEW s \in Seq(S), NEW n \in Nat
  PROVE  /\ LastOf(s, n) \in Seq(S)
         /\ Len(LastOf(s, n)) = Least(n, Len(s))
         /\ \A i \in 1..Least(n, Len(s)) :
              LastOf(s, n)[i] = s[Len(s) - Least(n, Len(s)) + i]
<1> DEFINE k == Least(n, Len(s))
           from == Len(s) - k + 1
<1>1. Len(s) \in Nat /\ k \in 0..Len(s)
  BY DEF Least
<1>2. from \in Int /\ Len(s) \in Int /\ \A i \in from..Len(s) : s[i] \in S
  BY <1>1
<1> HIDE DEF k
<1>3. /\ SubSeq(s, from, Len(s)) \in Seq(S)
      /\ Len(SubSeq(s, from, Len(s))) =
           IF from <= Len(s) THEN Len(s) - from + 1 ELSE 0
      /\ \A i \in 1..(Len(s) - from + 1) : SubSeq(s, from, Len(s))[i] = s[from + i - 1]
  BY <1>2, SubSeqProperties
<1>4. LastOf(s, n) = SubSeq(s, from, Len(s))
  BY DEF LastOf, k
<1>5. Len(LastOf(s, n)) = k
  BY <1>1, <1>3, <1>4
<1>6. \A i \in 1..k : LastOf(s, n)[i] = s[Len(s) - k + i]
  BY <1>1, <1>3, <1>4
<1>. QED BY <1>3, <1>4, <1>5, <1>6 DEF k

\* Two sequences of one length that agree everywhere.
LEMMA SameSequence ==
  ASSUME NEW S, NEW s \in Seq(S), NEW t \in Seq(S), Len(s) = Len(t),
         \A i \in 1..Len(s) : s[i] = t[i]
  PROVE  s = t
OBVIOUS

\* A list that takes an event and drops what exceeds n from the front.
LEMMA Shifted ==
  ASSUME NEW e \in Seq(Nat), NEW x \in Nat, NEW n \in Nat \ {0}, Len(e) <= n
  PROVE  LET r == LastOf(Append(e, x), n)
         IN  /\ r \in Seq(Nat)
             /\ Len(r) = IF Len(e) < n THEN Len(e) + 1 ELSE n
             /\ r[Len(r)] = x
             /\ \A j \in 1..(Len(r) - 1) : r[Len(r) - j] = e[Len(e) - j + 1]
<1> DEFINE a == Append(e, x)
           r == LastOf(a, n)
           k == Least(n, Len(a))
<1>1. /\ a \in Seq(Nat) /\ Len(a) = Len(e) + 1 /\ a[Len(e) + 1] = x
      /\ \A i \in 1..Len(e) : a[i] = e[i]
      /\ Len(e) \in Nat
  OBVIOUS
<1> HIDE DEF a
<1>2. /\ r \in Seq(Nat) /\ Len(r) = k
      /\ \A i \in 1..k : r[i] = a[Len(a) - k + i]
  BY <1>1, LastOfFacts
<1>3. k = IF Len(e) < n THEN Len(e) + 1 ELSE n
  BY <1>1 DEF Least
<1> HIDE DEF r, k
<1>4. r[k] = x
  <2>1. k \in 1..k /\ Len(a) - k + k = Len(e) + 1
    BY <1>1, <1>3
  <2>. QED BY <1>1, <1>2, <2>1
<1>5. \A j \in 1..(k - 1) : r[k - j] = e[Len(e) - j + 1]
  <2>1. SUFFICES ASSUME NEW j \in 1..(k - 1) PROVE r[k - j] = e[Len(e) - j + 1]
    OBVIOUS
  <2>2. k - j \in 1..k /\ Len(e) - j + 1 \in 1..Len(e)
    BY <1>1, <1>3
  <2>3. r[k - j] = a[Len(a) - k + (k - j)]
    BY <1>2, <2>2
  <2>4. Len(a) - k + (k - j) = Len(e) - j + 1
    BY <1>1, <1>3
  <2>. QED BY <1>1, <2>2, <2>3, <2>4
<1>. QED BY <1>2, <1>3, <1>4, <1>5 DEF r, a
-----------------------------------------------------------------------------
(* Cycles and summaries                                                    *)

LEMMA NewCycleTracks ==
  ASSUME NEW e \in Seq(Nat)
  PROVE  Tracks(e, NoCycle, Len(e)) /\ NoCycle \in CycleTypes
BY DEF Tracks, NoCycle, CycleTypes

LEMMA FollowTypes ==
  ASSUME NEW c \in CycleTypes, NEW e \in Seq(Nat), NEW x \in Nat
  PROVE  /\ Follow(c, e, x) \in CycleTypes
         /\ Follow(c, e, x).events = Append(c.events, x)
         /\ ~Follow(c, e, x).rotated => ~c.rotated /\ Len(e) < MaxEpisodic
<1> DEFINE cut == c.rotated \/ Len(e) >= MaxEpisodic
<1>1. Append(c.events, x) \in Seq(Nat)
  BY DEF CycleTypes
<1>2. Len(e) \in Nat /\ MaxEpisodic \in Nat
  BY AgentMemoryAssumption
<1>3. cut \in BOOLEAN
  BY Zenon
<1>4. ~cut => ~c.rotated /\ Len(e) < MaxEpisodic
  BY <1>2
<1>5. Follow(c, e, x) = [events |-> Append(c.events, x), rotated |-> cut]
  BY Zenon DEF Follow
<1> HIDE DEF cut
<1>. QED BY <1>1, <1>3, <1>4, <1>5 DEF CycleTypes

LEMMA FollowTracks ==
  ASSUME NEW e \in Seq(Nat), Len(e) <= MaxEpisodic, NEW c \in CycleTypes,
         NEW s, Tracks(e, c, s), NEW x \in Nat
  PROVE  Tracks(LastOf(Append(e, x), MaxEpisodic), Follow(c, e, x), s)
<1> DEFINE r == LastOf(Append(e, x), MaxEpisodic)
           f == Follow(c, e, x)
           ev == c.events
<1>1. /\ ev \in Seq(Nat) /\ Len(ev) \in Nat /\ Len(e) \in Nat
      /\ MaxEpisodic \in Nat \ {0}
      /\ s \in 0..Len(e) /\ Len(e) <= s + Len(ev)
      /\ \A j \in 0..(Len(e) - s - 1) : e[Len(e) - j] = ev[Len(ev) - j]
      /\ ~c.rotated => Len(e) = s + Len(ev)
  <2>1. ev \in Seq(Nat) /\ MaxEpisodic \in Nat \ {0}
    BY AgentMemoryAssumption DEF CycleTypes
  <2>2. Len(ev) \in Nat /\ Len(e) \in Nat
    BY <2>1
  <2>. QED BY <2>1, <2>2, Zenon DEF Tracks
<1>2. /\ r \in Seq(Nat)
      /\ Len(r) = IF Len(e) < MaxEpisodic THEN Len(e) + 1 ELSE MaxEpisodic
      /\ r[Len(r)] = x
      /\ \A j \in 1..(Len(r) - 1) : r[Len(r) - j] = e[Len(e) - j + 1]
  <2>1. MaxEpisodic \in Nat \ {0}
    BY AgentMemoryAssumption
  <2>. QED BY <2>1, Shifted, Zenon
<1>3. /\ f.events = Append(ev, x)
      /\ ~f.rotated => ~c.rotated /\ Len(e) < MaxEpisodic
  BY FollowTypes
<1>4. /\ Len(f.events) = Len(ev) + 1 /\ f.events[Len(ev) + 1] = x
      /\ \A i \in 1..Len(ev) : f.events[i] = ev[i]
  BY <1>1, <1>3
<1> HIDE DEF r, f, ev
<1>5. s \in 0..Len(r) /\ Len(r) <= s + Len(f.events) /\ Len(r) \in Nat
      /\ Len(r) <= Len(e) + 1
  BY <1>1, <1>2, <1>4, SMTT(30)
<1>6. \A j \in 0..(Len(r) - s - 1) : r[Len(r) - j] = f.events[Len(f.events) - j]
  <2>1. SUFFICES ASSUME NEW j \in 0..(Len(r) - s - 1)
                 PROVE  r[Len(r) - j] = f.events[Len(f.events) - j]
    OBVIOUS
  <2>2. CASE j = 0
    BY <1>1, <1>2, <1>4, <1>5, <2>2, SMTT(30)
  <2>3. CASE j > 0
    <3>0. j \in 1..(Len(r) - 1)
      BY <1>1, <1>5, <2>3, SMTT(30)
    <3>1. r[Len(r) - j] = e[Len(e) - j + 1]
      BY <1>2, <3>0
    <3>2. j - 1 \in 0..(Len(e) - s - 1)
      BY <1>1, <1>5, <2>3
    <3>3. e[Len(e) - (j - 1)] = ev[Len(ev) - (j - 1)]
      BY <1>1, <3>2
    <3>4. Len(e) - (j - 1) = Len(e) - j + 1 /\ Len(ev) - (j - 1) = Len(ev) + 1 - j
      BY <1>1
    <3>5. Len(ev) + 1 - j \in 1..Len(ev)
      BY <1>1, <2>3, <3>2
    <3>. QED BY <1>4, <3>1, <3>3, <3>4, <3>5
  <2>. QED BY <1>5, <2>2, <2>3
<1>7. ~f.rotated => Len(r) = s + Len(f.events)
  <2>1. SUFFICES ASSUME ~f.rotated PROVE Len(r) = s + Len(f.events)
    OBVIOUS
  <2>2. Len(e) < MaxEpisodic /\ Len(e) = s + Len(ev)
    BY <1>1, <1>3, <2>1, Zenon
  <2>. QED BY <1>1, <1>2, <1>4, <2>2
<1>. QED BY <1>5, <1>6, <1>7 DEF Tracks, r, f

\* The events that a summary made now lists.
LEMMA SummaryTells ==
  ASSUME NEW e \in Seq(Nat), NEW c \in CycleTypes, NEW s, Tracks(e, c, s)
  PROVE  LET text == SummaryOf(e, s)
         IN  /\ text \in Seq(Nat) /\ Len(text) \in 0..MaxSummary
             /\ text = LastOf(c.events, Len(text))
             /\ ~c.rotated => text = LastOf(c.events, MaxSummary)
<1> DEFINE ev == c.events
           own == SubSeq(e, s + 1, Len(e))
           n == Len(e) - s
           text == LastOf(own, MaxSummary)
           k == Least(MaxSummary, n)
<1>1. /\ ev \in Seq(Nat) /\ Len(ev) \in Nat /\ Len(e) \in Nat
      /\ MaxSummary \in Nat \ {0}
      /\ s \in 0..Len(e) /\ Len(e) <= s + Len(ev)
      /\ \A j \in 0..(Len(e) - s - 1) : e[Len(e) - j] = ev[Len(ev) - j]
      /\ ~c.rotated => Len(e) = s + Len(ev)
  <2>1. MaxSummary \in Nat \ {0}
    BY AgentMemoryAssumption
  <2>2. ev \in Seq(Nat) /\ Len(ev) \in Nat /\ Len(e) \in Nat
    BY DEF CycleTypes
  <2>3. /\ s \in 0..Len(e) /\ Len(e) <= s + Len(ev)
        /\ \A j \in 0..(Len(e) - s - 1) : e[Len(e) - j] = ev[Len(ev) - j]
        /\ ~c.rotated => Len(e) = s + Len(ev)
    BY Zenon DEF Tracks
  <2>. QED BY <2>1, <2>2, <2>3
<1>2. SummaryOf(e, s) = text
  BY <1>1 DEF SummaryOf, Nowhere
<1>3. s + 1 \in Int /\ Len(e) \in Int /\ \A i \in (s + 1)..Len(e) : e[i] \in Nat
  BY <1>1
<1>4. /\ own \in Seq(Nat)
      /\ Len(own) = IF s + 1 <= Len(e) THEN Len(e) - (s + 1) + 1 ELSE 0
      /\ \A i \in 1..(Len(e) - (s + 1) + 1) : own[i] = e[s + 1 + i - 1]
  BY <1>3, SubSeqProperties
<1> HIDE DEF ev, own
<1>5. Len(own) = n /\ n \in Nat /\ \A i \in 1..n : own[i] = e[s + i]
  BY <1>1, <1>4
<1>6. /\ text \in Seq(Nat) /\ Len(text) = k
      /\ \A i \in 1..k : text[i] = own[n - k + i]
  <2>1. /\ text \in Seq(Nat) /\ Len(text) = Least(MaxSummary, Len(own))
        /\ \A i \in 1..Least(MaxSummary, Len(own)) :
             text[i] = own[Len(own) - Least(MaxSummary, Len(own)) + i]
    <3>1. MaxSummary \in Nat
      BY <1>1
    <3>. QED BY <1>4, <3>1, LastOfFacts
  <2>. QED BY <1>5, <2>1, Zenon
<1>7. k \in 0..n /\ k \in 0..MaxSummary /\ k \in Nat /\ k <= Len(ev) /\ Least(k, Len(ev)) = k
  BY <1>1, <1>5, SMTT(30) DEF Least
<1> HIDE DEF text, k
<1>8. /\ LastOf(ev, k) \in Seq(Nat) /\ Len(LastOf(ev, k)) = k
      /\ \A i \in 1..k : LastOf(ev, k)[i] = ev[Len(ev) - k + i]
  <2>1. /\ LastOf(ev, k) \in Seq(Nat) /\ Len(LastOf(ev, k)) = Least(k, Len(ev))
        /\ \A i \in 1..Least(k, Len(ev)) :
             LastOf(ev, k)[i] = ev[Len(ev) - Least(k, Len(ev)) + i]
    BY <1>1, <1>7, LastOfFacts
  <2>. QED BY <1>7, <2>1, Zenon
<1>9. \A i \in 1..k : text[i] = LastOf(ev, k)[i]
  <2>1. SUFFICES ASSUME NEW i \in 1..k PROVE text[i] = LastOf(ev, k)[i]
    OBVIOUS
  <2>2. n - k + i \in 1..n /\ k - i \in 0..(Len(e) - s - 1)
    BY <1>5, <1>7
  <2>3. text[i] = e[s + (n - k + i)]
    BY <1>5, <1>6, <2>2
  <2>4. s + (n - k + i) = Len(e) - (k - i)
    BY <1>1, <1>7
  <2>5. e[Len(e) - (k - i)] = ev[Len(ev) - (k - i)]
    BY <1>1, <2>2
  <2>6. Len(ev) - (k - i) = Len(ev) - k + i
    BY <1>1, <1>7
  <2>. QED BY <1>8, <2>3, <2>4, <2>5, <2>6
<1>10. text = LastOf(ev, k)
  BY <1>6, <1>8, <1>9, SameSequence
<1>11. ~c.rotated => LastOf(ev, MaxSummary) = LastOf(ev, k)
  <2>1. SUFFICES ASSUME ~c.rotated
                 PROVE  LastOf(ev, MaxSummary) = LastOf(ev, k)
    OBVIOUS
  <2>2. n = Len(ev)
    BY <1>1, <2>1
  <2>3. Least(MaxSummary, Len(ev)) = Least(k, Len(ev))
    BY <1>7, <2>2 DEF k
  <2>. QED BY <2>3 DEF LastOf
<1>. QED BY <1>2, <1>6, <1>7, <1>10, <1>11 DEF ev

\* What is left of a sequence when it is cut, and cut again at that length.
LEMMA FirstOfFacts ==
  ASSUME NEW S, NEW s \in Seq(S), NEW n \in Nat
  PROVE  LET r == FirstOf(s, n)
         IN  /\ r \in Seq(S) /\ Len(r) = Least(n, Len(s))
             /\ r = FirstOf(s, Len(r))
<1> DEFINE k == Least(n, Len(s))
           r == FirstOf(s, n)
<1>1. Len(s) \in Nat /\ k \in 0..Len(s) /\ Least(k, Len(s)) = k
  BY SMTT(30) DEF Least
<1>2. \A i \in 1..k : s[i] \in S
  BY <1>1
<1> HIDE DEF k
<1>3. SubSeq(s, 1, k) \in Seq(S) /\ Len(SubSeq(s, 1, k)) = k
  <2>1. 1 \in Int /\ k \in Int
    BY <1>1
  <2>2. /\ SubSeq(s, 1, k) \in Seq(S)
        /\ Len(SubSeq(s, 1, k)) = IF 1 <= k THEN k - 1 + 1 ELSE 0
    BY <1>2, <2>1, SubSeqProperties
  <2>. QED BY <1>1, <2>2
<1>4. r = SubSeq(s, 1, k)
  BY DEF FirstOf, k
<1>5. FirstOf(s, k) = SubSeq(s, 1, k)
  BY <1>1 DEF FirstOf
<1>. QED BY <1>3, <1>4, <1>5 DEF k

\* SummaryIsOfTheCycle of a summary that is made now and cut.
LEMMA CutSummaryTells ==
  ASSUME NEW e \in Seq(Nat), NEW c \in CycleTypes, NEW s, Tracks(e, c, s),
         NEW fits \in MinLines..MaxSummary
  PROVE  LET text == FirstOf(SummaryOf(e, s), fits)
         IN  \E n \in 0..MaxSummary :
               /\ text = FirstOf(LastOf(c.events, n), Len(text))
               /\ Len(text) >= Least(MinLines, Len(LastOf(c.events, n)))
               /\ ~c.rotated => n = MaxSummary
<1> DEFINE whole == SummaryOf(e, s)
           text == FirstOf(whole, fits)
           n == IF c.rotated THEN Len(whole) ELSE MaxSummary
<1>1. /\ whole \in Seq(Nat) /\ Len(whole) \in 0..MaxSummary
      /\ whole = LastOf(c.events, Len(whole))
      /\ ~c.rotated => whole = LastOf(c.events, MaxSummary)
  BY SummaryTells
<1> HIDE DEF whole
<1>2. MinLines \in Nat /\ MaxSummary \in Nat /\ fits \in Nat /\ MinLines <= fits
  BY AgentMemoryAssumption
<1>3. Len(text) = Least(fits, Len(whole)) /\ text = FirstOf(whole, Len(text))
  BY <1>1, <1>2, FirstOfFacts
<1>4. n \in 0..MaxSummary /\ whole = LastOf(c.events, n)
  BY <1>1, <1>2
<1>5. Least(fits, Len(whole)) >= Least(MinLines, Len(whole))
  BY <1>1, <1>2 DEF Least
<1> HIDE DEF text
<1>6. /\ text = FirstOf(LastOf(c.events, n), Len(text))
      /\ Len(text) >= Least(MinLines, Len(LastOf(c.events, n)))
  BY <1>3, <1>4, <1>5
<1>7. ~c.rotated => n = MaxSummary
  OBVIOUS
<1> HIDE DEF n
<1>. QED BY <1>4, <1>6, <1>7 DEF text, whole
-----------------------------------------------------------------------------
(* Insights                                                                *)

OwnIn(s) == {i \in DOMAIN s : s[i] = "observer"}

LEMMA OwnFinite ==
  ASSUME NEW s \in Seq(Sources)
  PROVE  IsFiniteSet(OwnIn(s)) /\ Cardinality(OwnIn(s)) \in Nat
<1>1. DOMAIN s = 1..Len(s) /\ Len(s) \in Int /\ 1 \in Int
  OBVIOUS
<1>2. IsFiniteSet(DOMAIN s) /\ OwnIn(s) \in SUBSET (DOMAIN s)
  BY <1>1, FS_Interval DEF OwnIn
<1>. QED BY <1>2, FS_Subset, FS_CardinalityType

\* Cutting a list from the front leaves no more of anything.
LEMMA CutKeepsNoMore ==
  ASSUME NEW s \in Seq(Sources), NEW n \in Nat
  PROVE  Cardinality(OwnIn(LastOf(s, n))) <= Cardinality(OwnIn(s))
<1> DEFINE r == LastOf(s, n)
           k == Least(n, Len(s))
           d == Len(s) - k
           f == [i \in OwnIn(r) |-> d + i]
<1>1. r \in Seq(Sources) /\ Len(r) = k /\ \A i \in 1..k : r[i] = s[d + i]
  BY LastOfFacts
<1>2. k \in 0..Len(s) /\ d \in Nat /\ Len(s) \in Nat
  BY DEF Least
<1> HIDE DEF r, k, d
<1>3. \A i \in OwnIn(r) : i \in 1..k /\ d + i \in OwnIn(s)
  <2>1. SUFFICES ASSUME NEW i \in OwnIn(r) PROVE i \in 1..k /\ d + i \in OwnIn(s)
    OBVIOUS
  <2>2. i \in 1..k /\ r[i] = "observer"
    BY <1>1, <1>2 DEF OwnIn
  <2>3. d + i \in 1..Len(s)
    BY <1>2, <2>2 DEF d
  <2>. QED BY <1>1, <2>2, <2>3 DEF OwnIn
<1>4. f \in [OwnIn(r) -> OwnIn(s)]
  BY <1>3
<1>5. \A a, b \in OwnIn(r) : f[a] = f[b] => a = b
  BY <1>2, <1>3
<1>6. f \in Injection(OwnIn(r), OwnIn(s))
  BY <1>4, <1>5 DEF Injection, IsInjective
<1>7. IsFiniteSet(OwnIn(s))
  BY OwnFinite
<1> HIDE DEF f
<1>. QED BY <1>6, <1>7, FS_Injection DEF r

LEMMA OneInsightMore ==
  ASSUME NEW s \in Seq(Sources), NEW x \in Sources
  PROVE  Cardinality(OwnIn(Append(s, x)))
           <= Cardinality(OwnIn(s)) + (IF x = "observer" THEN 1 ELSE 0)
<1>1. /\ Append(s, x) \in Seq(Sources)
      /\ DOMAIN Append(s, x) = DOMAIN s \cup {Len(s) + 1}
      /\ \A i \in DOMAIN s : Append(s, x)[i] = s[i]
      /\ Append(s, x)[Len(s) + 1] = x
  OBVIOUS
<1>2. IsFiniteSet(OwnIn(s)) /\ Cardinality(OwnIn(s)) \in Nat
  BY OwnFinite
<1>3. CASE x = "observer"
  <2>1. OwnIn(Append(s, x)) = OwnIn(s) \cup {Len(s) + 1}
    BY <1>1, <1>3 DEF OwnIn
  <2>2. Cardinality(OwnIn(s) \cup {Len(s) + 1}) <= Cardinality(OwnIn(s)) + 1
    <3>1. Cardinality(OwnIn(s) \cup {Len(s) + 1}) =
            IF Len(s) + 1 \in OwnIn(s) THEN Cardinality(OwnIn(s))
                                       ELSE Cardinality(OwnIn(s)) + 1
      BY <1>2, FS_AddElement, Zenon
    <3> HIDE DEF OwnIn
    <3>. QED BY <1>2, <3>1
  <2>. QED BY <1>3, <2>1, <2>2
<1>4. CASE x # "observer"
  <2>1. OwnIn(Append(s, x)) = OwnIn(s)
    BY <1>1, <1>4 DEF OwnIn
  <2>. QED BY <1>2, <1>4, <2>1
<1>. QED BY <1>3, <1>4

\* What add_insight does to a memory.
LEMMA AddInsightFacts ==
  ASSUME NEW m \in MemTypes, NEW x \in Sources
  PROVE  /\ AddInsight(m, x) \in MemTypes
         /\ AddInsight(m, x).episodic = m.episodic
         /\ AddInsight(m, x).streak = m.streak
         /\ Cardinality(OwnInsights(AddInsight(m, x))) \in Nat
         /\ Cardinality(OwnInsights(AddInsight(m, x)))
              <= Cardinality(OwnInsights(m)) + (IF x = "observer" THEN 1 ELSE 0)
<1> DEFINE a == Append(m.insights, x)
           r == LastOf(a, MaxInsights)
<1>1. m.insights \in Seq(Sources) /\ a \in Seq(Sources) /\ MaxInsights \in Nat
  BY AgentMemoryAssumption DEF MemTypes
<1> HIDE DEF a
<1>2. r \in Seq(Sources)
  BY <1>1, LastOfFacts
<1>3. /\ AddInsight(m, x) = [m EXCEPT !.insights = r]
      /\ AddInsight(m, x) \in MemTypes
      /\ AddInsight(m, x).insights = r
      /\ AddInsight(m, x).episodic = m.episodic
      /\ AddInsight(m, x).streak = m.streak
  BY <1>2 DEF AddInsight, MemTypes, a
<1>4. /\ OwnInsights(AddInsight(m, x)) = OwnIn(r)
      /\ OwnInsights(m) = OwnIn(m.insights)
  BY <1>3 DEF OwnInsights, OwnIn
<1>5. /\ Cardinality(OwnIn(r)) \in Nat /\ Cardinality(OwnIn(a)) \in Nat
      /\ Cardinality(OwnIn(m.insights)) \in Nat
  BY <1>1, <1>2, OwnFinite
<1>6. Cardinality(OwnIn(r)) <= Cardinality(OwnIn(a))
  BY <1>1, CutKeepsNoMore
<1>7. Cardinality(OwnIn(a)) <= Cardinality(OwnIn(m.insights))
                                + (IF x = "observer" THEN 1 ELSE 0)
  BY <1>1, OneInsightMore DEF a
<1>. QED BY <1>3, <1>4, <1>5, <1>6, <1>7

\* Three rollbacks pay for the insight of the observer.
LEMMA InsightFacts ==
  ASSUME NEW m \in MemTypes, Earned(m), rollbacks \in Nat
  PROVE  /\ Insight(m) \in MemTypes /\ Insight(m).episodic = m.episodic
         /\ Earned(Insight(m))
<1>1. /\ m.streak \in Nat /\ Streak \in Nat \ {0} /\ m.insights \in Seq(Sources)
      /\ "observer" \in Sources
  BY AgentMemoryAssumption DEF MemTypes, Sources
<1> DEFINE a == AddInsight(m, "observer")
           old == Cardinality(OwnInsights(m))
           new == Cardinality(OwnInsights(a))
<1>2. /\ a \in MemTypes /\ a.episodic = m.episodic
      /\ new \in Nat /\ new <= old + 1
  BY <1>1, AddInsightFacts
<1>3. old \in Nat
  BY <1>1, OwnFinite DEF OwnInsights, OwnIn
<1>4. CASE m.streak >= Streak
  <2>1. Insight(m) = [a EXCEPT !.streak = 0]
    BY <1>4 DEF Insight
  <2> HIDE DEF a
  <2>2. /\ Insight(m) \in MemTypes /\ Insight(m).episodic = m.episodic
        /\ Insight(m).streak = 0 /\ OwnInsights(Insight(m)) = OwnInsights(a)
    <3>1. /\ Insight(m).episodic = a.episodic /\ Insight(m).streak = 0
          /\ Insight(m).insights = a.insights /\ Insight(m) \in MemTypes
      BY <1>2, <2>1 DEF MemTypes
    <3>. QED BY <1>2, <3>1, Zenon DEF OwnInsights
  <2> HIDE DEF old, new
  <2>3. Streak * new <= Streak * (old + 1)
    BY <1>1, <1>2, <1>3
  <2>4. Streak * (old + 1) = Streak * old + Streak
    BY <1>1, <1>3
  <2>5. Streak * new \in Nat /\ Streak * old \in Nat
    BY <1>1, <1>2, <1>3
  <2>6. Streak * old + m.streak <= rollbacks
    BY DEF Earned, old
  <2>7. Streak * new + 0 <= rollbacks
    BY <1>1, <1>4, <2>3, <2>4, <2>5, <2>6
  <2>. QED BY <2>2, <2>7 DEF Earned, new
<1>5. CASE ~(m.streak >= Streak)
  BY <1>5 DEF Insight
<1>. QED BY <1>4, <1>5

\* What record_event does to a memory.
LEMMA RecordFacts ==
  ASSUME NEW m \in MemTypes, Len(m.episodic) <= MaxEpisodic, NEW x \in Nat
  PROVE  /\ RecordIn(m, x) \in MemTypes
         /\ RecordIn(m, x).episodic = LastOf(Append(m.episodic, x), MaxEpisodic)
         /\ Len(RecordIn(m, x).episodic) <= MaxEpisodic
         /\ RecordIn(m, x).streak = m.streak
         /\ OwnInsights(RecordIn(m, x)) = OwnInsights(m)
         /\ Earned(m) => Earned(RecordIn(m, x))
<1> DEFINE r == LastOf(Append(m.episodic, x), MaxEpisodic)
<1>1. m.episodic \in Seq(Nat) /\ MaxEpisodic \in Nat \ {0} /\ Len(m.episodic) \in Nat
  BY AgentMemoryAssumption DEF MemTypes
<1>2. r \in Seq(Nat) /\ Len(r) <= MaxEpisodic
  <2>1. /\ r \in Seq(Nat)
        /\ Len(r) = IF Len(m.episodic) < MaxEpisodic THEN Len(m.episodic) + 1
                                                     ELSE MaxEpisodic
    BY <1>1, Shifted, ZenonT(30)
  <2> HIDE DEF r
  <2>. QED BY <1>1, <2>1
<1>3. RecordIn(m, x) = [m EXCEPT !.episodic = r]
  BY DEF RecordIn
<1> HIDE DEF r
<1>4. /\ RecordIn(m, x) \in MemTypes /\ RecordIn(m, x).episodic = r
      /\ RecordIn(m, x).streak = m.streak
      /\ OwnInsights(RecordIn(m, x)) = OwnInsights(m)
  BY <1>2, <1>3 DEF MemTypes, OwnInsights
<1>. QED BY <1>2, <1>4 DEF Earned, r
-----------------------------------------------------------------------------
(* One lemma for each action                                               *)

LEMMA EmptyIsMemory ==
  /\ Empty \in MemTypes /\ Len(Empty.episodic) <= MaxEpisodic
  /\ OwnInsights(Empty) = {} /\ Empty.streak = 0
BY AgentMemoryAssumption DEF Empty, MemTypes, OwnInsights

\* More rollbacks pay for what fewer did.
LEMMA StillEarned ==
  ASSUME NEW m \in MemTypes, Earned(m), rollbacks \in Nat, rollbacks' \in Nat,
         rollbacks' >= rollbacks
  PROVE  Streak * Cardinality(OwnInsights(m)) + m.streak <= rollbacks'
<1>1. m.insights \in Seq(Sources) /\ m.streak \in Nat /\ Streak \in Nat
  BY AgentMemoryAssumption DEF MemTypes
<1>2. Cardinality(OwnInsights(m)) \in Nat
  BY <1>1, OwnFinite DEF OwnInsights, OwnIn
<1>3. Streak * Cardinality(OwnInsights(m)) \in Nat
  BY <1>1, <1>2
<1>. QED BY <1>1, <1>3 DEF Earned

\* Nothing is owed for no insights.
LEMMA NothingOwed ==
  ASSUME rollbacks' \in Nat
  PROVE  Streak * Cardinality(OwnInsights(Empty)) + Empty.streak <= rollbacks'
<1>1. Cardinality(OwnInsights(Empty)) = 0
  BY EmptyIsMemory, FS_EmptySet
<1>2. Streak * 0 = 0
  BY AgentMemoryAssumption
<1>. QED BY <1>1, <1>2, EmptyIsMemory

\* A save leaves the new memory, the old file or none.
LEMMA SaveKeeps ==
  ASSUME MemoryInv, mem' \in MemTypes, Len(mem'.episodic) <= MaxEpisodic,
         Earned(mem)', rollbacks' \in Nat, rollbacks' >= rollbacks,
         WriteMemory(mem') \/ memFile' = memFile
  PROVE  /\ memFile' \in MemTypes /\ Len(memFile'.episodic) <= MaxEpisodic
         /\ Earned(memFile)'
<1>1. /\ memFile \in MemTypes /\ Len(memFile.episodic) <= MaxEpisodic
      /\ Earned(memFile) /\ rollbacks \in Nat
  BY DEF MemoryInv, MemShape, InsightsAreEarned
<1>2. CASE memFile' = mem'
  BY <1>2 DEF Earned, OwnInsights
<1>3. CASE memFile' = memFile
  <2>1. Streak * Cardinality(OwnInsights(memFile)) + memFile.streak <= rollbacks'
    BY <1>1, StillEarned
  <2>. QED BY <1>1, <1>3, <2>1 DEF Earned, OwnInsights
<1>4. CASE memFile' = Empty
  <2>1. Streak * Cardinality(OwnInsights(Empty)) + Empty.streak <= rollbacks'
    BY NothingOwed
  <2>2. Earned(memFile)'
    BY <1>4, <2>1 DEF Earned, OwnInsights
  <2>. QED BY <1>4, <2>2, EmptyIsMemory
<1>. QED BY <1>2, <1>3, <1>4 DEF WriteMemory

\* What is common to the steps that record one event and leave the idle
\* state as it is.
LEMMA OneEvent ==
  ASSUME MemoryInv, recorded' = recorded + 1,
         cycle' = IF Active THEN Follow(cycle, mem.episodic, recorded') ELSE cycle,
         UNCHANGED <<lastIdle, cycleStart, summary>>,
         mem' \in MemTypes,
         mem'.episodic = LastOf(Append(mem.episodic, recorded + 1), MaxEpisodic),
         WriteMemory(mem') \/ memFile' = memFile,
         Earned(mem)', rollbacks' \in Nat, rollbacks' >= rollbacks
  PROVE  MemoryInv'
<1>1. /\ mem.episodic \in Seq(Nat) /\ Len(mem.episodic) <= MaxEpisodic
      /\ recorded' \in Nat /\ recorded + 1 \in Nat /\ MaxEpisodic \in Nat \ {0}
      /\ cycle \in CycleTypes /\ mem \in MemTypes
  BY AgentMemoryAssumption DEF MemoryInv, MemShape, MemTypes
<1>2. Len(mem'.episodic) <= MaxEpisodic
  <2>1. /\ RecordIn(mem, recorded + 1).episodic
             = LastOf(Append(mem.episodic, recorded + 1), MaxEpisodic)
        /\ Len(RecordIn(mem, recorded + 1).episodic) <= MaxEpisodic
    BY <1>1, RecordFacts
  <2>. QED BY <2>1
<1>3. /\ memFile' \in MemTypes /\ Len(memFile'.episodic) <= MaxEpisodic
      /\ Earned(memFile)'
  BY <1>2, SaveKeeps
<1>4. cycle' \in CycleTypes
  BY <1>1, FollowTypes
<1>5. CycleIsTracked'
  <2>1. SUFFICES ASSUME Active' PROVE Tracks(mem'.episodic, cycle', cycleStart')
    BY DEF CycleIsTracked
  <2>2. /\ Active /\ Tracks(mem.episodic, cycle, cycleStart)
        /\ cycle' = Follow(cycle, mem.episodic, recorded + 1)
    BY <2>1 DEF Active, MemoryInv, CycleIsTracked
  <2>. QED BY <1>1, <2>2, FollowTracks
<1>6. SummaryIsOfTheCycle'
  BY DEF MemoryInv, SummaryIsOfTheCycle
<1>. QED BY <1>1, <1>2, <1>3, <1>4, <1>5, <1>6
         DEF MemoryInv, MemShape, InsightsAreEarned

\* The state that the lemmas about records and insights start from.
LEMMA MemNow ==
  ASSUME MemoryInv
  PROVE  /\ mem \in MemTypes /\ Len(mem.episodic) <= MaxEpisodic /\ Earned(mem)
         /\ mem.episodic \in Seq(Nat)
         /\ rollbacks \in Nat /\ recorded \in Nat /\ recorded + 1 \in Nat
         /\ recorded + 2 \in Nat /\ recorded + 3 \in Nat
BY DEF MemoryInv, MemShape, InsightsAreEarned, MemTypes

LEMMA RecordEventKeeps == ASSUME MemoryInv, RecordEvent PROVE MemoryInv'
<1>1. /\ mem' = RecordIn(mem, recorded + 1) /\ recorded' = recorded + 1
      /\ UNCHANGED <<memFile, lastIdle, cycleStart, summary, rollbacks>>
      /\ cycle' = IF Active THEN Follow(cycle, mem.episodic, recorded') ELSE cycle
  BY DEF RecordEvent
<1>2. /\ mem' \in MemTypes
      /\ mem'.episodic = LastOf(Append(mem.episodic, recorded + 1), MaxEpisodic)
      /\ Earned(RecordIn(mem, recorded + 1))
  BY <1>1, MemNow, RecordFacts
<1>3. Earned(mem)' /\ rollbacks' \in Nat /\ rollbacks' >= rollbacks
  BY <1>1, <1>2, MemNow DEF Earned, OwnInsights
<1>. QED BY <1>1, <1>2, <1>3, OneEvent

LEMMA TuneResultKeeps ==
  ASSUME MemoryInv, NEW outcome \in {"success", "rollback"}, TuneResult(outcome)
  PROVE  MemoryInv'
<1> DEFINE r == RecordIn(mem, recorded + 1)
<1>1. /\ mem' = [r EXCEPT !.streak = IF outcome = "rollback" THEN @ + 1 ELSE 0]
      /\ recorded' = recorded + 1
      /\ rollbacks' = IF outcome = "rollback" THEN rollbacks + 1 ELSE rollbacks
      /\ UNCHANGED <<memFile, lastIdle, cycleStart, summary>>
      /\ cycle' = IF Active THEN Follow(cycle, mem.episodic, recorded') ELSE cycle
  BY DEF TuneResult
<1>2. /\ r \in MemTypes /\ Earned(r)
      /\ r.episodic = LastOf(Append(mem.episodic, recorded + 1), MaxEpisodic)
  BY MemNow, RecordFacts
<1> HIDE DEF r
<1>3. /\ mem' \in MemTypes /\ mem'.episodic = r.episodic
      /\ mem'.insights = r.insights
      /\ mem'.streak = IF outcome = "rollback" THEN r.streak + 1 ELSE 0
  <2> DEFINE n == IF outcome = "rollback" THEN r.streak + 1 ELSE 0
  <2>1. n \in Nat /\ mem' = [r EXCEPT !.streak = n]
    BY <1>1, <1>2 DEF MemTypes
  <2> HIDE DEF n
  <2>2. mem' \in MemTypes /\ mem'.streak = n /\ mem'.episodic = r.episodic
        /\ mem'.insights = r.insights
    BY <1>2, <2>1 DEF MemTypes
  <2>. QED BY <2>2 DEF n
<1>4. /\ r.streak \in Nat /\ r.insights \in Seq(Sources) /\ Streak \in Nat
      /\ rollbacks \in Nat
  BY <1>2, MemNow, AgentMemoryAssumption DEF MemTypes
<1>5. Cardinality(OwnInsights(r)) \in Nat
  BY <1>4, OwnFinite DEF OwnInsights, OwnIn
<1>6. rollbacks' \in Nat /\ rollbacks' >= rollbacks
  BY <1>1, <1>4
<1>7. Earned(mem)'
  <2> DEFINE owed == Streak * Cardinality(OwnInsights(r))
  <2>1. owed \in Nat /\ owed + r.streak <= rollbacks
    BY <1>2, <1>4, <1>5 DEF Earned
  <2>2. OwnInsights(mem)' = OwnInsights(r)
    BY <1>3 DEF OwnInsights
  <2>3. Earned(mem)' <=> owed + mem'.streak <= rollbacks'
    BY <2>2 DEF Earned
  <2> HIDE DEF owed
  <2>. QED BY <1>1, <1>3, <1>4, <2>1, <2>3
<1>. QED BY <1>1, <1>2, <1>3, <1>6, <1>7, OneEvent

LEMMA TeachKeeps == ASSUME MemoryInv, Teach PROVE MemoryInv'
<1> DEFINE r == RecordIn(mem, recorded + 1)
           a == AddInsight(r, "person")
<1>1. /\ mem' = a /\ recorded' = recorded + 1 /\ WriteMemory(mem')
      /\ UNCHANGED <<lastIdle, cycleStart, summary, rollbacks>>
      /\ cycle' = IF Active THEN Follow(cycle, mem.episodic, recorded') ELSE cycle
  BY DEF Teach
<1>2. /\ r \in MemTypes /\ Earned(r)
      /\ r.episodic = LastOf(Append(mem.episodic, recorded + 1), MaxEpisodic)
  BY MemNow, RecordFacts
<1> HIDE DEF r
<1>3. /\ a \in MemTypes /\ a.episodic = r.episodic /\ a.streak = r.streak
      /\ Cardinality(OwnInsights(a)) \in Nat
      /\ Cardinality(OwnInsights(a)) <= Cardinality(OwnInsights(r)) + 0
  BY <1>2, AddInsightFacts DEF Sources
<1> HIDE DEF a
<1>4. /\ r.streak \in Nat /\ r.insights \in Seq(Sources) /\ Streak \in Nat
      /\ rollbacks \in Nat
  BY <1>2, MemNow, AgentMemoryAssumption DEF MemTypes
<1>5. Cardinality(OwnInsights(r)) \in Nat
  BY <1>4, OwnFinite DEF OwnInsights, OwnIn
<1>6. Earned(a)
  <2> DEFINE x == Cardinality(OwnInsights(a))
             y == Cardinality(OwnInsights(r))
  <2>1. x \in Nat /\ y \in Nat /\ x <= y
    BY <1>3, <1>5
  <2>2. Streak * y + r.streak <= rollbacks
    BY <1>2 DEF Earned
  <2>3. Earned(a) <=> Streak * x + a.streak <= rollbacks
    BY DEF Earned
  <2> HIDE DEF x, y
  <2>4. Streak * x <= Streak * y /\ Streak * x \in Nat /\ Streak * y \in Nat
    BY <1>4, <2>1
  <2>. QED BY <1>3, <1>4, <2>2, <2>3, <2>4
<1>7. Earned(mem)' /\ rollbacks' \in Nat /\ rollbacks' >= rollbacks
  BY <1>1, <1>4, <1>6 DEF Earned, OwnInsights
<1>. QED BY <1>1, <1>2, <1>3, <1>7, OneEvent

LEMMA QuietTickKeeps ==
  ASSUME MemoryInv, NEW idle \in {"yes", "no"}, QuietTick(idle)
  PROVE  MemoryInv'
<1> DEFINE i == Insight(mem)
<1>1. /\ mem' = RecordIn(i, recorded + 1) /\ recorded' = recorded + 1
      /\ WriteMemory(mem')
      /\ UNCHANGED <<lastIdle, cycleStart, summary, rollbacks>>
      /\ cycle' = IF Active THEN Follow(cycle, mem.episodic, recorded') ELSE cycle
  BY DEF QuietTick
<1>2. i \in MemTypes /\ i.episodic = mem.episodic /\ Earned(i)
  BY MemNow, InsightFacts
<1> HIDE DEF i
<1>3. /\ mem' \in MemTypes
      /\ mem'.episodic = LastOf(Append(mem.episodic, recorded + 1), MaxEpisodic)
      /\ Earned(RecordIn(i, recorded + 1))
  BY <1>1, <1>2, MemNow, RecordFacts
<1>4. Earned(mem)' /\ rollbacks' \in Nat /\ rollbacks' >= rollbacks
  BY <1>1, <1>3, MemNow DEF Earned, OwnInsights
<1>. QED BY <1>1, <1>3, <1>4, OneEvent

LEMMA FirstTickKeeps ==
  ASSUME MemoryInv, NEW idle \in {"yes", "no"}, FirstTick(idle)
  PROVE  MemoryInv'
<1>1. /\ UNCHANGED <<mem, memFile, recorded, summary, rollbacks>>
      /\ cycle' = NoCycle /\ lastIdle' = idle
      /\ cycleStart' = IF idle = "no" THEN Len(mem.episodic) ELSE cycleStart
  BY DEF FirstTick
<1>2. /\ Tracks(mem.episodic, NoCycle, Len(mem.episodic))
      /\ NoCycle \in CycleTypes
  BY MemNow, NewCycleTracks
<1>3. CycleIsTracked'
  BY <1>1, <1>2 DEF CycleIsTracked, Active
<1>4. MemShape' /\ SummaryIsOfTheCycle' /\ InsightsAreEarned'
  BY <1>1, <1>2 DEF MemoryInv, MemShape, SummaryIsOfTheCycle, InsightsAreEarned,
                    Earned, OwnInsights
<1>. QED BY <1>3, <1>4 DEF MemoryInv

LEMMA StartCycleKeeps == ASSUME MemoryInv, StartCycle PROVE MemoryInv'
<1> DEFINE e == mem.episodic
           m1 == RecordIn(mem, recorded + 1)
           i == Insight(m1)
           c1 == Follow(NoCycle, e, recorded + 1)
<1>1. /\ mem' = RecordIn(i, recorded + 2) /\ recorded' = recorded + 2
      /\ cycle' = Follow(c1, m1.episodic, recorded + 2)
      /\ WriteMemory(mem') /\ cycleStart' = Len(e)
      /\ UNCHANGED <<summary, rollbacks>>
  BY DEF StartCycle
<1>2. /\ m1 \in MemTypes /\ Earned(m1) /\ Len(m1.episodic) <= MaxEpisodic
      /\ m1.episodic = LastOf(Append(e, recorded + 1), MaxEpisodic)
  BY MemNow, RecordFacts
<1>3. c1 \in CycleTypes /\ Tracks(m1.episodic, c1, Len(e))
  BY <1>2, MemNow, NewCycleTracks, FollowTypes, FollowTracks
<1> HIDE DEF m1, c1
<1>4. i \in MemTypes /\ i.episodic = m1.episodic /\ Earned(i)
  BY <1>2, MemNow, InsightFacts
<1> HIDE DEF i
<1>5. /\ mem' \in MemTypes /\ Len(mem'.episodic) <= MaxEpisodic
      /\ mem'.episodic = LastOf(Append(m1.episodic, recorded + 2), MaxEpisodic)
      /\ Earned(RecordIn(i, recorded + 2))
  BY <1>1, <1>2, <1>4, MemNow, RecordFacts
<1>6. m1.episodic \in Seq(Nat)
  BY <1>2 DEF MemTypes
<1>7. /\ cycle' \in CycleTypes
      /\ Tracks(mem'.episodic, cycle', cycleStart')
  BY <1>1, <1>2, <1>3, <1>5, <1>6, MemNow, FollowTypes, FollowTracks
<1>8. Earned(mem)' /\ rollbacks' \in Nat /\ rollbacks' >= rollbacks
  BY <1>1, <1>5, MemNow DEF Earned, OwnInsights
<1>9. /\ memFile' \in MemTypes /\ Len(memFile'.episodic) <= MaxEpisodic
      /\ Earned(memFile)'
  BY <1>1, <1>5, <1>8, SaveKeeps
<1>10. SummaryIsOfTheCycle'
  BY <1>1 DEF MemoryInv, SummaryIsOfTheCycle
<1>. QED BY <1>1, <1>5, <1>7, <1>8, <1>9, <1>10, MemNow
         DEF MemoryInv, MemShape, CycleIsTracked, InsightsAreEarned

LEMMA EndCycleKeeps == ASSUME MemoryInv, EndCycle PROVE MemoryInv'
<1>1. PICK calls \in 0..1 :
        /\ recorded' = recorded + calls + 2
        /\ LET asked   == IF calls = 1 THEN RecordIn(mem, recorded + 1) ELSE mem
               outcome == RecordIn(asked, recorded + calls + 1)
           IN  mem' = RecordIn(Insight(outcome), recorded')
  BY DEF EndCycle
<1> DEFINE asked   == IF calls = 1 THEN RecordIn(mem, recorded + 1) ELSE mem
           outcome == RecordIn(asked, recorded + calls + 1)
           i == Insight(outcome)
<1>2. asked \in MemTypes /\ Earned(asked) /\ Len(asked.episodic) <= MaxEpisodic
  BY MemNow, RecordFacts
<1>3. /\ recorded + calls + 1 \in Nat /\ recorded' \in Nat
      /\ mem' = RecordIn(i, recorded')
  BY <1>1, MemNow, SMTT(30)
<1> HIDE DEF asked
<1>4. outcome \in MemTypes /\ Earned(outcome) /\ Len(outcome.episodic) <= MaxEpisodic
  BY <1>2, <1>3, RecordFacts
<1> HIDE DEF outcome
<1>5. i \in MemTypes /\ i.episodic = outcome.episodic /\ Earned(i)
  BY <1>4, MemNow, InsightFacts
<1> HIDE DEF i
<1>6. /\ mem' \in MemTypes /\ Len(mem'.episodic) <= MaxEpisodic
      /\ Earned(RecordIn(i, recorded'))
  BY <1>3, <1>4, <1>5, RecordFacts
<1>7. /\ Active /\ lastIdle' = "yes" /\ cycle' = NoCycle /\ WriteMemory(mem')
      /\ \E fits \in MinLines..MaxSummary :
           summary' = [text  |-> FirstOf(SummaryOf(mem.episodic, cycleStart), fits),
                       cycle |-> cycle]
      /\ rollbacks' = rollbacks
  BY DEF EndCycle
<1>8. Earned(mem)' /\ rollbacks' \in Nat /\ rollbacks' >= rollbacks
  BY <1>3, <1>6, <1>7, MemNow DEF Earned, OwnInsights
<1>9. /\ memFile' \in MemTypes /\ Len(memFile'.episodic) <= MaxEpisodic
      /\ Earned(memFile)'
  BY <1>6, <1>7, <1>8, SaveKeeps
<1>10. SummaryIsOfTheCycle'
  <2>0. PICK fits \in MinLines..MaxSummary :
          summary' = [text  |-> FirstOf(SummaryOf(mem.episodic, cycleStart), fits),
                      cycle |-> cycle]
    BY <1>7
  <2> DEFINE text == FirstOf(SummaryOf(mem.episodic, cycleStart), fits)
  <2>1. Tracks(mem.episodic, cycle, cycleStart) /\ cycle \in CycleTypes
    BY <1>7 DEF MemoryInv, CycleIsTracked, MemShape
  <2>2. \E n \in 0..MaxSummary :
          /\ text = FirstOf(LastOf(cycle.events, n), Len(text))
          /\ Len(text) >= Least(MinLines, Len(LastOf(cycle.events, n)))
          /\ ~cycle.rotated => n = MaxSummary
    BY <2>1, MemNow, CutSummaryTells
  <2>3. summary'.text = text /\ summary'.cycle = cycle
    BY <2>0
  <2> HIDE DEF text
  <2>. QED BY <2>2, <2>3 DEF SummaryIsOfTheCycle
<1>11. CycleIsTracked' /\ cycle' \in CycleTypes
  BY <1>7, MemNow, NewCycleTracks DEF CycleIsTracked, Active
<1>. QED BY <1>3, <1>6, <1>7, <1>8, <1>9, <1>10, <1>11
         DEF MemoryInv, MemShape, InsightsAreEarned

LEMMA RestartAgentKeeps == ASSUME MemoryInv, RestartAgent PROVE MemoryInv'
<1>1. /\ mem' = memFile /\ lastIdle' = "unknown" /\ cycle' = NoCycle
      /\ UNCHANGED <<memFile, recorded, summary, rollbacks>>
  BY DEF RestartAgent
<1>2. NoCycle \in CycleTypes
  BY MemNow, NewCycleTracks
<1>. QED BY <1>1, <1>2
         DEF MemoryInv, MemShape, CycleIsTracked, Active, SummaryIsOfTheCycle,
             InsightsAreEarned, Earned, OwnInsights
-----------------------------------------------------------------------------
LEMMA MemoryStarts == AmInit => MemoryInv
<1> SUFFICES ASSUME AmInit PROVE MemoryInv
  OBVIOUS
<1>1. Empty \in MemTypes /\ Len(Empty.episodic) <= MaxEpisodic
  BY EmptyIsMemory
<1>2. <<>> \in Seq(Nat) /\ NoCycle \in CycleTypes /\ MaxSummary \in Nat
  BY AgentMemoryAssumption DEF NoCycle, CycleTypes
<1>3. MemShape
  BY <1>1, <1>2 DEF AmInit, MemShape
<1>4. CycleIsTracked
  BY DEF AmInit, CycleIsTracked, Active
<1>5. SummaryIsOfTheCycle
  <2>1. ASSUME NEW n \in Nat PROVE LastOf(<<>>, n) = <<>>
    <3>1. /\ LastOf(<<>>, n) \in Seq(Nat)
          /\ Len(LastOf(<<>>, n)) = Least(n, Len(<<>>))
      BY <1>2, LastOfFacts
    <3>2. Least(n, Len(<<>>)) = 0
      BY DEF Least
    <3>. QED BY <3>1, <3>2
  <2>2. Len(summary.text) \in Nat /\ summary.text = <<>>
        /\ summary.cycle.events = <<>>
    BY DEF AmInit, NoCycle
  <2>3. FirstOf(<<>>, 0) = <<>> /\ Least(MinLines, 0) <= 0
    <3>1. /\ FirstOf(<<>>, 0) \in Seq(Nat)
          /\ Len(FirstOf(<<>>, 0)) = Least(0, Len(<<>>))
      BY <1>2, FirstOfFacts
    <3>2. Least(0, Len(<<>>)) = 0
      BY DEF Least
    <3>3. MinLines \in Nat
      BY AgentMemoryAssumption
    <3>. QED BY <3>1, <3>2, <3>3 DEF Least
  <2>4. /\ MaxSummary \in 0..MaxSummary /\ LastOf(<<>>, MaxSummary) = <<>>
        /\ Len(<<>>) = 0
    BY <1>2, <2>1
  <2>. QED BY <2>2, <2>3, <2>4 DEF SummaryIsOfTheCycle
<1>6. InsightsAreEarned
  <2>1. Cardinality(OwnInsights(Empty)) = 0 /\ Empty.streak = 0
    BY EmptyIsMemory, FS_EmptySet
  <2>2. Streak * 0 + 0 <= 0
    BY AgentMemoryAssumption
  <2>3. rollbacks = 0 /\ mem = Empty /\ memFile = Empty
    BY DEF AmInit
  <2>. QED BY <2>1, <2>2, <2>3 DEF InsightsAreEarned, Earned
<1>. QED BY <1>3, <1>4, <1>5, <1>6 DEF MemoryInv

LEMMA MemoryInvariant == AmSpec => []MemoryInv
<1>1. MemoryInv /\ [AmNext]_amVars => MemoryInv'
  <2>1. MemoryInv /\ UNCHANGED amVars => MemoryInv'
    BY DEF amVars, MemoryInv, MemShape, CycleIsTracked, Active,
           SummaryIsOfTheCycle, InsightsAreEarned, Earned, OwnInsights
  <2>. QED BY <2>1, RecordEventKeeps, TeachKeeps, FirstTickKeeps, QuietTickKeeps,
              StartCycleKeeps, EndCycleKeeps, RestartAgentKeeps, TuneResultKeeps
           DEF AmNext, Observe
<1>. QED BY <1>1, MemoryStarts, PTL DEF AmSpec

\* What the memory extractor is told of a cycle happened in it, in order and
\* without a gap; only the cut to 3500 characters loses the newest events, and
\* only the 40 lines and a list that was cut meanwhile lose the oldest
\* (background.py:104-136, memory.py:45-54).
THEOREM SummaryCorrect == AmSpec => []SummaryIsOfTheCycle
<1>1. MemoryInv => SummaryIsOfTheCycle
  BY DEF MemoryInv
<1>. QED BY <1>1, MemoryInvariant, PTL

\* Every insight of the observer is paid for by rollbacks of its own, also
\* through restarts and saves that fail (background.py:163-170).
THEOREM InsightsEarned == AmSpec => []InsightsAreEarned
<1>1. MemoryInv => InsightsAreEarned
  BY DEF MemoryInv
<1>. QED BY <1>1, MemoryInvariant, PTL
-----------------------------------------------------------------------------
(***************************************************************************)
(* MemDir, for any plans, file names and limits: no memory is lost that a  *)
(* start or a plan has put there, and only a plan touches the safety file. *)
(***************************************************************************)
IndexEntries == [name : Names, long : BOOLEAN, bracket : BOOLEAN]
Operations   == [op : {"write", "create", "delete", "index", "skip", "ask"},
                 name : Names, content : Contents]
AnyPlans     == [deletes : Seq(Names), upserts : Seq(Upserts)]
CycleOps     == EnsureOps \o <<AskOp>>

MemDirShape ==
  /\ files \in [Names -> Contents]
  /\ ops \in Seq(Operations) /\ done \in 0..Len(ops)
  /\ plan \in AnyPlans
  /\ failures \in 0..MaxFailures /\ missed \subseteq Names
  /\ order \in {"kept", "short", "lost"}

\* An index that holds one entry of a file that it is found by.
NoTwoFound(s) ==
  \A i, j \in DOMAIN s : i < j /\ ~s[i].bracket => ~Matches(s[j], s[i].name)

\* An index that the pinned files begin, as far as it goes.
InOrder(s) ==
  /\ NoTwoFound(s)
  /\ s # <<>> => s[1].name = Identity
  /\ Len(s) >= 2 /\ ~s[1].bracket => s[2].name = Safety

GoodIndex(s) == s \in Seq(IndexEntries) /\ Fits(s) /\ NoTwoFound(s)

IndexHolds == GoodIndex(index) /\ (order # "lost" => InOrder(index))

\* The files hold what the plan has written so far, but for those whose last
\* write or delete has failed.
WritesHold ==
  \A m \in 1..done :
    /\ ops[m].op \in {"write", "delete"}
    /\ ops[m].name \notin missed \cup {Safety}
    /\ \A k \in (m + 1)..done : ops[k].op = "write" => ops[k].name # ops[m].name
    => files[ops[m].name] = ops[m].content

\* What is in progress, and what of it is in the index.
Stopped  == ~agentUp /\ ops = <<>>
Ensuring == /\ agentUp /\ plan = NoPlan /\ ops \in {EnsureOps, CycleOps}
            /\ order # "lost" /\ done \in {2, 3} => Len(index) >= 1
            /\ order = "kept" /\ done >= 4 => Len(index) >= 2
Applying == /\ agentUp /\ ops = PlanOps(plan)
            /\ order = "kept" => Len(index) >= 2
            /\ WritesHold

MemDirInv == /\ MemDirShape /\ IndexHolds
             /\ Stopped \/ Ensuring \/ Applying
-----------------------------------------------------------------------------
(* The index                                                               *)

LEMMA LargestExists ==
  ASSUME NEW n \in Nat, NEW T, T \subseteq 0..n, T # {}
  PROVE  \E m \in T : \A k \in T : k <= m
<1> DEFINE D == {n - k : k \in T}
<1>1. D \subseteq Nat /\ D # {}
  <2>1. \A k \in T : n - k \in Nat
    OBVIOUS
  <2>2. PICK k : k \in T
    OBVIOUS
  <2>3. n - k \in D
    BY <2>2
  <2>4. D \subseteq Nat
    BY <2>1
  <2> QED BY <2>3, <2>4
<1>2. PICK d \in D : \A e \in D : <<e, d>> \notin OpToRel(<, Nat)
  BY <1>1, WFMin, NatLessThanWellFounded
<1>3. PICK m \in T : d = n - m
  OBVIOUS
<1>4. ASSUME NEW k \in T, k > m PROVE FALSE
  <2>1. n - k \in D /\ n - k < d /\ n - k \in Nat /\ d \in Nat
    BY <1>3, <1>4
  <2>2. <<n - k, d>> \in OpToRel(<, Nat)
    BY <2>1 DEF OpToRel
  <2> QED BY <1>2, <2>1, <2>2
<1> QED BY <1>4

\* Two entries always fit.
LEMMA TwoFit ==
  ASSUME NEW s \in Seq(IndexEntries), Len(s) <= 2
  PROVE  Fits(s)
<1> DEFINE longs == {i \in DOMAIN s : s[i].long}
<1>1. DOMAIN s = 1..Len(s) /\ Len(s) \in Nat
  OBVIOUS
<1>2. IsFiniteSet(1..Len(s)) /\ Cardinality(1..Len(s)) = Len(s)
  <2>1. 1 \in Int /\ Len(s) \in Int
    BY <1>1
  <2>2. /\ IsFiniteSet(1..Len(s))
        /\ Cardinality(1..Len(s)) = IF 1 > Len(s) THEN 0 ELSE Len(s) - 1 + 1
    BY <2>1, FS_Interval
  <2> QED BY <1>1, <2>2
<1>3. longs \subseteq 1..Len(s)
  BY <1>1
<1> HIDE DEF longs
<1>4. IsFiniteSet(longs) /\ Cardinality(longs) <= Len(s)
  BY <1>2, <1>3, FS_Subset
<1>5. Cardinality(longs) \in Nat
  BY <1>4, FS_CardinalityType
<1>6. BytesOf(s) <= 4
  BY <1>1, <1>4, <1>5 DEF BytesOf, longs
<1>7. LinesOf(s) <= 8 /\ LinesOf(s) \in Nat /\ BytesOf(s) \in Nat
  BY <1>1, <1>5 DEF LinesOf, BytesOf, longs
<1> QED BY <1>6, <1>7, MemDirAssumption DEF Fits

\* What is left of an index when it is cut: all that fits, and the first two
\* entries always do.
LEMMA TruncateKeeps ==
  ASSUME NEW s \in Seq(IndexEntries)
  PROVE  \E k \in 0..Len(s) : /\ Truncate(s) = SubSeq(s, 1, k) /\ Fits(SubSeq(s, 1, k))
                              /\ Len(s) >= 1 => k >= 1
                              /\ Len(s) >= 2 => k >= 2
<1> DEFINE T == {k \in 0..Len(s) : Fits(SubSeq(s, 1, k))}
           P(k) == Fits(SubSeq(s, 1, k)) /\ \A j \in (k + 1)..Len(s) : ~Fits(SubSeq(s, 1, j))
           c == CHOOSE k \in 0..Len(s) : P(k)
<1>1. Len(s) \in Nat
  OBVIOUS
<1>2. ASSUME NEW k \in 0..Len(s), k <= 2 PROVE k \in T
  <2>1. SubSeq(s, 1, k) \in Seq(IndexEntries) /\ Len(SubSeq(s, 1, k)) = k
    BY <1>1
  <2> QED BY <1>2, <2>1, TwoFit
<1>3. PICK m \in T : \A k \in T : k <= m
  <2>1. 0 \in T
    BY <1>1, <1>2
  <2> HIDE DEF T
  <2>2. T \subseteq 0..Len(s)
    BY DEF T
  <2> QED BY <1>1, <2>1, <2>2, LargestExists
<1>4. P(m) /\ m \in 0..Len(s)
  <2>1. m \in 0..Len(s) /\ Fits(SubSeq(s, 1, m))
    OBVIOUS
  <2>2. ASSUME NEW j \in (m + 1)..Len(s), Fits(SubSeq(s, 1, j)) PROVE FALSE
    <3>1. j \in T
      BY <1>1, <2>1, <2>2
    <3> QED BY <1>1, <1>3, <2>1, <3>1
  <2> QED BY <2>1, <2>2
<1>5. c \in 0..Len(s) /\ P(c)
  <2> HIDE DEF P
  <2> QED BY <1>4
<1>6. Truncate(s) = SubSeq(s, 1, c)
  BY DEF Truncate
<1> HIDE DEF c
<1>7. ASSUME NEW j \in {1, 2}, Len(s) >= j, c < j PROVE FALSE
  <2>1. j \in (c + 1)..Len(s) /\ j \in 0..Len(s) /\ j <= 2
    BY <1>1, <1>5, <1>7
  <2>2. ~Fits(SubSeq(s, 1, j))
    BY <1>5, <2>1
  <2> QED BY <1>2, <2>1, <2>2
<1> QED BY <1>1, <1>5, <1>6, <1>7

\* A prefix of an index in order is in order.
LEMMA PrefixFinds ==
  ASSUME NEW s \in Seq(IndexEntries), NoTwoFound(s), NEW k \in 0..Len(s)
  PROVE  /\ SubSeq(s, 1, k) \in Seq(IndexEntries) /\ Len(SubSeq(s, 1, k)) = k
         /\ NoTwoFound(SubSeq(s, 1, k))
<1>1. PICK t : t = SubSeq(s, 1, k)
  OBVIOUS
<1>2. /\ t \in Seq(IndexEntries) /\ Len(t) = k /\ DOMAIN t = 1..k /\ Len(s) \in Nat
      /\ DOMAIN s = 1..Len(s) /\ \A i \in 1..k : t[i] = s[i]
  BY <1>1
<1>3. NoTwoFound(t)
  BY <1>2 DEF NoTwoFound
<1> QED BY <1>1, <1>2, <1>3

LEMMA PrefixInOrder ==
  ASSUME NEW s \in Seq(IndexEntries), InOrder(s), NEW k \in 0..Len(s)
  PROVE  SubSeq(s, 1, k) \in Seq(IndexEntries) /\ Len(SubSeq(s, 1, k)) = k
         /\ InOrder(SubSeq(s, 1, k))
<1>1. PICK t : t = SubSeq(s, 1, k)
  OBVIOUS
<1>2. /\ t \in Seq(IndexEntries) /\ Len(t) = k /\ DOMAIN t = 1..k /\ Len(s) \in Nat
      /\ DOMAIN s = 1..Len(s) /\ \A i \in 1..k : t[i] = s[i]
  BY <1>1
<1>3. InOrder(t)
  <2>1. NoTwoFound(t)
    <3>1. NoTwoFound(s)
      BY DEF InOrder
    <3> QED BY <1>1, <3>1, PrefixFinds
  <2>2. t # <<>> => t[1].name = Identity
    <3>1. t # <<>> => k >= 1
      BY <1>2
    <3> QED BY <1>2, <3>1 DEF InOrder
  <2>3. Len(t) >= 2 /\ ~t[1].bracket => t[2].name = Safety
    BY <1>2 DEF InOrder
  <2> QED BY <2>1, <2>2, <2>3 DEF InOrder
<1> QED BY <1>1, <1>2, <1>3

\* Putting an entry into an index, before it is cut: the index found by name
\* has one entry more, or as many when the entry of the file is replaced.
Putting(s, e) ==
  IF \E i \in DOMAIN s : Matches(s[i], e.name)
    THEN [i \in DOMAIN s |-> IF Matches(s[i], e.name) THEN e ELSE s[i]]
    ELSE Append(s, e)

PutFrom(t, s, e) ==
  /\ t \in Seq(IndexEntries) /\ NoTwoFound(t)
  /\ IF \E i \in DOMAIN s : Matches(s[i], e.name)
       THEN /\ Len(t) = Len(s) /\ Len(s) >= 1
            /\ \A i \in 1..Len(s) : t[i].name = s[i].name
            /\ \A i \in 1..Len(s) : s[i].bracket => t[i].bracket
       ELSE /\ Len(t) = Len(s) + 1 /\ t[Len(s) + 1] = e
            /\ \A i \in 1..Len(s) : t[i] = s[i]

LEMMA PuttingFinds ==
  ASSUME NEW s \in Seq(IndexEntries), NoTwoFound(s), NEW e \in IndexEntries
  PROVE  PutFrom(Putting(s, e), s, e)
<1> SUFFICES ASSUME NEW t, t = Putting(s, e) PROVE PutFrom(t, s, e)
  OBVIOUS
<1>1. Len(s) \in Nat /\ DOMAIN s = 1..Len(s) /\ \A i \in 1..Len(s) : s[i] \in IndexEntries
  OBVIOUS
<1>2. CASE \E i \in DOMAIN s : Matches(s[i], e.name)
  <2>1. t = [i \in DOMAIN s |-> IF Matches(s[i], e.name) THEN e ELSE s[i]]
    BY <1>2 DEF Putting
  <2>2. t \in Seq(IndexEntries) /\ Len(t) = Len(s) /\ DOMAIN t = 1..Len(s)
    BY <1>1, <2>1
  <2>3. /\ \A i \in 1..Len(s) : Matches(s[i], e.name) => t[i] = e
        /\ \A i \in 1..Len(s) : ~Matches(s[i], e.name) => t[i] = s[i]
        /\ \A i \in 1..Len(s) : t[i].name = s[i].name
        /\ \A i \in 1..Len(s) : s[i].bracket => t[i].bracket
    BY <1>1, <2>1 DEF Matches
  <2>4. ASSUME NEW i \in 1..Len(s), NEW j \in 1..Len(s), i < j, ~t[i].bracket,
               Matches(t[j], t[i].name)
        PROVE  FALSE
    <3>1. ~s[i].bracket /\ s[j].name = s[i].name
      BY <2>3, <2>4 DEF Matches
    <3>2. ~Matches(s[j], s[i].name)
      BY <1>1, <2>4, <3>1 DEF NoTwoFound
    <3>3. s[j].bracket
      BY <3>1, <3>2 DEF Matches
    <3> QED BY <2>3, <2>4, <3>3 DEF Matches
  <2>5. NoTwoFound(t)
    BY <2>2, <2>4 DEF NoTwoFound
  <2>6. Len(s) >= 1
    BY <1>1, <1>2
  <2> QED BY <1>2, <2>2, <2>3, <2>5, <2>6 DEF PutFrom
<1>3. CASE ~\E i \in DOMAIN s : Matches(s[i], e.name)
  <2>1. t = Append(s, e)
    BY <1>3 DEF Putting
  <2>2. /\ t \in Seq(IndexEntries) /\ Len(t) = Len(s) + 1 /\ DOMAIN t = 1..(Len(s) + 1)
        /\ \A i \in 1..Len(s) : t[i] = s[i]
        /\ t[Len(s) + 1] = e
    BY <1>1, <2>1
  <2>3. ASSUME NEW i \in DOMAIN t, NEW j \in DOMAIN t, i < j, ~t[i].bracket,
               Matches(t[j], t[i].name)
        PROVE  FALSE
    <3>1. i \in 1..Len(s) /\ t[i] = s[i] /\ i \in DOMAIN s
      BY <1>1, <2>2, <2>3
    <3>2. CASE j \in 1..Len(s)
      BY <1>1, <2>2, <2>3, <3>1, <3>2 DEF NoTwoFound
    <3>3. CASE j = Len(s) + 1
      <4>1. Matches(s[i], e.name)
        BY <2>2, <2>3, <3>1, <3>3 DEF Matches
      <4> QED BY <1>3, <3>1, <4>1
    <3> QED BY <1>1, <2>2, <3>2, <3>3
  <2>4. NoTwoFound(t)
    BY <2>3 DEF NoTwoFound
  <2> QED BY <1>3, <2>2, <2>4 DEF PutFrom
<1> QED BY <1>2, <1>3

\* Putting an entry into an index leaves it fit and found by.
LEMMA UpsertKeepsFound ==
  ASSUME NEW s, GoodIndex(s), NEW e \in IndexEntries
  PROVE  GoodIndex(UpsertEntry(s, e))
<1>1. PICK t : t = Putting(s, e)
  OBVIOUS
<1>2. t \in Seq(IndexEntries) /\ NoTwoFound(t)
  BY <1>1, PuttingFinds DEF GoodIndex, PutFrom
<1>3. UpsertEntry(s, e) = Truncate(t)
  BY <1>1 DEF UpsertEntry, Putting
<1>4. PICK k \in 0..Len(t) : Truncate(t) = SubSeq(t, 1, k) /\ Fits(SubSeq(t, 1, k))
  BY <1>2, TruncateKeeps
<1> QED BY <1>2, <1>3, <1>4, PrefixFinds DEF GoodIndex

\* Putting an entry into an index keeps it in order, if the pinned files are
\* the first to be put there.
LEMMA UpsertKeepsOrder ==
  ASSUME NEW s \in Seq(IndexEntries), InOrder(s), NEW e \in IndexEntries,
         s = <<>> => e.name = Identity,
         Len(s) = 1 /\ ~s[1].bracket => e.name \in Pinned,
         NEW r, r = UpsertEntry(s, e)
  PROVE  /\ r \in Seq(IndexEntries) /\ Fits(r) /\ InOrder(r)
         /\ Len(r) >= 1
         /\ Len(s) >= 2 => Len(r) >= 2
         /\ Len(s) = 1 /\ e.name = Safety => Len(r) >= 2
<1> DEFINE found == \E i \in DOMAIN s : Matches(s[i], e.name)
<1>1. Len(s) \in Nat /\ DOMAIN s = 1..Len(s)
  OBVIOUS
<1>2. PICK t : t = Putting(s, e)
  OBVIOUS
<1>3. PutFrom(t, s, e) /\ t \in Seq(IndexEntries) /\ NoTwoFound(t) /\ Len(t) \in Nat
  <2>1. NoTwoFound(s)
    BY DEF InOrder
  <2>2. PutFrom(t, s, e)
    BY <1>2, <2>1, PuttingFinds
  <2> QED BY <2>2 DEF PutFrom
<1>4. r = Truncate(t)
  BY <1>2 DEF UpsertEntry, Putting
<1>5. /\ Len(t) >= 1 /\ t[1].name = Identity
      /\ Len(t) >= 2 /\ ~t[1].bracket => t[2].name = Safety
      /\ Len(s) = 1 /\ e.name = Safety => Len(t) >= 2
      /\ Len(s) >= 2 => Len(t) >= 2
  <2>0. /\ Len(s) >= 1 => s[1].name = Identity
        /\ Len(s) >= 2 /\ ~s[1].bracket => s[2].name = Safety
    <3>1. Len(s) >= 1 => s # <<>>
      OBVIOUS
    <3> QED BY <3>1 DEF InOrder
  <2>1. CASE found
    <3>1. /\ Len(t) = Len(s) /\ Len(s) >= 1
          /\ \A i \in 1..Len(s) : t[i].name = s[i].name
          /\ \A i \in 1..Len(s) : s[i].bracket => t[i].bracket
      BY <1>3, <2>1 DEF PutFrom
    <3>2. /\ t[1].name = s[1].name /\ (s[1].bracket => t[1].bracket)
          /\ Len(s) >= 2 => t[2].name = s[2].name
      BY <1>1, <3>1
    <3>3. ASSUME Len(s) = 1, e.name = Safety PROVE FALSE
      <4>1. PICK i \in DOMAIN s : Matches(s[i], e.name)
        BY <2>1
      <4>2. s[1].name = Safety
        BY <1>1, <3>3, <4>1 DEF Matches
      <4> QED BY <2>0, <3>1, <4>2, MemDirAssumption
    <3> QED BY <1>1, <2>0, <3>1, <3>2, <3>3
  <2>2. CASE ~found
    <3>1. /\ Len(t) = Len(s) + 1 /\ t[Len(s) + 1] = e
          /\ \A i \in 1..Len(s) : t[i] = s[i]
      BY <1>3, <2>2 DEF PutFrom
    <3>2. CASE Len(s) = 0
      <4>1. s = <<>> /\ t[1] = e /\ Len(t) = 1
        BY <3>1, <3>2
      <4> QED BY <3>2, <4>1
    <3>3. CASE Len(s) = 1
      <4>1. t[1] = s[1] /\ t[2] = e /\ Len(t) = 2
        BY <3>1, <3>3
      <4>2. ~s[1].bracket => e.name # Identity
        <5>1. 1 \in DOMAIN s /\ s[1].name = Identity
          BY <1>1, <2>0, <3>3
        <5> QED BY <2>2, <5>1 DEF Matches
      <4>3. ~s[1].bracket => e.name = Safety
        BY <3>3, <4>2 DEF Pinned
      <4> QED BY <2>0, <3>3, <4>1, <4>3
    <3>4. CASE Len(s) >= 2
      <4>1. t[1] = s[1] /\ t[2] = s[2] /\ Len(t) >= 2
        BY <1>1, <3>1, <3>4
      <4> QED BY <1>1, <2>0, <3>4, <4>1
    <3> QED BY <1>1, <3>2, <3>3, <3>4
  <2> QED BY <2>1, <2>2
<1>6. InOrder(t)
  BY <1>3, <1>5 DEF InOrder
<1> HIDE DEF found
<1>7. PICK k \in 0..Len(t) : /\ Truncate(t) = SubSeq(t, 1, k) /\ Fits(SubSeq(t, 1, k))
                             /\ Len(t) >= 1 => k >= 1
                             /\ Len(t) >= 2 => k >= 2
  BY <1>3, TruncateKeeps
<1>8. r \in Seq(IndexEntries) /\ Len(r) = k /\ InOrder(r) /\ Fits(r)
  BY <1>3, <1>4, <1>6, <1>7, PrefixInOrder
<1> QED BY <1>5, <1>7, <1>8
-----------------------------------------------------------------------------
(* The operations                                                          *)

LEMMA ConcatOf ==
  ASSUME NEW S, NEW a \in Seq(S), NEW b \in Seq(S)
  PROVE  /\ a \o b \in Seq(S) /\ Len(a \o b) = Len(a) + Len(b)
         /\ \A i \in 1..Len(a) : (a \o b)[i] = a[i]
         /\ \A j \in 1..Len(b) : (a \o b)[Len(a) + j] = b[j]
<1>1. Len(a) \in Nat /\ Len(b) \in Nat
  OBVIOUS
<1>2. ASSUME NEW j \in 1..Len(b) PROVE (a \o b)[Len(a) + j] = b[j]
  <2>1. PICK i : i = Len(a) + j
    OBVIOUS
  <2>2. i \in 1..(Len(a) + Len(b)) /\ ~(i <= Len(a)) /\ i - Len(a) = j
    BY <1>1, <2>1
  <2> QED BY <2>1, <2>2, ConcatProperties
<1> QED BY <1>1, <1>2, ConcatProperties

LEMMA OperationTypes ==
  /\ \A n \in Names, c \in Contents :
       WriteOp(n, c) \in Operations /\ CreateOp(n, c) \in Operations
       /\ IndexOp(n, c) \in Operations
  /\ \A n \in Names : DeleteOp(n) \in Operations
  /\ SkipOp \in Operations /\ AskOp \in Operations
  /\ Identity \in Names /\ Safety \in Names /\ Identity # Safety
<1>1. Identity \in Names /\ Safety \in Names /\ Identity # Safety
  BY MemDirAssumption DEF Names
<1> QED BY <1>1 DEF WriteOp, CreateOp, IndexOp, DeleteOp, SkipOp, AskOp, Operations, Contents

\* The operations of a start and of a cycle.
LEMMA EnsureFacts ==
  /\ EnsureOps \in Seq(Operations) /\ Len(EnsureOps) = 4
  /\ CycleOps \in Seq(Operations) /\ Len(CycleOps) = 5
  /\ \A q \in {EnsureOps, CycleOps} :
       /\ q[1] = WriteOp(Identity, "generated") /\ q[2] = IndexOp(Identity, "generated")
       /\ q[3] = CreateOp(Safety, "template") /\ q[4] = IndexOp(Safety, "template")
  /\ CycleOps[5] = AskOp
<1>1. PICK a, b, d : a = IdentityOps /\ b = SafetyOps /\ d = <<AskOp>>
  OBVIOUS
<1>2. /\ WriteOp(Identity, "generated") \in Operations
      /\ IndexOp(Identity, "generated") \in Operations
      /\ CreateOp(Safety, "template") \in Operations
      /\ IndexOp(Safety, "template") \in Operations /\ AskOp \in Operations
  BY OperationTypes DEF Contents
<1>3. /\ a \in Seq(Operations) /\ Len(a) = 2
      /\ a[1] = WriteOp(Identity, "generated") /\ a[2] = IndexOp(Identity, "generated")
  BY <1>1, <1>2 DEF IdentityOps
<1>4. /\ b \in Seq(Operations) /\ Len(b) = 2
      /\ b[1] = CreateOp(Safety, "template") /\ b[2] = IndexOp(Safety, "template")
  BY <1>1, <1>2 DEF SafetyOps
<1>5. d \in Seq(Operations) /\ Len(d) = 1 /\ d[1] = AskOp
  BY <1>1, <1>2
<1>6. PICK q : q = a \o b
  OBVIOUS
<1>7. /\ q \in Seq(Operations) /\ Len(q) = 4 /\ q[1] = a[1] /\ q[2] = a[2]
      /\ q[3] = b[1] /\ q[4] = b[2]
  <2>1. /\ q \in Seq(Operations) /\ Len(q) = Len(a) + Len(b)
        /\ \A i \in 1..Len(a) : q[i] = a[i]
        /\ \A j \in 1..Len(b) : q[Len(a) + j] = b[j]
    BY <1>3, <1>4, <1>6, ConcatOf, SMTT(30)
  <2>2. q[2 + 1] = b[1] /\ q[2 + 2] = b[2]
    BY <1>3, <1>4, <2>1
  <2> QED BY <1>3, <1>4, <2>1, <2>2
<1>8. PICK r : r = q \o d
  OBVIOUS
<1>9. /\ r \in Seq(Operations) /\ Len(r) = 5 /\ r[1] = q[1] /\ r[2] = q[2]
      /\ r[3] = q[3] /\ r[4] = q[4] /\ r[5] = d[1]
  <2>1. /\ r \in Seq(Operations) /\ Len(r) = Len(q) + Len(d)
        /\ \A i \in 1..Len(q) : r[i] = q[i]
        /\ \A j \in 1..Len(d) : r[Len(q) + j] = d[j]
    <3>1. q \in Seq(Operations) /\ d \in Seq(Operations)
      BY <1>5, <1>7
    <3>2. /\ q \o d \in Seq(Operations) /\ Len(q \o d) = Len(q) + Len(d)
          /\ \A i \in 1..Len(q) : (q \o d)[i] = q[i]
          /\ \A j \in 1..Len(d) : (q \o d)[Len(q) + j] = d[j]
      BY <3>1, ConcatOf
    <3> QED BY <1>8, <3>2
  <2>2. r[4 + 1] = d[1]
    BY <1>5, <1>7, <2>1
  <2> QED BY <1>5, <1>7, <2>1, <2>2
<1>10. q = EnsureOps /\ r = CycleOps
  BY <1>1, <1>6, <1>8 DEF EnsureOps, CycleOps
<1> QED BY <1>3, <1>4, <1>5, <1>7, <1>9, <1>10

\* The operations of an upsert: they write what the plan says.
LEMMA UpsertKindsAre ==
  ASSUME NEW u \in Upserts, NEW first \in BOOLEAN, NEW o, o = UpsertOp(u, first)
  PROVE  /\ o \in Operations /\ o.op \in {"write", "index", "skip"}
         /\ o.op = "write" =>
              /\ first /\ u.content # "blank"
              /\ o.name = u.name /\ o.content = u.content
         /\ first /\ u.content # "blank" => o.op = "write"
         /\ u.content # "blank" /\ ~first => o.op = "index"
         /\ o.content \notin {"generated", "template"}
<1>1. CASE u.content = "blank"
  BY <1>1, OperationTypes DEF UpsertOp, SkipOp
<1>2. CASE u.content # "blank"
  <2>1. u.name \in Names /\ u.content \in PlanContents /\ u.content \in Contents
    <3>1. PlanKinds \subseteq PlanContents /\ Identity \in Names
      BY MemDirAssumption DEF PlanContents, Names
    <3> QED BY <1>2, <3>1 DEF Upserts, Blank, Contents
  <2>2. WriteOp(u.name, u.content) \in Operations /\ IndexOp(u.name, u.content) \in Operations
    BY <2>1, OperationTypes
  <2>3. CASE first
    <3>1. o = WriteOp(u.name, u.content)
      BY <1>2, <2>3 DEF UpsertOp
    <3>2. o.op = "write" /\ o.name = u.name /\ o.content = u.content
      BY <3>1 DEF WriteOp
    <3>3. o.content \notin {"generated", "template"}
      BY <2>1, <3>2 DEF PlanContents
    <3> QED BY <1>2, <2>2, <2>3, <3>1, <3>2, <3>3
  <2>4. CASE ~first
    <3>1. o = IndexOp(u.name, u.content)
      BY <1>2, <2>4 DEF UpsertOp
    <3>2. o.op = "index" /\ o.content = u.content
      BY <3>1 DEF IndexOp
    <3>3. o.content \notin {"generated", "template"}
      BY <2>1, <3>2 DEF PlanContents
    <3> QED BY <2>2, <2>4, <3>1, <3>2, <3>3
  <2> QED BY <2>3, <2>4
<1> QED BY <1>1, <1>2

\* A plan deletes first what it deletes, and then writes and indexes a file
\* for each upsert it does not skip.
ItemOf(q, p, i) ==
  /\ q[i].op \in {"write", "index", "skip"} /\ ~Ensures(q[i])
  /\ q[i].op = "write" =>
       /\ i + 1 \in 1..Len(q) /\ q[i + 1].op = "index"
       /\ \E u \in DOMAIN p.upserts :
            /\ i = Len(p.deletes) + 2 * u - 1 /\ p.upserts[u].content # "blank"
            /\ q[i].name = p.upserts[u].name

IsUpsert(q, p, u, i) ==
  /\ i = Len(p.deletes) + 2 * u - 1 /\ q[i].op = "write"
  /\ q[i].name = p.upserts[u].name /\ q[i].content = p.upserts[u].content

OpsOfPlan(q, p) ==
  /\ q \in Seq(Operations)
  /\ Len(q) = Len(p.deletes) + 2 * Len(p.upserts)
  /\ \A i \in 1..Len(p.deletes) : q[i] = DeleteOp(p.deletes[i])
  /\ \A i \in (Len(p.deletes) + 1)..Len(q) : ItemOf(q, p, i)
  /\ \A u \in DOMAIN p.upserts : p.upserts[u].content # "blank" =>
       \E i \in 1..Len(q) : IsUpsert(q, p, u, i)

LEMMA PlanFacts == ASSUME NEW p \in AnyPlans PROVE OpsOfPlan(PlanOps(p), p)
<1> SUFFICES ASSUME NEW q, q = PlanOps(p) PROVE OpsOfPlan(q, p)
  OBVIOUS
<1>1. PICK a, b : a = DeleteOps(p) /\ b = UpsertOps(p)
  OBVIOUS
<1>2. /\ p.deletes \in Seq(Names) /\ p.upserts \in Seq(Upserts)
      /\ Len(p.deletes) \in Nat /\ Len(p.upserts) \in Nat
      /\ DOMAIN p.deletes = 1..Len(p.deletes) /\ DOMAIN p.upserts = 1..Len(p.upserts)
      /\ \A i \in DOMAIN p.deletes : p.deletes[i] \in Names
      /\ \A i \in DOMAIN p.upserts : p.upserts[i] \in Upserts
  BY DEF AnyPlans
<1>3. /\ a \in Seq(Operations) /\ Len(a) = Len(p.deletes)
      /\ \A i \in 1..Len(p.deletes) : a[i] = DeleteOp(p.deletes[i])
  <2>1. \A i \in 1..Len(p.deletes) : DeleteOp(p.deletes[i]) \in Operations
    BY <1>2, OperationTypes
  <2>2. a = [i \in 1..Len(p.deletes) |-> DeleteOp(p.deletes[i])]
    BY <1>1, <1>2 DEF DeleteOps
  <2> QED BY <1>2, <2>1, <2>2
<1>4. ASSUME NEW i \in 1..(2 * Len(p.upserts))
      PROVE  (i + 1) \div 2 \in DOMAIN p.upserts
  BY <1>2
<1>5. ASSUME NEW i \in 1..(2 * Len(p.upserts))
      PROVE  /\ b[i] \in Operations /\ b[i].op \in {"write", "index", "skip"}
             /\ ~Ensures(b[i])
             /\ b[i].op = "write" =>
                  /\ i + 1 \in 1..(2 * Len(p.upserts)) /\ b[i + 1].op = "index"
                  /\ \E u \in DOMAIN p.upserts :
                       /\ i = 2 * u - 1 /\ p.upserts[u].content # "blank"
                       /\ p.upserts[u].name = b[i].name
  <2>1. PICK u, first : u = (i + 1) \div 2 /\ first = (i % 2 = 1)
    OBVIOUS
  <2>2. b[i] = UpsertOp(p.upserts[u], first)
    BY <1>1, <2>1 DEF UpsertOps
  <2>3. u \in DOMAIN p.upserts /\ first \in BOOLEAN /\ p.upserts[u] \in Upserts
    BY <1>2, <1>4, <2>1
  <2>4. /\ b[i] \in Operations /\ b[i].op \in {"write", "index", "skip"}
        /\ b[i].content \notin {"generated", "template"}
        /\ b[i].op = "write" =>
             first /\ p.upserts[u].content # "blank" /\ b[i].name = p.upserts[u].name
    BY <2>2, <2>3, UpsertKindsAre
  <2>5. ASSUME b[i].op = "write"
        PROVE  /\ i + 1 \in 1..(2 * Len(p.upserts)) /\ i = 2 * u - 1
               /\ b[i + 1].op = "index"
    <3>1. i % 2 = 1
      BY <2>1, <2>4, <2>5
    <3>2. PICK j : j = i + 1
      OBVIOUS
    <3>3. j \in 1..(2 * Len(p.upserts)) /\ (j + 1) \div 2 = u /\ j % 2 = 0 /\ i = 2 * u - 1
      <4>1. PICK n : n = Len(p.upserts)
        OBVIOUS
      <4>2. n \in Nat /\ i \in 1..(2 * n) /\ i % 2 = 1 /\ u = (i + 1) \div 2
        BY <1>2, <2>1, <3>1, <4>1
      <4>3. i = 2 * u - 1 /\ u \in 1..n
        BY <4>2
      <4> QED BY <3>2, <4>1, <4>2, <4>3
    <3>4. b[j] = UpsertOp(p.upserts[u], FALSE)
      <4>1. b[j] = UpsertOp(p.upserts[(j + 1) \div 2], j % 2 = 1)
        BY <1>1, <3>3 DEF UpsertOps
      <4>2. (j % 2 = 1) = FALSE
        BY <3>3
      <4> QED BY <3>3, <4>1, <4>2
    <3>5. b[j].op = "index"
      BY <2>3, <2>4, <2>5, <3>4, UpsertKindsAre
    <3> QED BY <3>2, <3>3, <3>5
  <2> QED BY <2>3, <2>4, <2>5 DEF Ensures
<1>6. b \in Seq(Operations) /\ Len(b) = 2 * Len(p.upserts)
  <2>1. PICK n : n = 2 * Len(p.upserts)
    OBVIOUS
  <2>2. n \in Nat /\ \A i \in 1..n : b[i] \in Operations
    BY <1>2, <1>5, <2>1
  <2>3. b \in [1..n -> Operations]
    BY <1>1, <2>1, <2>2 DEF UpsertOps
  <2> QED BY <2>1, <2>2, <2>3
<1>7. ASSUME NEW u \in DOMAIN p.upserts, p.upserts[u].content # "blank"
      PROVE  /\ 2 * u - 1 \in 1..(2 * Len(p.upserts))
             /\ b[2 * u - 1].op = "write" /\ b[2 * u - 1].name = p.upserts[u].name
             /\ b[2 * u - 1].content = p.upserts[u].content
  <2>1. PICK i : i = 2 * u - 1
    OBVIOUS
  <2>2. i \in 1..(2 * Len(p.upserts)) /\ (i + 1) \div 2 = u /\ i % 2 = 1
    BY <1>2, <2>1, SMTT(30)
  <2>3. b[i] = UpsertOp(p.upserts[u], TRUE)
    BY <1>1, <2>2 DEF UpsertOps
  <2>4. b[i].op = "write" /\ b[i].name = p.upserts[u].name
        /\ b[i].content = p.upserts[u].content
    BY <1>2, <1>7, <2>3, UpsertKindsAre, ZenonT(30)
  <2> QED BY <2>1, <2>2, <2>4
<1>8. q = a \o b
  BY <1>1 DEF PlanOps
<1>9. /\ q \in Seq(Operations) /\ Len(q) = Len(a) + Len(b)
      /\ \A i \in 1..Len(a) : q[i] = a[i]
      /\ \A j \in 1..Len(b) : q[Len(a) + j] = b[j]
  <2>1. a \in Seq(Operations) /\ b \in Seq(Operations)
    BY <1>3, <1>6
  <2>2. /\ a \o b \in Seq(Operations) /\ Len(a \o b) = Len(a) + Len(b)
        /\ \A i \in 1..Len(a) : (a \o b)[i] = a[i]
        /\ \A j \in 1..Len(b) : (a \o b)[Len(a) + j] = b[j]
    BY <2>1, ConcatOf
  <2> QED BY <1>8, <2>2
<1>10. ASSUME NEW i \in (Len(p.deletes) + 1)..Len(q)
       PROVE  ItemOf(q, p, i)
  <2>1. PICK j : j = i - Len(a)
    OBVIOUS
  <2>2. j \in 1..Len(b) /\ i = Len(a) + j
    <3>1. PICK m, n : m = Len(a) /\ n = Len(b)
      OBVIOUS
    <3>2. m \in Nat /\ n \in Nat /\ Len(q) = m + n /\ Len(p.deletes) = m
      BY <1>2, <1>3, <1>6, <1>9, <3>1
    <3>3. i \in (m + 1)..(m + n)
      BY <3>2
    <3> QED BY <2>1, <3>1, <3>2, <3>3
  <2>3. q[i] = b[j]
    BY <1>9, <2>2
  <2>4. j \in 1..(2 * Len(p.upserts))
    BY <1>6, <2>2
  <2>5. ASSUME q[i].op = "write"
        PROVE  /\ i + 1 \in 1..Len(q) /\ q[i + 1].op = "index"
               /\ \E u \in DOMAIN p.upserts :
                    /\ i = Len(p.deletes) + 2 * u - 1
                    /\ p.upserts[u].content # "blank"
                    /\ q[i].name = p.upserts[u].name
    <3>1. j + 1 \in 1..(2 * Len(p.upserts)) /\ b[j + 1].op = "index"
      BY <1>5, <2>3, <2>4, <2>5
    <3>2. PICK u \in DOMAIN p.upserts :
            /\ j = 2 * u - 1 /\ p.upserts[u].content # "blank"
            /\ p.upserts[u].name = b[j].name
      BY <1>5, <2>3, <2>4, <2>5
    <3>3. u \in Nat /\ i = Len(p.deletes) + 2 * u - 1
      BY <1>2, <1>3, <2>2, <3>2
    <3>4. PICK k : k = j + 1
      OBVIOUS
    <3>5. PICK m, n : m = Len(a) /\ n = Len(b)
      OBVIOUS
    <3>6. m \in Nat /\ n \in Nat /\ Len(q) = m + n /\ k \in 1..n /\ i + 1 = m + k
      <4>1. m \in Nat /\ n \in Nat /\ Len(q) = m + n /\ n = 2 * Len(p.upserts)
        BY <1>2, <1>3, <1>6, <1>9, <3>5
      <4>2. j \in 1..n /\ i = m + j
        BY <2>2, <3>5
      <4> QED BY <3>1, <3>4, <4>1, <4>2
    <3>7. i + 1 \in 1..Len(q) /\ q[i + 1] = b[k]
      BY <1>9, <3>5, <3>6
    <3> QED BY <2>3, <3>1, <3>2, <3>3, <3>4, <3>7
  <2> QED BY <1>5, <2>3, <2>4, <2>5 DEF ItemOf
<1>11. ASSUME NEW u \in DOMAIN p.upserts, p.upserts[u].content # "blank",
              NEW i, i = Len(p.deletes) + 2 * u - 1
       PROVE  /\ i \in 1..Len(q) /\ q[i].op = "write" /\ q[i].name = p.upserts[u].name
              /\ q[i].content = p.upserts[u].content
  <2>1. PICK j : j = 2 * u - 1
    OBVIOUS
  <2>2. j \in 1..(2 * Len(p.upserts)) /\ i = Len(a) + j
    BY <1>2, <1>3, <1>7, <1>11, <2>1
  <2>3. i \in 1..Len(q) /\ q[i] = b[j]
    <3>1. PICK m, n : m = Len(a) /\ n = Len(b)
      OBVIOUS
    <3>2. m \in Nat /\ n \in Nat /\ Len(q) = m + n /\ j \in 1..n /\ i = m + j
      BY <1>2, <1>3, <1>6, <1>9, <2>2, <3>1
    <3>3. q[m + j] = b[j]
      BY <1>9, <3>1, <3>2
    <3> QED BY <3>2, <3>3
  <2> QED BY <1>7, <1>11, <2>1, <2>3
<1>12. \A i \in 1..Len(p.deletes) : q[i] = DeleteOp(p.deletes[i])
  BY <1>2, <1>3, <1>6, <1>9
<1>13. ASSUME NEW u \in DOMAIN p.upserts, p.upserts[u].content # "blank"
       PROVE  \E i \in 1..Len(q) : IsUpsert(q, p, u, i)
  <2>1. PICK i : i = Len(p.deletes) + 2 * u - 1
    OBVIOUS
  <2> QED BY <1>11, <1>13, <2>1 DEF IsUpsert
<1>14. Len(q) = Len(p.deletes) + 2 * Len(p.upserts)
  BY <1>3, <1>6, <1>9
<1>15. q \in Seq(Operations)
  BY <1>9
<1> QED BY <1>10, <1>12, <1>13, <1>14, <1>15, Zenon DEF OpsOfPlan
-----------------------------------------------------------------------------
(* The steps                                                               *)

\* A prefix of an index that fits, fits.
LEMMA PrefixFits ==
  ASSUME NEW s \in Seq(IndexEntries), Fits(s), NEW k \in 0..Len(s)
  PROVE  Fits(SubSeq(s, 1, k))
<1>1. PICK t : t = SubSeq(s, 1, k)
  OBVIOUS
<1>2. /\ Len(t) = k /\ DOMAIN t = 1..k /\ Len(s) \in Nat /\ k \in Nat
      /\ DOMAIN s = 1..Len(s) /\ \A i \in 1..k : t[i] = s[i]
  BY <1>1
<1> DEFINE a == {i \in DOMAIN t : t[i].long}
           b == {i \in DOMAIN s : s[i].long}
<1>3. a \subseteq b /\ b \subseteq 1..Len(s)
  BY <1>2
<1>4. IsFiniteSet(1..Len(s))
  <2>1. 1 \in Int /\ Len(s) \in Int
    BY <1>2
  <2> QED BY <2>1, FS_Interval
<1> HIDE DEF a, b
<1>5. IsFiniteSet(b)
  BY <1>3, <1>4, FS_Subset
<1>6. IsFiniteSet(a) /\ Cardinality(a) <= Cardinality(b)
  BY <1>3, <1>5, FS_Subset
<1>7. Cardinality(a) \in Nat /\ Cardinality(b) \in Nat
  BY <1>5, <1>6, FS_CardinalityType
<1>8. BytesOf(t) <= BytesOf(s) /\ BytesOf(t) \in Nat /\ BytesOf(s) \in Nat
  BY <1>2, <1>6, <1>7 DEF BytesOf, a, b
<1>9. LinesOf(t) <= LinesOf(s) /\ LinesOf(t) \in Nat /\ LinesOf(s) \in Nat
  <2>1. s = <<>> => k = 0
    BY <1>2
  <2>2. t # <<>> => k >= 1
    BY <1>2
  <2> QED BY <1>2, <2>1, <2>2 DEF LinesOf
<1>10. Fits(t)
  BY <1>8, <1>9, MemDirAssumption DEF Fits
<1> QED BY <1>1, <1>10

\* The next operation, and where it stands.
LEMMA NextOpIs ==
  ASSUME MemDirInv, ~AtRest
  PROVE  /\ NextOp \in Operations /\ done \in Nat /\ Len(ops) \in Nat
         /\ done + 1 \in 1..Len(ops)
         /\ \/ /\ Ensuring /\ done \in 0..4 /\ 4 <= Len(ops)
               /\ done = 0 => NextOp = WriteOp(Identity, "generated")
               /\ done = 1 => NextOp = IndexOp(Identity, "generated")
               /\ done = 2 => NextOp = CreateOp(Safety, "template")
               /\ done = 3 => NextOp = IndexOp(Safety, "template")
               /\ done = 4 => NextOp = AskOp
            \/ /\ Applying /\ OpsOfPlan(ops, plan) /\ ~Ensures(NextOp)
               /\ NextOp.op \in {"delete", "write", "index", "skip"}
               /\ NextOp.op = "write" =>
                    done + 2 \in 1..Len(ops) /\ ops[done + 2].op = "index"
               /\ NextOp.op = "delete" => done + 1 \in 1..Len(plan.deletes)
               /\ NextOp.op \in {"write", "delete"} =>
                    \/ \E d \in DOMAIN plan.deletes : plan.deletes[d] = NextOp.name
                    \/ \E u \in DOMAIN plan.upserts : plan.upserts[u].name = NextOp.name
<1>1. /\ done \in Nat /\ Len(ops) \in Nat /\ done + 1 \in 1..Len(ops)
      /\ ops \in Seq(Operations) /\ NextOp \in Operations
  BY DEF MemDirInv, MemDirShape, AtRest, NextOp
<1>2. CASE Stopped
  BY <1>1, <1>2 DEF Stopped
<1>3. CASE Ensuring
  <2>1. ops \in {EnsureOps, CycleOps}
    BY <1>3 DEF Ensuring
  <2>2. /\ ops[1] = WriteOp(Identity, "generated") /\ ops[2] = IndexOp(Identity, "generated")
        /\ ops[3] = CreateOp(Safety, "template") /\ ops[4] = IndexOp(Safety, "template")
        /\ Len(ops) = 4 \/ (Len(ops) = 5 /\ ops[5] = AskOp)
    BY <2>1, EnsureFacts
  <2>3. done \in 0..4 /\ 4 <= Len(ops)
    <3>1. Len(ops) \in {4, 5}
      BY <2>1, EnsureFacts
    <3>2. PICK n : n = Len(ops)
      OBVIOUS
    <3>3. n \in {4, 5} /\ done \in Nat /\ done + 1 \in 1..n
      BY <1>1, <3>1, <3>2
    <3> QED BY <3>2, <3>3
  <2> QED BY <1>1, <1>3, <2>2, <2>3 DEF NextOp
<1>4. CASE Applying
  <2>1. OpsOfPlan(ops, plan) /\ plan \in AnyPlans
    BY <1>4, PlanFacts DEF Applying, MemDirInv, MemDirShape
  <2>2. PICK i : i = done + 1
    OBVIOUS
  <2>3. NextOp = ops[i] /\ i \in 1..Len(ops) /\ Len(plan.deletes) \in Nat
        /\ DOMAIN plan.deletes = 1..Len(plan.deletes)
    BY <1>1, <2>1, <2>2 DEF NextOp, AnyPlans
  <2>4. CASE i \in 1..Len(plan.deletes)
    <3>1. NextOp = DeleteOp(plan.deletes[i])
      BY <2>1, <2>3, <2>4 DEF OpsOfPlan
    <3>2. NextOp.op = "delete" /\ NextOp.name = plan.deletes[i] /\ ~Ensures(NextOp)
      BY <3>1 DEF DeleteOp, Ensures
    <3> QED BY <1>1, <1>4, <2>1, <2>2, <2>3, <2>4, <3>2
  <2>5. CASE i \in (Len(plan.deletes) + 1)..Len(ops)
    <3>1. /\ NextOp.op \in {"write", "index", "skip"} /\ ~Ensures(NextOp)
          /\ NextOp.op = "write" =>
               /\ i + 1 \in 1..Len(ops) /\ ops[i + 1].op = "index"
               /\ \E u \in DOMAIN plan.upserts : plan.upserts[u].name = NextOp.name
      <4>1. ItemOf(ops, plan, i)
        BY <2>1, <2>5, Zenon DEF OpsOfPlan
      <4> QED BY <2>3, <4>1 DEF ItemOf
    <3>2. i + 1 = done + 2
      BY <1>1, <2>2
    <3> QED BY <1>1, <1>4, <2>1, <3>1, <3>2
  <2> QED BY <2>3, <2>4, <2>5
<1> QED BY <1>1, <1>2, <1>3, <1>4 DEF MemDirInv

\* No plan has put an entry into an index without the pinned files, and the
\* next operation does not either.
Undisturbed ==
  order # "lost" /\ ~(order = "short" /\ NextOp.op = "index" /\ ~Ensures(NextOp))

LEMMA OrderAfterIs ==
  ASSUME MemDirInv, NEW s, NEW failed \in BOOLEAN, NEW o, o = OrderAfter(s, failed)
  PROVE  /\ o \in {"kept", "short", "lost"}
         /\ o # "lost" => Undisturbed
         /\ o = "kept" => Len(s) >= 2 \/ (order = "kept" /\ ~failed)
<1>1. order \in {"kept", "short", "lost"}
  BY DEF MemDirInv, MemDirShape
<1> QED BY <1>1 DEF OrderAfter, Undisturbed

\* What an operation makes of the index.
LEMMA IndexKept ==
  ASSUME MemDirInv, ~AtRest, NEW r, r = IndexAfter(NextOp)
  PROVE  /\ GoodIndex(r)
         /\ Undisturbed =>
              /\ InOrder(r)
              /\ Len(index) >= 1 => Len(r) >= 1
              /\ Len(index) >= 2 => Len(r) >= 2
              /\ NextOp.op = "index" => Len(r) >= 1
              /\ NextOp = IndexOp(Safety, "template") /\ Len(index) >= 1 => Len(r) >= 2
<1>1. GoodIndex(index) /\ index \in Seq(IndexEntries) /\ Len(index) \in Nat
      /\ (Undisturbed => InOrder(index))
  BY DEF MemDirInv, IndexHolds, GoodIndex, Undisturbed
<1>2. CASE NextOp.op # "index"
  <2>1. NextOp # IndexOp(Safety, "template")
    BY <1>2 DEF IndexOp
  <2> QED BY <1>1, <1>2, <2>1 DEF IndexAfter
<1>3. CASE NextOp.op = "index"
  <2>1. PICK e : e = EntryOf(NextOp)
    OBVIOUS
  <2>2. e \in IndexEntries /\ e.name = NextOp.name
    BY <2>1, NextOpIs DEF EntryOf, IndexEntries, Operations
  <2>3. r = UpsertEntry(index, e)
    BY <1>3, <2>1 DEF IndexAfter
  <2>4. GoodIndex(r)
    BY <1>1, <2>2, <2>3, UpsertKeepsFound
  <2>5. ASSUME Undisturbed
        PROVE  Len(index) >= 2 \/ NextOp.name = Identity
                 \/ (NextOp = IndexOp(Safety, "template") /\ NextOp.name = Safety /\ Len(index) >= 1)
    <3>1. CASE Applying /\ ~Ensures(NextOp)
      <4>1. order = "kept"
        BY <1>3, <2>5, <3>1 DEF Undisturbed, MemDirInv, MemDirShape
      <4> QED BY <3>1, <4>1 DEF Applying
    <3>2. CASE Ensuring /\ done = 1 /\ NextOp = IndexOp(Identity, "generated")
      BY <3>2 DEF IndexOp
    <3>3. CASE Ensuring /\ done = 3 /\ NextOp = IndexOp(Safety, "template")
      <4>1. Len(index) >= 1
        BY <2>5, <3>3 DEF Ensuring, Undisturbed
      <4> QED BY <3>3, <4>1 DEF IndexOp
    <3>4. WriteOp(Identity, "generated").op # "index" /\ AskOp.op # "index"
          /\ CreateOp(Safety, "template").op # "index"
      BY DEF WriteOp, CreateOp, AskOp
    <3> QED BY <1>3, <3>1, <3>2, <3>3, <3>4, NextOpIs
  <2>6. ASSUME Undisturbed
        PROVE  /\ index = <<>> => e.name = Identity
               /\ Len(index) = 1 /\ ~index[1].bracket => e.name \in Pinned
    <3>1. index = <<>> => Len(index) = 0
      OBVIOUS
    <3>2. Len(index) = 1 => ~(Len(index) >= 2)
      BY <1>1
    <3>3. Len(index) = 0 => ~(Len(index) >= 2) /\ ~(Len(index) >= 1)
      BY <1>1
    <3> QED BY <2>2, <2>5, <2>6, <3>1, <3>2, <3>3 DEF Pinned
  <2>7. ASSUME Undisturbed
        PROVE  /\ InOrder(r) /\ Len(r) >= 1
               /\ Len(index) >= 2 => Len(r) >= 2
               /\ Len(index) = 1 /\ e.name = Safety => Len(r) >= 2
    <3>1. InOrder(index)
      BY <1>1, <2>7
    <3>2. /\ index = <<>> => e.name = Identity
          /\ Len(index) = 1 /\ ~index[1].bracket => e.name \in Pinned
      BY <2>6, <2>7
    <3> QED BY <1>1, <2>2, <2>3, <3>1, <3>2, UpsertKeepsOrder
  <2>8. NextOp = IndexOp(Safety, "template") => NextOp.name = Safety
    BY DEF IndexOp
  <2>9. Len(index) >= 1 => Len(index) >= 2 \/ Len(index) = 1
    <3>1. PICK n : n = Len(index)
      OBVIOUS
    <3>2. n \in Nat
      BY <1>1, <3>1
    <3> QED BY <3>1, <3>2
  <2> QED BY <2>2, <2>4, <2>7, <2>8, <2>9
<1> QED BY <1>2, <1>3

\* What is left of the index by an operation that does not come to its end.
LEMMA IndexTornKept ==
  ASSUME MemDirInv, ~AtRest, NEW s \in IndexesTornBy(NextOp) \cup {index}
  PROVE  GoodIndex(s) /\ (Undisturbed => InOrder(s))
<1>1. CASE s = index
  BY <1>1 DEF MemDirInv, IndexHolds, Undisturbed
<1>2. CASE s # index
  <2>1. PICK r : r = IndexAfter(NextOp)
    OBVIOUS
  <2>2. GoodIndex(r) /\ (Undisturbed => InOrder(r)) /\ r \in Seq(IndexEntries)
    BY <2>1, IndexKept DEF GoodIndex
  <2>3. PICK k \in 0..Len(r) : s = SubSeq(r, 1, k)
    BY <1>2, <2>1 DEF IndexesTornBy
  <2>4. GoodIndex(s)
    BY <2>2, <2>3, PrefixFinds, PrefixFits DEF GoodIndex
  <2>5. Undisturbed => InOrder(s)
    BY <2>2, <2>3, PrefixInOrder
  <2> QED BY <2>4, <2>5
<1> QED BY <1>1, <1>2

LEMMA FilesKept ==
  ASSUME MemDirShape, NEW o \in Operations
  PROVE  FilesAfter(o) \in [Names -> Contents] /\ FilesTornBy(o) \in [Names -> Contents]
<1>1. /\ files \in [Names -> Contents] /\ o.name \in Names /\ o.content \in Contents
      /\ "torn" \in Contents
  BY DEF MemDirShape, Operations, Contents
<1> QED BY <1>1 DEF FilesAfter, FilesTornBy

\* Begin and end of a start, a cycle and a plan.
LEMMA MemDirStarts == MdInit => MemDirInv
<1> SUFFICES ASSUME MdInit PROVE MemDirInv
  OBVIOUS
<1>1. index \in Seq(IndexEntries) /\ Len(index) = 0 /\ ops \in Seq(Operations) /\ Len(ops) = 0
      /\ index = <<>>
  BY DEF MdInit
<1>2. Fits(index)
  <2>1. Len(index) <= 2
    BY <1>1
  <2> QED BY <1>1, <2>1, TwoFit
<1>3. files \in [Names -> Contents]
  BY DEF MdInit, Contents
<1>4. plan \in AnyPlans /\ done \in 0..Len(ops)
  BY <1>1 DEF MdInit, NoPlan, AnyPlans
<1>5. NoTwoFound(index) /\ InOrder(index)
  BY <1>1 DEF NoTwoFound, InOrder
<1>6. failures \in 0..MaxFailures /\ missed \subseteq Names /\ order = "kept"
  BY MemDirAssumption DEF MdInit
<1> QED BY <1>1, <1>2, <1>3, <1>4, <1>5, <1>6
        DEF MdInit, MemDirInv, MemDirShape, IndexHolds, GoodIndex, Stopped

\* The index is as it was.
LEMMA IndexStays ==
  ASSUME MemDirInv, UNCHANGED <<index, order>>
  PROVE  IndexHolds'
BY DEF MemDirInv, IndexHolds, GoodIndex, Fits, LinesOf, BytesOf, InOrder, NoTwoFound

\* The index becomes one that is left by the next operation.
LEMMA IndexBecomes ==
  ASSUME MemDirInv, NEW failed \in BOOLEAN, order' = OrderAfter(index', failed),
         GoodIndex(index'), Undisturbed => InOrder(index')
  PROVE  /\ IndexHolds' /\ order' \in {"kept", "short", "lost"}
         /\ order' # "lost" => Undisturbed
         /\ order' = "kept" => Len(index') >= 2 \/ (order = "kept" /\ ~failed)
<1>1. PICK s, o : s = index' /\ o = order'
  OBVIOUS
<1>2. /\ o \in {"kept", "short", "lost"} /\ (o # "lost" => Undisturbed)
      /\ o = "kept" => Len(s) >= 2 \/ (order = "kept" /\ ~failed)
  BY <1>1, OrderAfterIs
<1>3. GoodIndex(index)' /\ (order' # "lost" => InOrder(index)')
  BY <1>1, <1>2 DEF GoodIndex, Fits, LinesOf, BytesOf, InOrder, NoTwoFound
<1> QED BY <1>1, <1>2, <1>3 DEF IndexHolds

LEMMA EnsuringBegins ==
  ASSUME MemDirInv, StartAgent \/ Consolidate
  PROVE  MemDirInv'
<1>1. ops' \in {EnsureOps, CycleOps} /\ done' = 0 /\ plan' = NoPlan /\ missed' = {}
      /\ UNCHANGED <<files, index, failures, order>> /\ agentUp'
  BY DEF StartAgent, Consolidate, Run, CycleOps, MemDirInv, MemDirShape
<1>2. ops' \in Seq(Operations) /\ Len(ops') \in Nat
  BY <1>1, EnsureFacts
<1>3. NoPlan \in AnyPlans
  BY DEF NoPlan, AnyPlans
<1>4. MemDirShape'
  BY <1>1, <1>2, <1>3 DEF MemDirInv, MemDirShape
<1>5. IndexHolds'
  BY <1>1, IndexStays
<1>6. Ensuring'
  BY <1>1 DEF Ensuring
<1> QED BY <1>4, <1>5, <1>6 DEF MemDirInv

LEMMA AnswerKeeps ==
  ASSUME MemDirInv, NEW p \in Plans, Answer(p)
  PROVE  MemDirInv'
<1>1. /\ ops' = PlanOps(p) /\ done' = 0 /\ plan' = p /\ missed' = {}
      /\ UNCHANGED <<files, index, agentUp, failures, order>>
      /\ ~AtRest /\ NextOp.op = "ask"
  BY DEF Answer, Run
<1>2. p \in AnyPlans
  <2>1. \A S, n : UpTo(S, n) \subseteq Seq(S) \/ n \notin Nat
    BY DEF UpTo
  <2>2. PICK k \in 0..MaxItems :
          p \in [deletes : UpTo(Names, k), upserts : UpTo(Upserts, MaxItems - k)]
    BY DEF Plans
  <2>3. k \in Nat /\ MaxItems - k \in Nat
    BY MemDirAssumption
  <2>4. UpTo(Names, k) \subseteq Seq(Names) /\ UpTo(Upserts, MaxItems - k) \subseteq Seq(Upserts)
    BY <2>1, <2>3
  <2> QED BY <2>2, <2>4 DEF AnyPlans
<1>3. ops' \in Seq(Operations) /\ Len(ops') \in Nat
  <2>1. OpsOfPlan(PlanOps(p), p)
    BY <1>2, PlanFacts
  <2>2. PlanOps(p) \in Seq(Operations)
    BY <2>1 DEF OpsOfPlan
  <2> QED BY <1>1, <2>2
<1>4. MemDirShape'
  BY <1>1, <1>2, <1>3 DEF MemDirInv, MemDirShape
<1>5. IndexHolds'
  BY <1>1, IndexStays
<1>6. agentUp /\ (order = "kept" => Len(index) >= 2)
  <2>1. /\ WriteOp(Identity, "generated").op # "ask" /\ IndexOp(Identity, "generated").op # "ask"
        /\ CreateOp(Safety, "template").op # "ask" /\ IndexOp(Safety, "template").op # "ask"
    BY DEF WriteOp, CreateOp, IndexOp
  <2>2. CASE Ensuring /\ done = 4
    BY <2>2 DEF Ensuring
  <2>3. Ensuring /\ done = 4
    BY <1>1, <2>1, NextOpIs
  <2> QED BY <2>2, <2>3
<1>7. Applying'
  <2>1. WritesHold'
    BY <1>1 DEF WritesHold
  <2> QED BY <1>1, <1>6, <2>1 DEF Applying
<1> QED BY <1>4, <1>5, <1>7 DEF MemDirInv

\* The types of the operations of a plan that are done.
LEMMA DoneTyped ==
  ASSUME MemDirShape, NEW m \in 1..Len(ops)
  PROVE  ops[m] \in Operations /\ ops[m].name \in Names /\ ops[m].content \in Contents
<1>1. ops[m] \in Operations
  BY DEF MemDirShape
<1> QED BY <1>1 DEF Operations

\* Operations done and failed leave the files as the plan says.
LEMMA DoneWritesHold ==
  ASSUME MemDirInv, ~AtRest, Applying, OpsOfPlan(ops, plan),
         files' = FilesAfter(NextOp), done' = done + 1, UNCHANGED ops,
         missed' = IF NextOp.op \in {"write", "delete"}
                     THEN missed \ {NextOp.name} ELSE missed,
         NextOp.op \in {"delete", "write", "index", "skip"},
         NextOp.op = "delete" => done + 1 \in 1..Len(plan.deletes)
  PROVE  WritesHold'
<1>1. /\ done \in Nat /\ Len(ops) \in Nat /\ done + 1 \in 1..Len(ops)
      /\ files \in [Names -> Contents] /\ NextOp = ops[done + 1]
  BY NextOpIs DEF MemDirInv, MemDirShape, NextOp
<1> SUFFICES ASSUME NEW m \in 1..(done + 1), ops[m].op \in {"write", "delete"},
                    ops[m].name \notin missed' \cup {Safety},
                    \A k \in (m + 1)..(done + 1) :
                      ops[k].op = "write" => ops[k].name # ops[m].name
             PROVE  files'[ops[m].name] = ops[m].content
  BY DEF WritesHold
<1>2. ops[m].name \in Names /\ NextOp.name \in Names
  <2>1. m \in 1..Len(ops)
    BY <1>1
  <2> QED BY <1>1, <2>1, DoneTyped DEF MemDirInv
<1>3. CASE m = done + 1
  BY <1>1, <1>2, <1>3 DEF FilesAfter
<1>4. CASE m \in 1..done /\ ~(NextOp.op \in {"write", "delete"} /\ NextOp.name = ops[m].name)
  <2>1. files'[ops[m].name] = files[ops[m].name] /\ ops[m].name \notin missed \cup {Safety}
    BY <1>1, <1>2, <1>4 DEF FilesAfter
  <2>2. \A k \in (m + 1)..done : ops[k].op = "write" => ops[k].name # ops[m].name
    BY <1>1
  <2>3. files[ops[m].name] = ops[m].content
    BY <1>4, <2>1, <2>2 DEF Applying, WritesHold
  <2> QED BY <2>1, <2>3
<1>5. CASE m \in 1..done /\ NextOp.op \in {"write", "delete"} /\ NextOp.name = ops[m].name
  <2>1. NextOp.op # "write"
    <3>1. done + 1 \in (m + 1)..(done + 1)
      BY <1>1, <1>5
    <3> QED BY <1>1, <1>5, <3>1
  <2>2. NextOp.op = "delete" /\ done + 1 \in 1..Len(plan.deletes)
    BY <1>5, <2>1
  <2>3. Len(plan.deletes) \in Nat
    BY DEF MemDirInv, MemDirShape, AnyPlans
  <2>4. m \in 1..Len(plan.deletes)
    BY <1>1, <1>5, <2>2, <2>3
  <2>5. ops[m] = DeleteOp(plan.deletes[m]) /\ NextOp = DeleteOp(plan.deletes[done + 1])
    BY <1>1, <2>2, <2>4 DEF OpsOfPlan
  <2> QED BY <1>1, <1>2, <1>5, <2>2, <2>5 DEF FilesAfter, DeleteOp
<1> QED BY <1>1, <1>3, <1>4, <1>5

LEMMA FailedWritesHold ==
  ASSUME MemDirInv, ~AtRest, Applying, UNCHANGED ops, NEW step \in {1, 2},
         files' \in {files, FilesTornBy(NextOp)}, done' = done + step,
         missed' = IF NextOp.op \in {"write", "delete"}
                     THEN missed \cup {NextOp.name} ELSE missed,
         NextOp.op \in {"delete", "write", "index"},
         step = 2 => NextOp.op = "write" /\ done + 2 \in 1..Len(ops)
                       /\ ops[done + 2].op = "index"
  PROVE  WritesHold'
<1>1. /\ done \in Nat /\ Len(ops) \in Nat /\ done + 1 \in 1..Len(ops)
      /\ files \in [Names -> Contents] /\ NextOp = ops[done + 1]
  BY NextOpIs DEF MemDirInv, MemDirShape, NextOp
<1> SUFFICES ASSUME NEW m \in 1..(done + step), ops[m].op \in {"write", "delete"},
                    ops[m].name \notin missed' \cup {Safety},
                    \A k \in (m + 1)..(done + step) :
                      ops[k].op = "write" => ops[k].name # ops[m].name
             PROVE  files'[ops[m].name] = ops[m].content
  BY DEF WritesHold
<1>2. ops[m].name \in Names /\ NextOp.name \in Names
  <2>1. m \in 1..Len(ops)
    BY <1>1
  <2> QED BY <1>1, <2>1, DoneTyped DEF MemDirInv
<1>3. m # done + 1
  BY <1>1
<1>4. ~(step = 2 /\ m = done + 2)
  OBVIOUS
<1>5. m \in 1..done
  BY <1>1, <1>3, <1>4
<1>6. ops[m].name \notin missed \cup {Safety}
  OBVIOUS
<1>7. files'[ops[m].name] = files[ops[m].name]
  BY <1>1, <1>2 DEF FilesTornBy
<1>8. \A k \in (m + 1)..done : ops[k].op = "write" => ops[k].name # ops[m].name
  BY <1>1
<1>9. files[ops[m].name] = ops[m].content
  BY <1>5, <1>6, <1>8 DEF Applying, WritesHold
<1> QED BY <1>7, <1>9

LEMMA DoOpKeeps ==
  ASSUME MemDirInv, DoOp
  PROVE  MemDirInv'
<1>1. /\ ~AtRest /\ NextOp.op # "ask" /\ files' = FilesAfter(NextOp)
      /\ index' = IndexAfter(NextOp) /\ done' = done + 1
      /\ UNCHANGED <<agentUp, ops, plan, failures>>
      /\ missed' = IF NextOp.op \in {"write", "delete"}
                     THEN missed \ {NextOp.name} ELSE missed
      /\ order' = OrderAfter(index', FALSE)
  BY DEF DoOp
<1>2. /\ NextOp \in Operations /\ done \in Nat /\ Len(ops) \in Nat /\ done + 1 \in 1..Len(ops)
  BY <1>1, NextOpIs
<1>3. /\ GoodIndex(index')
      /\ Undisturbed =>
           /\ InOrder(index')
           /\ Len(index) >= 1 => Len(index') >= 1
           /\ Len(index) >= 2 => Len(index') >= 2
           /\ NextOp.op = "index" => Len(index') >= 1
           /\ NextOp = IndexOp(Safety, "template") /\ Len(index) >= 1 => Len(index') >= 2
  <2>1. PICK r : r = IndexAfter(NextOp)
    OBVIOUS
  <2> QED BY <1>1, <2>1, IndexKept
<1>4. /\ IndexHolds' /\ order' \in {"kept", "short", "lost"}
      /\ order' # "lost" => Undisturbed
      /\ order' = "kept" => Len(index') >= 2 \/ order = "kept"
  BY <1>1, <1>3, IndexBecomes
<1>5. MemDirShape'
  <2>1. files' \in [Names -> Contents]
    BY <1>1, <1>2, FilesKept DEF MemDirInv
  <2>2. missed' \subseteq Names
    BY <1>1 DEF MemDirInv, MemDirShape
  <2>3. done' \in 0..Len(ops')
    BY <1>1, <1>2
  <2>4. /\ ops \in Seq(Operations) /\ plan \in AnyPlans /\ failures \in 0..MaxFailures
        /\ UNCHANGED <<ops, plan, failures>>
    BY <1>1 DEF MemDirInv, MemDirShape
  <2> QED BY <1>4, <2>1, <2>2, <2>3, <2>4 DEF MemDirShape
<1>6. CASE /\ Ensuring /\ done \in 0..4
           /\ done = 1 => NextOp = IndexOp(Identity, "generated")
           /\ done = 3 => NextOp = IndexOp(Safety, "template")
           /\ done = 4 => NextOp = AskOp
  <2>1. done # 4
    BY <1>1, <1>6 DEF AskOp
  <2>2. IndexOp(Identity, "generated").op = "index"
    BY DEF IndexOp
  <2>3. ASSUME order' # "lost", done' \in {2, 3} PROVE Len(index') >= 1
    <3>1. done \in {1, 2} /\ Undisturbed /\ order # "lost"
      BY <1>1, <1>2, <1>4, <2>3 DEF Undisturbed
    <3>2. CASE done = 1
      BY <1>3, <1>6, <2>2, <3>1, <3>2
    <3>3. CASE done = 2
      BY <1>3, <1>6, <3>1, <3>3 DEF Ensuring
    <3> QED BY <3>1, <3>2, <3>3
  <2>4. ASSUME order' = "kept", done' >= 4 PROVE Len(index') >= 2
    <3>1. done = 3 /\ Undisturbed /\ order # "lost"
      <4>1. done = 3
        BY <1>1, <1>6, <2>1, <2>4
      <4>2. Undisturbed
        BY <1>4, <2>4
      <4> QED BY <4>1, <4>2 DEF Undisturbed
    <3> QED BY <1>3, <1>6, <3>1 DEF Ensuring
  <2>5. Ensuring'
    BY <1>1, <1>6, <2>3, <2>4 DEF Ensuring
  <2> QED BY <1>4, <1>5, <2>5 DEF MemDirInv
<1>7. CASE /\ Applying /\ OpsOfPlan(ops, plan)
           /\ NextOp.op \in {"delete", "write", "index", "skip"}
           /\ NextOp.op = "delete" => done + 1 \in 1..Len(plan.deletes)
  <2>1. WritesHold'
    BY <1>1, <1>7, DoneWritesHold
  <2>2. ASSUME order' = "kept" PROVE Len(index') >= 2
    <3>1. order = "kept" => Len(index) >= 2 /\ Undisturbed
      BY <1>7 DEF Applying, Undisturbed
    <3> QED BY <1>3, <1>4, <2>2, <3>1
  <2>3. Applying'
    BY <1>1, <1>7, <2>1, <2>2 DEF Applying
  <2> QED BY <1>4, <1>5, <2>3 DEF MemDirInv
<1> QED BY <1>1, <1>6, <1>7, NextOpIs

\* An operation that does not come to its end.
LEMMA InterruptedIs ==
  ASSUME MemDirInv, ~AtRest, Interrupted
  PROVE  /\ files' \in {files, FilesTornBy(NextOp)} /\ files' \in [Names -> Contents]
         /\ GoodIndex(index') /\ (Undisturbed => InOrder(index'))
         /\ failures' \in 0..MaxFailures
<1>1. files' \in {files, FilesTornBy(NextOp)}
      /\ index' \in IndexesTornBy(NextOp) \cup {index}
  BY DEF Interrupted
<1>2. files' \in [Names -> Contents]
  BY <1>1, NextOpIs, FilesKept DEF MemDirInv, MemDirShape
<1>3. GoodIndex(index') /\ (Undisturbed => InOrder(index'))
  <2>1. PICK s : s = index'
    OBVIOUS
  <2> QED BY <1>1, <2>1, IndexTornKept
<1>4. failures' \in 0..MaxFailures
  BY MemDirAssumption DEF Interrupted, MemDirInv, MemDirShape
<1> QED BY <1>1, <1>2, <1>3, <1>4

LEMMA FailOpKeeps ==
  ASSUME MemDirInv, FailOp
  PROVE  MemDirInv'
<1>1. /\ ~AtRest /\ NextOp.op \notin {"ask", "skip"} /\ Interrupted
      /\ done' = AfterFailure(NextOp)
      /\ UNCHANGED <<agentUp, ops, plan>>
      /\ missed' = IF NextOp.op \in {"write", "delete"}
                     THEN missed \cup {NextOp.name} ELSE missed
      /\ order' = OrderAfter(index', TRUE)
  BY DEF FailOp
<1>2. /\ NextOp \in Operations /\ done \in Nat /\ Len(ops) \in Nat /\ done + 1 \in 1..Len(ops)
  BY <1>1, NextOpIs
<1>3. /\ files' \in {files, FilesTornBy(NextOp)} /\ files' \in [Names -> Contents]
      /\ GoodIndex(index') /\ (Undisturbed => InOrder(index'))
      /\ failures' \in 0..MaxFailures
  BY <1>1, InterruptedIs
<1>4. /\ IndexHolds' /\ order' \in {"kept", "short", "lost"}
      /\ order' = "kept" => Len(index') >= 2
  BY <1>1, <1>3, IndexBecomes
<1>5. missed' \subseteq Names
  BY <1>1, <1>2 DEF MemDirInv, MemDirShape, Operations
<1>6. CASE /\ Ensuring /\ done \in 0..4 /\ 4 <= Len(ops)
           /\ done = 0 => NextOp = WriteOp(Identity, "generated")
           /\ done = 1 => NextOp = IndexOp(Identity, "generated")
           /\ done = 2 => NextOp = CreateOp(Safety, "template")
           /\ done = 3 => NextOp = IndexOp(Safety, "template")
           /\ done = 4 => NextOp = AskOp
  <2>1. done # 4
    BY <1>1, <1>6 DEF AskOp
  <2>2. Ensures(NextOp)
    BY <1>6, <2>1 DEF Ensures, WriteOp, IndexOp, CreateOp
  <2>3. done' = 4
    BY <1>1, <2>2, EnsureFacts DEF AfterFailure
  <2>4. Ensuring'
    <3>1. /\ agentUp' /\ plan' = NoPlan /\ ops' \in {EnsureOps, CycleOps}
          /\ done' \notin {2, 3}
      BY <1>1, <1>6, <2>3 DEF Ensuring
    <3> QED BY <1>4, <3>1 DEF Ensuring
  <2>5. MemDirShape'
    <3>1. done' \in 0..Len(ops')
      BY <1>1, <1>2, <1>6, <2>3
    <3>2. ops \in Seq(Operations) /\ plan \in AnyPlans /\ UNCHANGED <<ops, plan>>
      BY <1>1 DEF MemDirInv, MemDirShape
    <3> QED BY <1>3, <1>4, <1>5, <3>1, <3>2 DEF MemDirShape
  <2> QED BY <1>4, <2>4, <2>5 DEF MemDirInv
<1>7. CASE /\ Applying /\ OpsOfPlan(ops, plan) /\ ~Ensures(NextOp)
           /\ NextOp.op \in {"delete", "write", "index", "skip"}
           /\ NextOp.op = "write" =>
                done + 2 \in 1..Len(ops) /\ ops[done + 2].op = "index"
  <2>1. PICK step : step = IF NextOp.op = "write" THEN 2 ELSE 1
    OBVIOUS
  <2>2. step \in {1, 2} /\ done' = done + step
    BY <1>1, <1>7, <2>1 DEF AfterFailure
  <2>3. WritesHold'
    BY <1>1, <1>3, <1>7, <2>1, <2>2, FailedWritesHold
  <2>4. Applying'
    BY <1>1, <1>4, <1>7, <2>3 DEF Applying
  <2>5. done' \in 0..Len(ops)
    BY <1>2, <1>7, <2>1, <2>2
  <2>6. MemDirShape'
    BY <1>1, <1>2, <1>3, <1>4, <1>5, <2>5 DEF MemDirInv, MemDirShape
  <2> QED BY <1>4, <2>4, <2>6 DEF MemDirInv
<1> QED BY <1>1, <1>6, <1>7, NextOpIs

LEMMA CrashKeeps ==
  ASSUME MemDirInv, CrashAgent
  PROVE  MemDirInv'
<1>1. ~agentUp' /\ ops' = <<>> /\ done' = 0 /\ plan' = NoPlan /\ missed' = {}
  BY DEF CrashAgent, Run
<1>2. /\ files' \in [Names -> Contents] /\ IndexHolds'
      /\ failures' \in 0..MaxFailures /\ order' \in {"kept", "short", "lost"}
  <2>1. CASE UNCHANGED <<files, index, failures, order>>
    BY <2>1, IndexStays DEF MemDirInv, MemDirShape
  <2>2. CASE ~AtRest /\ Interrupted /\ order' = OrderAfter(index', FALSE)
    <3>1. /\ files' \in [Names -> Contents] /\ failures' \in 0..MaxFailures
          /\ GoodIndex(index') /\ (Undisturbed => InOrder(index'))
      BY <2>2, InterruptedIs
    <3> QED BY <2>2, <3>1, IndexBecomes
  <2> QED BY <2>1, <2>2 DEF CrashAgent
<1>3. MemDirShape'
  <2>1. NoPlan \in AnyPlans /\ ops' \in Seq(Operations) /\ done' \in 0..Len(ops')
    BY <1>1 DEF NoPlan, AnyPlans
  <2> QED BY <1>1, <1>2, <2>1 DEF MemDirInv, MemDirShape
<1> QED BY <1>1, <1>2, <1>3 DEF MemDirInv, Stopped

LEMMA EditKeeps ==
  ASSUME MemDirInv, EditSafety
  PROVE  MemDirInv'
<1>1. files' = [files EXCEPT ![Safety] = "human"]
      /\ UNCHANGED <<index, agentUp, ops, done, plan, failures, missed, order>>
  BY DEF EditSafety
<1>2. files \in [Names -> Contents] /\ "human" \in Contents
  BY DEF MemDirInv, MemDirShape, Contents
<1>3. MemDirShape'
  BY <1>1, <1>2 DEF MemDirInv, MemDirShape
<1>4. IndexHolds' /\ (Stopped => Stopped') /\ (Ensuring => Ensuring')
  BY <1>1, IndexStays DEF Stopped, Ensuring
<1>5. Applying => Applying'
  <2> SUFFICES ASSUME Applying PROVE Applying'
    OBVIOUS
  <2>1. \A n : n # Safety => files'[n] = files[n]
    BY <1>1, <1>2
  <2>2. WritesHold'
    BY <1>1, <2>1 DEF Applying, WritesHold
  <2> QED BY <1>1, <2>2 DEF Applying
<1> QED BY <1>3, <1>4, <1>5 DEF MemDirInv

LEMMA MemDirStep == MemDirInv /\ [MdNext]_mdVars => MemDirInv'
<1> SUFFICES ASSUME MemDirInv, [MdNext]_mdVars PROVE MemDirInv'
  OBVIOUS
<1>1. CASE StartAgent \/ Consolidate
  BY <1>1, EnsuringBegins
<1>2. CASE DoOp
  BY <1>2, DoOpKeeps
<1>3. ASSUME NEW p \in Plans, Answer(p) PROVE MemDirInv'
  BY <1>3, AnswerKeeps
<1>4. CASE CrashAgent
  BY <1>4, CrashKeeps
<1>5. CASE EditSafety
  BY <1>5, EditKeeps
<1>6. CASE FailOp
  BY <1>6, FailOpKeeps
<1>7. CASE UNCHANGED mdVars
  <2>1. IndexHolds'
    BY <1>7, IndexStays DEF mdVars
  <2> QED BY <1>7, <2>1 DEF mdVars, MemDirInv, MemDirShape, Stopped, Ensuring, Applying,
                            WritesHold
<1> QED BY <1>1, <1>2, <1>3, <1>4, <1>5, <1>6, <1>7 DEF MdNext

\* What the invariant says once a start, a cycle or a plan is done.
LEMMA MemDirImplies == MemDirInv => MemoriesStay
<1> SUFFICES ASSUME MemDirInv PROVE MemoriesStay
  OBVIOUS
<1>1. PinnedStayIndexed
  <2>1. ASSUME agentUp, AtRest, order = "kept" PROVE Len(index) >= 2
    <3>1. CASE Ensuring
      <4>1. done = 4 \/ done = 5
        <5>1. CASE ops = EnsureOps
          BY <2>1, <5>1, EnsureFacts DEF AtRest
        <5>2. CASE ops = CycleOps
          BY <2>1, <5>2, EnsureFacts DEF AtRest
        <5> QED BY <3>1, <5>1, <5>2 DEF Ensuring
      <4> QED BY <2>1, <3>1, <4>1 DEF Ensuring
    <3>2. CASE Applying
      BY <2>1, <3>2 DEF Applying
    <3> QED BY <2>1, <3>1, <3>2 DEF MemDirInv, Stopped
  <2>2. Len(index) >= 2 => index # <<>>
    OBVIOUS
  <2>3. NoTwoFound(index) /\ (order = "kept" => InOrder(index))
    BY DEF MemDirInv, IndexHolds, GoodIndex
  <2> QED BY <2>1, <2>2, <2>3 DEF InOrder, NoTwoFound, PinnedStayIndexed
<1>2. PlanIsApplied
  <2> SUFFICES ASSUME agentUp, AtRest PROVE PlanIsApplied
    BY DEF PlanIsApplied
  <2>1. CASE Ensuring
    BY <2>1 DEF Ensuring, NoPlan, PlanIsApplied
  <2>2. CASE Applying
    <3>1. plan \in AnyPlans /\ OpsOfPlan(ops, plan)
      BY <2>2, PlanFacts DEF Applying, MemDirInv, MemDirShape
    <3>2. /\ Len(ops) \in Nat /\ Len(plan.deletes) \in Nat /\ done = Len(ops)
          /\ DOMAIN plan.deletes = 1..Len(plan.deletes)
          /\ DOMAIN plan.upserts = 1..Len(plan.upserts) /\ Len(plan.upserts) \in Nat
          /\ Len(ops) = Len(plan.deletes) + 2 * Len(plan.upserts)
      BY <3>1 DEF AnyPlans, AtRest, OpsOfPlan, MemDirInv, MemDirShape
    <3>3. ASSUME NEW k \in 1..Len(ops), ops[k].op = "write"
          PROVE  \E v \in DOMAIN plan.upserts :
                   /\ k = Len(plan.deletes) + 2 * v - 1
                   /\ plan.upserts[v].content # "blank"
                   /\ ops[k].name = plan.upserts[v].name
      <4>1. CASE k \in 1..Len(plan.deletes)
        <5>1. ops[k] = DeleteOp(plan.deletes[k])
          BY <3>1, <4>1 DEF OpsOfPlan
        <5> QED BY <3>3, <5>1 DEF DeleteOp
      <4>2. CASE k \in (Len(plan.deletes) + 1)..Len(ops)
        <5>1. ItemOf(ops, plan, k)
          BY <3>1, <4>2, Zenon DEF OpsOfPlan
        <5> QED BY <3>3, <5>1 DEF ItemOf
      <4>3. k \in 1..Len(plan.deletes) \/ k \in (Len(plan.deletes) + 1)..Len(ops)
        <5>1. PICK D, L : D = Len(plan.deletes) /\ L = Len(ops)
          OBVIOUS
        <5>2. D \in Nat /\ L \in Nat /\ k \in 1..L
          BY <3>2, <5>1
        <5> QED BY <5>1, <5>2
      <4> QED BY <4>1, <4>2, <4>3
    <3>4. ASSUME NEW u \in DOMAIN plan.upserts, LastUpsert(plan, u),
                 plan.upserts[u].name \notin missed \cup {Safety}
          PROVE  files[plan.upserts[u].name] = plan.upserts[u].content
      <4>0. plan.upserts[u].content # "blank"
        BY <3>4 DEF LastUpsert
      <4>1. PICK i \in 1..Len(ops) : IsUpsert(ops, plan, u, i)
        BY <3>1, <4>0, Zenon DEF OpsOfPlan
      <4>2. /\ i = Len(plan.deletes) + 2 * u - 1 /\ ops[i].op = "write"
            /\ ops[i].name = plan.upserts[u].name
            /\ ops[i].content = plan.upserts[u].content
        BY <4>1 DEF IsUpsert
      <4>3. i \in 1..done
        BY <3>2
      <4>4. ASSUME NEW k \in (i + 1)..done, ops[k].op = "write", ops[k].name = ops[i].name
            PROVE  FALSE
        <5>1. k \in 1..Len(ops) /\ i + 1 <= k
          <6>1. PICK L : L = Len(ops) /\ L \in Nat /\ done = L
            BY <3>2
          <6>2. i \in 1..L /\ k \in (i + 1)..L
            BY <6>1
          <6> QED BY <6>1, <6>2
        <5>2. PICK v \in DOMAIN plan.upserts :
                /\ k = Len(plan.deletes) + 2 * v - 1
                /\ plan.upserts[v].content # "blank"
                /\ ops[k].name = plan.upserts[v].name
          BY <3>3, <4>4, <5>1
        <5>3. v <= u
          BY <3>4, <4>2, <4>4, <5>2 DEF LastUpsert
        <5>4. u \in Nat /\ v \in Nat
          BY <3>2
        <5>5. PICK D : D = Len(plan.deletes) /\ D \in Nat
          BY <3>2
        <5>6. i = D + 2 * u - 1 /\ k = D + 2 * v - 1
          BY <4>2, <5>2, <5>5
        <5> QED BY <5>1, <5>3, <5>4, <5>5, <5>6, SMTT(30)
      <4>5. files[ops[i].name] = ops[i].content
        <5>1. ops[i].op \in {"write", "delete"} /\ ops[i].name \notin missed \cup {Safety}
          BY <3>4, <4>2
        <5>2. \A k \in (i + 1)..done : ops[k].op = "write" => ops[k].name # ops[i].name
          BY <4>4
        <5>3. WritesHold
          BY <2>2 DEF Applying
        <5> QED BY <4>3, <5>1, <5>2, <5>3 DEF WritesHold
      <4> QED BY <4>2, <4>5
    <3>5. ASSUME NEW d \in DOMAIN plan.deletes,
                 plan.deletes[d] \notin missed \cup {Safety},
                 ~\E u \in DOMAIN plan.upserts :
                    /\ plan.upserts[u].name = plan.deletes[d]
                    /\ plan.upserts[u].content # "blank"
          PROVE  files[plan.deletes[d]] = "absent"
      <4>1. d \in 1..Len(plan.deletes) /\ d \in 1..done
        <5>1. PICK D, N, L : D = Len(plan.deletes) /\ N = Len(plan.upserts) /\ L = Len(ops)
          OBVIOUS
        <5>2. D \in Nat /\ N \in Nat /\ L = D + 2 * N /\ d \in 1..D /\ done = L
          BY <3>2, <5>1
        <5>3. d \in 1..L
          BY <5>2, SMTT(30)
        <5> QED BY <5>1, <5>2, <5>3
      <4>2. ops[d] = DeleteOp(plan.deletes[d])
        BY <3>1, <4>1 DEF OpsOfPlan
      <4>3. ops[d].op = "delete" /\ ops[d].name = plan.deletes[d] /\ ops[d].content = "absent"
        BY <4>2 DEF DeleteOp
      <4>4. ASSUME NEW k \in (d + 1)..done, ops[k].op = "write", ops[k].name = ops[d].name
            PROVE  FALSE
        <5>1. k \in 1..Len(ops)
          <6>1. PICK L : L = Len(ops) /\ L \in Nat /\ done = L
            BY <3>2
          <6>2. d \in 1..L /\ k \in (d + 1)..L
            BY <4>1, <6>1
          <6> QED BY <6>1, <6>2
        <5> QED BY <3>3, <3>5, <4>3, <4>4, <5>1
      <4>5. files[ops[d].name] = ops[d].content
        <5>1. ops[d].op \in {"write", "delete"} /\ ops[d].name \notin missed \cup {Safety}
          BY <3>5, <4>3
        <5>2. \A k \in (d + 1)..done : ops[k].op = "write" => ops[k].name # ops[d].name
          BY <4>4
        <5>3. WritesHold
          BY <2>2 DEF Applying
        <5> QED BY <4>1, <5>1, <5>2, <5>3 DEF WritesHold
      <4> QED BY <4>3, <4>5
    <3> QED BY <3>4, <3>5 DEF PlanIsApplied
  <2> QED BY <2>1, <2>2 DEF MemDirInv, Stopped
<1> QED BY <1>1, <1>2 DEF MemoriesStay

\* Whatever failed and whenever a crash came, a file is found by one entry of
\* the index at most, the pinned files begin it when no failure has kept them
\* out, and a plan that is done has written and deleted what it says but for
\* the files whose last write or delete failed (memdir.py:101-152,
\* memory_extractor.py:165-219, agent.py:55-60, background.py:123-129).
THEOREM MemoriesKept == MdSpec => []MemoriesStay
<1>1. MdSpec => []MemDirInv
  BY MemDirStarts, MemDirStep, PTL DEF MdSpec
<1> QED BY <1>1, MemDirImplies, PTL

\* A step that changes the safety file of a person is one of a plan that
\* names it.
LEMMA SafetyStep ==
  ASSUME MemDirInv, [MdNext]_mdVars, files[Safety] = "human", files'[Safety] # "human"
  PROVE  \/ \E i \in DOMAIN plan.deletes : plan.deletes[i] = Safety
         \/ \E i \in DOMAIN plan.upserts : plan.upserts[i].name = Safety
<1>1. files \in [Names -> Contents] /\ Safety \in Names /\ Identity # Safety
  BY OperationTypes DEF MemDirInv, MemDirShape
<1>2. ~(UNCHANGED mdVars) /\ ~EditSafety /\ ~StartAgent /\ ~Consolidate
      /\ ~(\E p \in Plans : Answer(p))
  BY <1>1 DEF mdVars, EditSafety, StartAgent, Consolidate, Answer
<1>3. ~AtRest /\ NextOp.name = Safety /\ NextOp.op \in {"write", "delete"}
  <2>1. ~AtRest /\ files' \in {FilesAfter(NextOp), FilesTornBy(NextOp)}
    <3>1. CASE DoOp
      BY <3>1 DEF DoOp
    <3>2. CASE CrashAgent
      BY <3>2 DEF CrashAgent, Interrupted
    <3>3. CASE FailOp
      BY <3>3 DEF FailOp, Interrupted
    <3> QED BY <1>2, <3>1, <3>2, <3>3 DEF MdNext
  <2>2. NextOp \in Operations
    BY <2>1, NextOpIs
  <2>3. NextOp.name \in Names
    BY <2>2 DEF Operations
  <2> QED BY <1>1, <2>1, <2>3 DEF FilesAfter, FilesTornBy
<1>4. ~Ensuring
  <2>1. /\ WriteOp(Identity, "generated").name = Identity
        /\ IndexOp(Identity, "generated").op = "index"
        /\ CreateOp(Safety, "template").op = "create"
        /\ IndexOp(Safety, "template").op = "index" /\ AskOp.op = "ask"
    BY DEF WriteOp, CreateOp, IndexOp, AskOp
  <2>2. ~Applying => ~Ensuring
    BY <1>1, <1>3, <2>1, NextOpIs
  <2>3. Applying => ~Ensuring
    <3> SUFFICES ASSUME Applying, Ensuring PROVE FALSE
      OBVIOUS
    <3>1. Len(ops) = 4 \/ Len(ops) = 5
      BY EnsureFacts DEF Ensuring
    <3>2. Len(PlanOps(NoPlan)) = 0
      <4>1. NoPlan \in AnyPlans /\ Len(NoPlan.deletes) = 0 /\ Len(NoPlan.upserts) = 0
        BY DEF NoPlan, AnyPlans
      <4>2. OpsOfPlan(PlanOps(NoPlan), NoPlan)
        BY <4>1, PlanFacts
      <4> QED BY <4>1, <4>2 DEF OpsOfPlan
    <3> QED BY <3>1, <3>2 DEF Applying, Ensuring
  <2> QED BY <2>2, <2>3
<1>5. \/ \E d \in DOMAIN plan.deletes : plan.deletes[d] = NextOp.name
      \/ \E u \in DOMAIN plan.upserts : plan.upserts[u].name = NextOp.name
  BY <1>3, <1>4, NextOpIs
<1> QED BY <1>3, <1>5

\* Starts, restarts after a crash and cycles leave a safety file written by a
\* person alone, at every step and in every crash (memdir.py:340-381).
THEOREM OnlyPlansTouch == MdSpec => OnlyPlansTouchSafety
<1>1. MdSpec => []MemDirInv
  BY MemDirStarts, MemDirStep, PTL DEF MdSpec
<1>2. MemDirInv /\ [MdNext]_mdVars =>
        [files[Safety] = "human" /\ files'[Safety] # "human" =>
           \/ \E i \in DOMAIN plan.deletes : plan.deletes[i] = Safety
           \/ \E i \in DOMAIN plan.upserts : plan.upserts[i].name = Safety]_mdVars
  BY SafetyStep
<1>3. MdSpec => [][MdNext]_mdVars
  BY PTL DEF MdSpec
<1> QED BY <1>1, <1>2, <1>3, PTL DEF OnlyPlansTouchSafety
-----------------------------------------------------------------------------
(***************************************************************************)
(* ChainTuning, for any joints, profiles and outcomes and any number of    *)
(* jobs: a chain is tuned as its result and its logs tell.                 *)
(***************************************************************************)

\* The sums of the first elements of s, as Total builds them.
SumsOf(t, s) == t = [i \in 0..Len(s) |-> IF i = 0 THEN 0 ELSE t[i - 1] + s[i]]

\* A set of natural numbers has a smallest element.
LEMMA SmallestExists ==
  ASSUME NEW T, T \subseteq Nat, T # {}
  PROVE  \E m \in T : \A k \in T : m <= k
<1>1. PICK m \in T : \A k \in T : <<k, m>> \notin OpToRel(<, Nat)
  BY WFMin, NatLessThanWellFounded
<1>2. \A k \in T : ~(k < m)
  BY <1>1 DEF OpToRel
<1> QED BY <1>2

\* Each sequence of integers has them, ...
LEMMA SumsExist ==
  ASSUME NEW s \in Seq(Int)
  PROVE  \E t : SumsOf(t, s)
<1> DEFINE N == Len(s)
           Sums(t, n) == t \in [0..n -> Int] /\ t[0] = 0
                         /\ \A i \in 1..n : t[i] = t[i - 1] + s[i]
           Bad == {n \in 0..N : ~\E t : Sums(t, n)}
<1>1. N \in Nat /\ \A i \in 1..N : s[i] \in Int
  OBVIOUS
<1>2. Bad = {}
  <2> SUFFICES ASSUME Bad # {} PROVE FALSE
    OBVIOUS
  <2>1. PICK n \in Bad : \A k \in Bad : n <= k
    <3>1. Bad \subseteq Nat
      BY <1>1
    <3> HIDE DEF Bad
    <3> QED BY <3>1, SmallestExists
  <2>2. n # 0
    <3> SUFFICES ASSUME n = 0 PROVE FALSE
      OBVIOUS
    <3>1. Sums([i \in 0..0 |-> 0], 0)
      OBVIOUS
    <3> QED BY <3>1
  <2>3. n - 1 \in 0..N /\ n - 1 \notin Bad /\ n \in 1..N
    <3>1. n \in 1..N
      BY <1>1, <2>2
    <3>2. ~(n <= n - 1)
      BY <1>1, <3>1
    <3>3. n - 1 \notin Bad
      BY <2>1, <3>2
    <3> HIDE DEF Bad
    <3> QED BY <1>1, <3>1, <3>3
  <2>4. PICK t : Sums(t, n - 1)
    BY <2>3
  <2> DEFINE u == [i \in 0..n |-> IF i = n THEN t[n - 1] + s[n] ELSE t[i]]
  <2>5. t[n - 1] \in Int /\ s[n] \in Int
    BY <1>1, <2>3, <2>4
  <2>6. u \in [0..n -> Int]
    <3> SUFFICES ASSUME NEW i \in 0..n PROVE u[i] \in Int
      OBVIOUS
    <3> QED BY <1>1, <2>3, <2>4, <2>5
  <2>7. u[0] = 0
    BY <1>1, <2>3, <2>4
  <2>8. ASSUME NEW i \in 1..n PROVE u[i] = u[i - 1] + s[i]
    <3>1. CASE i = n
      BY <1>1, <2>3, <3>1
    <3>2. CASE i # n
      <4>1. i \in 1..(n - 1) /\ i - 1 \in 0..n /\ i - 1 # n /\ i \in 0..n
        BY <1>1, <2>3, <3>2
      <4>2. t[i] = t[i - 1] + s[i]
        BY <2>4, <4>1
      <4> QED BY <3>2, <4>1, <4>2
    <3> QED BY <3>1, <3>2
  <2>9. Sums(u, n)
    BY <2>6, <2>7, <2>8
  <2> QED BY <2>1, <2>9
<1>3. PICK t : Sums(t, N)
  <2>1. N \notin Bad
    <3> HIDE DEF Bad
    <3> QED BY <1>2
  <2>2. N \in 0..N
    BY <1>1
  <2> QED BY <2>1, <2>2
<1>4. t = [i \in 0..N |-> IF i = 0 THEN 0 ELSE t[i - 1] + s[i]]
  <2>1. \A i \in 0..N : i # 0 => i \in 1..N
    BY <1>1
  <2>2. t = [i \in 0..N |-> t[i]]
    BY <1>3
  <2>3. \A i \in 0..N : t[i] = IF i = 0 THEN 0 ELSE t[i - 1] + s[i]
    BY <1>3, <2>1
  <2> QED BY <2>2, <2>3
<1> QED BY <1>4 DEF SumsOf

\* ... and Total is the last.
LEMMA TotalIs ==
  ASSUME NEW s \in Seq(Int)
  PROVE  \E t : SumsOf(t, s) /\ Total(s) = t[Len(s)]
<1> DEFINE t == CHOOSE t : SumsOf(t, s)
<1>1. SumsOf(t, s)
  BY SumsExist
<1>2. Total(s) = t[Len(s)]
  BY DEF Total, SumsOf
<1> QED BY <1>1, <1>2

\* Multiplication distributes, for the solver.
LEMMA Distribute ==
  ASSUME NEW a \in Int, NEW b \in Int, NEW c \in Int
  PROVE  c * (a + b) = c * a + c * b /\ c * a \in Int
OBVIOUS

\* A sum of shares between lo and hi of weights is that part of their sum.
LEMMA SumBetween ==
  ASSUME NEW s \in Seq(Int), NEW w \in Seq(Nat), Len(s) = Len(w),
         NEW lo \in Int, NEW hi \in Int,
         \A i \in 1..Len(w) : lo * w[i] <= s[i] /\ s[i] <= hi * w[i]
  PROVE  /\ Total(s) \in Int /\ Total(w) \in Nat
         /\ lo * Total(w) <= Total(s) /\ Total(s) <= hi * Total(w)
<1>1. PICK t : SumsOf(t, s) /\ Total(s) = t[Len(s)]
  BY TotalIs
<1>2. PICK v : SumsOf(v, w) /\ Total(w) = v[Len(w)]
  <2>1. w \in Seq(Int)
    OBVIOUS
  <2> QED BY <2>1, TotalIs
<1>3. PICK N : N = Len(w)
  OBVIOUS
<1>4. N \in Nat /\ \A i \in 1..N : s[i] \in Int /\ w[i] \in Nat
  BY <1>3
<1>5. /\ t[0] = 0 /\ \A i \in 1..N : t[i] = t[i - 1] + s[i]
      /\ v[0] = 0 /\ \A i \in 1..N : v[i] = v[i - 1] + w[i]
  <2>1. 0 \in 0..N /\ \A i \in 1..N : i \in 0..N /\ i # 0
    BY <1>4
  <2>2. /\ t = [i \in 0..N |-> IF i = 0 THEN 0 ELSE t[i - 1] + s[i]]
        /\ v = [i \in 0..N |-> IF i = 0 THEN 0 ELSE v[i - 1] + w[i]]
    BY <1>1, <1>2, <1>3 DEF SumsOf
  <2>3. \A i \in 0..N : t[i] = IF i = 0 THEN 0 ELSE t[i - 1] + s[i]
    BY <2>2
  <2>4. \A i \in 0..N : v[i] = IF i = 0 THEN 0 ELSE v[i - 1] + w[i]
    BY <2>2
  <2> QED BY <2>1, <2>3, <2>4
<1> DEFINE Good(i) == /\ t[i] \in Int /\ v[i] \in Nat
                      /\ lo * v[i] <= t[i] /\ t[i] <= hi * v[i]
           Bad == {i \in 0..N : ~Good(i)}
<1>6. Bad = {}
  <2> SUFFICES ASSUME Bad # {} PROVE FALSE
    OBVIOUS
  <2>1. PICK n \in Bad : \A k \in Bad : n <= k
    <3>1. Bad \subseteq Nat
      BY <1>4
    <3> HIDE DEF Bad
    <3> QED BY <3>1, SmallestExists
  <2>2. Good(0)
    <3>1. lo * 0 = 0 /\ hi * 0 = 0
      OBVIOUS
    <3> QED BY <1>5, <3>1
  <2>3. n \in 1..N /\ n - 1 \in 0..N
    <3>1. n # 0
      BY <2>2
    <3> QED BY <1>4, <3>1
  <2>4. Good(n - 1)
    <3>1. ~(n <= n - 1)
      BY <1>4, <2>3
    <3> QED BY <2>1, <2>3, <3>1
  <2>5. PICK a, b, d, e : a = t[n - 1] /\ b = s[n] /\ d = v[n - 1] /\ e = w[n]
    OBVIOUS
  <2>6. /\ a \in Int /\ b \in Int /\ d \in Nat /\ e \in Nat
        /\ lo * d <= a /\ a <= hi * d /\ lo * e <= b /\ b <= hi * e
    BY <1>3, <1>4, <2>3, <2>4, <2>5
  <2>7. lo * (d + e) <= a + b /\ a + b <= hi * (d + e)
    <3>1. lo * (d + e) = lo * d + lo * e /\ hi * (d + e) = hi * d + hi * e
      BY <2>6, Distribute
    <3>2. lo * d \in Int /\ lo * e \in Int /\ hi * d \in Int /\ hi * e \in Int
      BY <2>6
    <3> QED BY <2>6, <3>1, <3>2
  <2>8. t[n] = a + b /\ v[n] = d + e
    BY <1>5, <2>3, <2>5
  <2>9. Good(n)
    BY <2>6, <2>7, <2>8
  <2> QED BY <2>1, <2>9
<1>7. Good(N)
  <2>1. N \in 0..N /\ N \notin Bad
    BY <1>4, <1>6
  <2> QED BY <2>1
<1> QED BY <1>1, <1>2, <1>3, <1>7
-----------------------------------------------------------------------------
(* The score of a chain                                                    *)

\* Max and Min of the sets that occur here.
LEMMA LargestOf ==
  ASSUME NEW n \in Nat, NEW T, T \subseteq 0..n, T # {}
  PROVE  Max(T) \in T /\ \A k \in T : k <= Max(T)
<1> DEFINE D == {n - k : k \in T}
<1>1. D \subseteq Nat /\ D # {}
  <2>1. \A k \in T : n - k \in Nat
    OBVIOUS
  <2>2. PICK k : k \in T
    OBVIOUS
  <2>3. n - k \in D
    BY <2>2
  <2>4. D \subseteq Nat
    BY <2>1
  <2> QED BY <2>3, <2>4
<1>2. PICK d \in D : \A e \in D : d <= e
  <2> HIDE DEF D
  <2> QED BY <1>1, SmallestExists
<1>3. PICK m \in T : d = n - m
  OBVIOUS
<1>4. \A k \in T : m >= k
  <2> TAKE k \in T
  <2>1. n - k \in D
    OBVIOUS
  <2>2. d <= n - k
    BY <1>2, <2>1
  <2> QED BY <1>3, <2>2
<1> QED BY <1>4 DEF Max

LEMMA SmallestOf ==
  ASSUME NEW T, T \subseteq Nat, T # {}
  PROVE  Min(T) \in T /\ \A k \in T : Min(T) <= k
<1>1. PICK m \in T : \A k \in T : m <= k
  BY SmallestExists
<1> QED BY <1>1 DEF Min

LEMMA LargerOfTwo ==
  ASSUME NEW a \in Int, NEW b \in Int
  PROVE  Max({a, b}) \in {a, b} /\ Max({a, b}) >= a /\ Max({a, b}) >= b
<1>1. \E m \in {a, b} : \A k \in {a, b} : m >= k
  OBVIOUS
<1> QED BY <1>1 DEF Max

LEMMA SmallerOfTwo ==
  ASSUME NEW a \in Int, NEW b \in Int
  PROVE  Min({a, b}) \in {a, b} /\ Min({a, b}) <= a /\ Min({a, b}) <= b
<1>1. \E m \in {a, b} : \A k \in {a, b} : m <= k
  OBVIOUS
<1> QED BY <1>1 DEF Min

\* Five points off 80 for each pair of neighbours, at the least none left.
LEMMA ChecksAre ==
  ASSUME NEW rs \in Seq(Results)
  PROVE  MockChecks(rs) \in 0..80
<1> DEFINE S == {i \in 1..(Len(rs) - 1) : Apart(rs[i], rs[i + 1])}
<1>1. IsFiniteSet(1..(Len(rs) - 1))
  <2>1. 1 \in Int /\ Len(rs) - 1 \in Int
    OBVIOUS
  <2> QED BY <2>1, FS_Interval
<1>2. IsFiniteSet(S)
  <2>1. S \subseteq 1..(Len(rs) - 1)
    OBVIOUS
  <2> QED BY <1>1, <2>1, FS_Subset
<1>3. PICK c : c = Cardinality(S)
  OBVIOUS
<1>4. c \in Nat
  BY <1>2, <1>3, FS_CardinalityType
<1>5. PICK z, m : z = 80 - 5 * c /\ m = Max({0, z})
  OBVIOUS
<1>6. MockChecks(rs) = m
  BY <1>3, <1>5 DEF MockChecks
<1>7. z \in Int /\ z <= 80
  BY <1>4, <1>5
<1>8. m \in {0, z} /\ m >= 0
  <2>1. 0 \in Int /\ z \in Int
    BY <1>7
  <2>2. Max({0, z}) \in {0, z} /\ Max({0, z}) >= 0
    BY <2>1, LargerOfTwo, Zenon
  <2> QED BY <1>5, <2>2
<1> QED BY <1>6, <1>7, <1>8

\* The weights of ChainScorer._mock_score are positive.
LEMMA WeightsAre ==
  ASSUME NEW rs \in Seq(Results), NEW i \in 1..Len(rs)
  PROVE  Weight(rs, i) \in Nat
<1>1. PICK n, k, d : n = Len(rs) /\ k = n - 1 /\ d = Max({k, 1})
  OBVIOUS
<1>2. n \in Nat /\ k \in Int /\ k = n - 1 /\ i \in 1..n
  BY <1>1
<1>3. d \in Int /\ d >= k /\ d >= 1
  <2>1. 1 \in Int /\ k \in Int
    BY <1>2
  <2>2. Max({k, 1}) \in {k, 1} /\ Max({k, 1}) >= k /\ Max({k, 1}) >= 1
    BY <2>1, LargerOfTwo, Zenon
  <2>3. d \in {k, 1} /\ d >= k /\ d >= 1
    BY <1>1, <2>2
  <2> QED BY <2>1, <2>3
<1>4. Weight(rs, i) = 6 * d - 5 * (i - 1)
  BY <1>1 DEF Weight
<1> QED BY <1>2, <1>3, <1>4

\* The numbers of ReportsAreLogged: x sums the weights, y the weighted scores.
Capped(x, y, c) == Min({500 * x, 2 * c * x + 3 * y})
ScoreBetween(x, y, c, lo, hi) ==
  /\ 5 * Capped(x, y, c) <= (5 * x) * (160 + 3 * hi)
  /\ 5 * Capped(x, y, c) >= (5 * x) * (2 * c + 3 * lo)

LEMMA ScoreBounds ==
  ASSUME NEW x \in Nat, NEW y \in Int, NEW c \in 0..80, NEW lo \in 0..100, NEW hi \in 0..100,
         lo * x <= y, y <= hi * x
  PROVE  ScoreBetween(x, y, c, lo, hi)
<1>0. PICK num : num = Capped(x, y, c)
  OBVIOUS
<1>1. PICK p, q, r : p = c * x /\ q = lo * x /\ r = hi * x
  OBVIOUS
<1>2. p \in Int /\ q \in Int /\ r \in Int
  BY <1>1
<1>3. p <= 80 * x /\ q <= 100 * x
  <2>1. (80 - c) * x >= 0 /\ (100 - lo) * x >= 0
    OBVIOUS
  <2>2. (80 - c) * x = 80 * x - p /\ (100 - lo) * x = 100 * x - q
    BY <1>1
  <2> QED BY <1>2, <2>1, <2>2
<1>4. 2 * c * x = 2 * p
  BY <1>1
<1>5. /\ (5 * x) * (160 + 3 * hi) = 800 * x + 15 * r
      /\ (5 * x) * (2 * c + 3 * lo) = 10 * p + 15 * q
  BY <1>1
<1>6. num \in {500 * x, 2 * p + 3 * y} /\ num <= 500 * x /\ num <= 2 * p + 3 * y
  <2>1. PICK u, v : u = 500 * x /\ v = 2 * p + 3 * y
    OBVIOUS
  <2>2. u \in Int /\ v \in Int /\ num = Min({u, v})
    BY <1>0, <1>2, <1>4, <2>1 DEF Capped
  <2>3. Min({u, v}) \in {u, v} /\ Min({u, v}) <= u /\ Min({u, v}) <= v
    BY <2>2, SmallerOfTwo, Zenon
  <2>4. num \in {u, v} /\ num <= u /\ num <= v
    BY <2>2, <2>3
  <2> QED BY <2>1, <2>4
<1>7. q <= y /\ y <= r
  BY <1>1
<1>8. 5 * num <= (5 * x) * (160 + 3 * hi) /\ 5 * num >= (5 * x) * (2 * c + 3 * lo)
  BY <1>2, <1>3, <1>5, <1>6, <1>7
<1> QED BY <1>0, <1>8 DEF ScoreBetween

\* A score lies where an average belongs (chain_orchestrator.py).
LEMMA ScoreOfChain ==
  ASSUME NEW rs \in Seq(Results), rs # <<>>
  PROVE  LET scores == {rs[i].score : i \in DOMAIN rs}
         IN  /\ 5 * ChainScore(rs).num <= ChainScore(rs).of * (160 + 3 * Max(scores))
             /\ 5 * ChainScore(rs).num >=
                  ChainScore(rs).of * (2 * MockChecks(rs) + 3 * Min(scores))
<1> DEFINE scores == {rs[i].score : i \in DOMAIN rs}
<1>1. /\ DOMAIN rs = 1..Len(rs) /\ Len(rs) \in Nat
      /\ \A i \in 1..Len(rs) : rs[i].score \in 0..100
  <2>1. \A i \in 1..Len(rs) : rs[i] \in Results
    OBVIOUS
  <2> QED BY <2>1 DEF Results
<1>2. scores \subseteq 0..100 /\ scores # {}
  <2>1. 1 \in DOMAIN rs
    BY <1>1
  <2> QED BY <1>1, <2>1
<1>3. PICK hi, lo : hi = Max(scores) /\ lo = Min(scores)
  OBVIOUS
<1> HIDE DEF scores
<1>4. hi \in 0..100 /\ \A k \in scores : k <= hi
  <2>1. 100 \in Nat
    OBVIOUS
  <2> QED BY <1>2, <1>3, <2>1, LargestOf
<1>5. lo \in 0..100 /\ \A k \in scores : lo <= k
  <2>1. scores \subseteq Nat
    BY <1>2
  <2> QED BY <1>2, <1>3, <2>1, SmallestOf
<1>6. \A i \in 1..Len(rs) : lo <= rs[i].score /\ rs[i].score <= hi
  BY <1>1, <1>4, <1>5 DEF scores
<1>7. PICK w, s : /\ w = [i \in DOMAIN rs |-> Weight(rs, i)]
                  /\ s = [i \in DOMAIN rs |-> Weight(rs, i) * rs[i].score]
  OBVIOUS
<1>8. w \in Seq(Nat) /\ Len(w) = Len(rs)
  BY <1>1, <1>7, WeightsAre
<1>9. s \in Seq(Int) /\ Len(s) = Len(rs)
  <2>1. ASSUME NEW i \in 1..Len(rs) PROVE Weight(rs, i) * rs[i].score \in Int
    <3>1. PICK a, b : a = Weight(rs, i) /\ b = rs[i].score
      OBVIOUS
    <3>2. a \in Nat
      BY <3>1, WeightsAre
    <3>3. b \in 0..100
      BY <1>1, <3>1
    <3> QED BY <3>1, <3>2, <3>3
  <2> QED BY <1>1, <1>7, <2>1
<1>10. ASSUME NEW i \in 1..Len(w)
       PROVE  lo * w[i] <= s[i] /\ s[i] <= hi * w[i]
  <2>1. PICK a, b : a = Weight(rs, i) /\ b = rs[i].score
    OBVIOUS
  <2>2. a \in Nat /\ b \in 0..100 /\ lo <= b /\ b <= hi
    BY <1>1, <1>6, <1>8, <2>1, WeightsAre
  <2>3. w[i] = a /\ s[i] = a * b
    BY <1>1, <1>7, <1>8, <2>1
  <2>4. (b - lo) * a >= 0 /\ (hi - b) * a >= 0
    BY <1>4, <1>5, <2>2
  <2>5. (b - lo) * a = a * b - lo * a /\ (hi - b) * a = hi * a - a * b
    BY <1>4, <1>5, <2>2
  <2>6. a * b \in Int /\ lo * a \in Int /\ hi * a \in Int
    BY <1>4, <1>5, <2>2
  <2> QED BY <2>3, <2>4, <2>5, <2>6
<1>11. PICK x, y, c : x = Total(w) /\ y = Total(s) /\ c = MockChecks(rs)
  OBVIOUS
<1>12. x \in Nat /\ y \in Int /\ lo * x <= y /\ y <= hi * x
  <2>1. Len(s) = Len(w) /\ lo \in Int /\ hi \in Int
    BY <1>4, <1>5, <1>8, <1>9
  <2> QED BY <1>8, <1>9, <1>10, <1>11, <2>1, SumBetween
<1>13. c \in 0..80
  BY <1>11, ChecksAre
<1>14. ChainScore(rs).of = 5 * x /\ ChainScore(rs).num = Capped(x, y, c)
  BY <1>7, <1>11 DEF ChainScore, TotalWeight, Capped
<1>15. ScoreBetween(x, y, c, lo, hi)
  <2>1. x \in Nat /\ y \in Int /\ c \in 0..80 /\ lo \in 0..100 /\ hi \in 0..100
    BY <1>4, <1>5, <1>12, <1>13
  <2> QED BY <1>12, <2>1, ScoreBounds
<1>16. /\ 5 * ChainScore(rs).num <= ChainScore(rs).of * (160 + 3 * Max(scores))
       /\ 5 * ChainScore(rs).num >= ChainScore(rs).of * (2 * MockChecks(rs) + 3 * Min(scores))
  BY <1>3, <1>11, <1>14, <1>15 DEF ScoreBetween
<1> QED BY <1>16 DEF scores
-----------------------------------------------------------------------------
(* The rows of a job                                                       *)

\* In a log whose jobs are in order, the rows before job k come first, ...
LEMMA BeforeIs ==
  ASSUME NEW log \in Seq(Rows), JobsInOrder(log), NEW k \in Nat
  PROVE  /\ Before(log, k) \in 0..Len(log)
         /\ \A i \in 1..Len(log) : log[i].job < k <=> i <= Before(log, k)
<1> DEFINE S == {i \in DOMAIN log : log[i].job < k}
<1>1. PICK n : n = Len(log)
  OBVIOUS
<1>2. /\ n \in Nat /\ DOMAIN log = 1..n
      /\ \A i \in 1..n : log[i].job \in Nat
      /\ \A i, j \in 1..n : i <= j => log[i].job <= log[j].job
  <2>1. n \in Nat /\ DOMAIN log = 1..n /\ \A i \in 1..n : log[i] \in Rows
    BY <1>1
  <2> QED BY <2>1 DEF Rows, JobsInOrder
<1>3. PICK b : b = Before(log, k)
  OBVIOUS
<1>4. b \in 0..n /\ \A i \in 1..n : i \in S <=> i <= b
  <2>1. CASE S = {}
    <3>1. b = 0
      BY <1>3, <2>1, FS_EmptySet DEF Before
    <3> QED BY <1>2, <2>1, <3>1
  <2>2. CASE S # {}
    <3>1. S \subseteq 0..n
      BY <1>2
    <3>2. PICK m : m \in S /\ \A i \in S : i <= m
      <4> HIDE DEF S
      <4> QED BY <1>2, <2>2, <3>1, LargestOf
    <3>3. m \in 1..n
      BY <1>2, <3>2
    <3>4. \A i \in 1..n : i \in S <=> i <= m
      <4> SUFFICES ASSUME NEW i \in 1..n PROVE i \in S <=> i <= m
        OBVIOUS
      <4>1. i <= m => log[i].job <= log[m].job
        BY <1>2, <3>3
      <4>2. log[i].job \in Nat /\ log[m].job \in Nat /\ log[m].job < k
        BY <1>2, <3>2, <3>3
      <4>3. i <= m => i \in S
        BY <1>2, <4>1, <4>2
      <4> QED BY <3>2, <4>3
    <3>5. S = 1..m
      BY <1>2, <3>3, <3>4
    <3>6. Cardinality(1..m) = m
      <4>1. 1 \in Int /\ m \in Int /\ ~(1 > m)
        BY <3>3
      <4>2. Cardinality(1..m) = m - 1 + 1
        BY <4>1, FS_Interval
      <4> QED BY <4>1, <4>2
    <3>7. b = m
      BY <1>3, <3>5, <3>6 DEF Before
    <3> QED BY <3>3, <3>4, <3>7
  <2> QED BY <2>1, <2>2
<1>5. \A i \in 1..n : i \in S <=> log[i].job < k
  BY <1>2
<1> QED BY <1>1, <1>3, <1>4, <1>5

\* ... and those of job k follow them.
LEMMA RowsAre ==
  ASSUME NEW log \in Seq(Rows), JobsInOrder(log), NEW k \in Nat
  PROVE  /\ RowsOf(log, k) \in Seq(Rows)
         /\ Before(log, k) <= Before(log, k + 1)
         /\ Len(RowsOf(log, k)) = Before(log, k + 1) - Before(log, k)
         /\ \A i \in 1..Len(RowsOf(log, k)) : RowsOf(log, k)[i] = log[Before(log, k) + i]
<1>1. PICK n, b, d : n = Len(log) /\ b = Before(log, k) /\ d = Before(log, k + 1)
  OBVIOUS
<1>2. /\ n \in Nat /\ b \in 0..n /\ d \in 0..n
      /\ \A i \in 1..n : log[i].job \in Nat
      /\ \A i \in 1..n : (log[i].job < k <=> i <= b) /\ (log[i].job < k + 1 <=> i <= d)
  <2>1. n \in Nat /\ \A i \in 1..n : log[i] \in Rows
    BY <1>1
  <2>2. k + 1 \in Nat
    OBVIOUS
  <2>3. b \in 0..n /\ \A i \in 1..n : log[i].job < k <=> i <= b
    BY <1>1, BeforeIs
  <2>4. d \in 0..n /\ \A i \in 1..n : log[i].job < k + 1 <=> i <= d
    BY <1>1, <2>2, BeforeIs
  <2> QED BY <2>1, <2>3, <2>4 DEF Rows
<1>3. b <= d
  <2>1. CASE b = 0
    BY <1>2, <2>1
  <2>2. CASE b # 0
    <3>1. b \in 1..n /\ log[b].job < k /\ log[b].job \in Nat
      BY <1>2, <2>2
    <3>2. log[b].job < k + 1
      BY <3>1
    <3> QED BY <1>2, <3>1, <3>2
  <2> QED BY <2>1, <2>2
<1>4. PICK t : t = SubSeq(log, b + 1, d)
  OBVIOUS
<1>5. t \in Seq(Rows) /\ Len(t) = d - b /\ \A i \in 1..(d - b) : t[i] = log[b + i]
  <2>1. PICK m : m = b + 1
    OBVIOUS
  <2>2. m \in Int /\ d \in Int /\ \A i \in m..d : i \in 1..n
    BY <1>2, <2>1
  <2>3. \A i \in m..d : log[i] \in Rows
    BY <1>1, <2>2
  <2>4. /\ t \in Seq(Rows) /\ Len(t) = IF m <= d THEN d - m + 1 ELSE 0
        /\ \A i \in 1..(d - m + 1) : t[i] = log[m + i - 1]
    BY <1>4, <2>1, <2>2, <2>3, SubSeqProperties
  <2>5. Len(t) = d - b
    BY <1>2, <1>3, <2>1, <2>4
  <2>6. ASSUME NEW i \in 1..(d - b) PROVE t[i] = log[b + i]
    <3>1. i \in 1..(d - m + 1) /\ m + i - 1 = b + i
      BY <1>2, <2>1
    <3> QED BY <2>4, <3>1
  <2> QED BY <2>4, <2>5, <2>6
<1>6. RowsOf(log, k) = t
  BY <1>1, <1>4 DEF RowsOf
<1> QED BY <1>1, <1>3, <1>5, <1>6

\* A job without a row in the log has no rows, and one with a row has some.
LEMMA NoRows ==
  ASSUME NEW log \in Seq(Rows), JobsInOrder(log), NEW k \in Nat,
         \A i \in DOMAIN log : log[i].job # k
  PROVE  RowsOf(log, k) = <<>>
<1>1. PICK n, b, d : n = Len(log) /\ b = Before(log, k) /\ d = Before(log, k + 1)
  OBVIOUS
<1>2. /\ b \in 0..n /\ d \in 0..n /\ n \in Nat /\ b <= d
      /\ \A i \in 1..n : log[i].job < k <=> i <= b
      /\ \A i \in 1..n : log[i].job < k + 1 <=> i <= d
  <2>1. k + 1 \in Nat
    OBVIOUS
  <2>2. b \in 0..n /\ \A i \in 1..n : log[i].job < k <=> i <= b
    BY <1>1, BeforeIs
  <2>3. d \in 0..n /\ \A i \in 1..n : log[i].job < k + 1 <=> i <= d
    BY <1>1, <2>1, BeforeIs
  <2>4. b <= d
    BY <1>1, RowsAre
  <2> QED BY <1>1, <2>2, <2>3, <2>4
<1>3. ~(b < d)
  <2> SUFFICES ASSUME b < d PROVE FALSE
    OBVIOUS
  <2>1. d \in 1..n /\ ~(d <= b) /\ d \in DOMAIN log
    BY <1>1, <1>2
  <2>2. log[d] \in Rows
    BY <2>1
  <2>3. log[d].job \in Nat
    BY <2>2 DEF Rows
  <2>4. log[d].job < k + 1 /\ ~(log[d].job < k)
    BY <1>2, <2>1
  <2>5. log[d].job = k
    BY <2>3, <2>4
  <2> QED BY <2>1, <2>5
<1>4. RowsOf(log, k) \in Seq(Rows) /\ Len(RowsOf(log, k)) = 0
  BY <1>1, <1>2, <1>3, RowsAre
<1> QED BY <1>4

LEMMA HasRows ==
  ASSUME NEW log \in Seq(Rows), JobsInOrder(log), NEW k \in Nat,
         NEW i \in DOMAIN log, log[i].job = k
  PROVE  RowsOf(log, k) # <<>>
<1>1. PICK n, b, d : n = Len(log) /\ b = Before(log, k) /\ d = Before(log, k + 1)
  OBVIOUS
<1>2. /\ b \in 0..n /\ d \in 0..n /\ n \in Nat
      /\ \A j \in 1..n : log[j].job < k <=> j <= b
      /\ \A j \in 1..n : log[j].job < k + 1 <=> j <= d
  <2>1. k + 1 \in Nat
    OBVIOUS
  <2>2. b \in 0..n /\ \A j \in 1..n : log[j].job < k <=> j <= b
    BY <1>1, BeforeIs
  <2>3. d \in 0..n /\ \A j \in 1..n : log[j].job < k + 1 <=> j <= d
    BY <1>1, <2>1, BeforeIs
  <2> QED BY <1>1, <2>2, <2>3
<1>3. ~(i <= b) /\ i <= d /\ i \in 1..n
  BY <1>1, <1>2
<1>4. Len(RowsOf(log, k)) = d - b /\ d - b # 0
  BY <1>1, <1>2, <1>3, RowsAre, SMTT(30)
<1> QED BY <1>4

\* The rows of the last job end the log.
LEMMA LastRows ==
  ASSUME NEW log \in Seq(Rows), JobsInOrder(log), NEW J \in Nat,
         \A i \in DOMAIN log : log[i].job <= J
  PROVE  /\ Before(log, J + 1) = Len(log)
         /\ Len(RowsOf(log, J)) = Len(log) - Before(log, J)
<1>1. J + 1 \in Nat
  OBVIOUS
<1>2. PICK n, d : n = Len(log) /\ d = Before(log, J + 1)
  OBVIOUS
<1>3. n \in Nat /\ d \in 0..n /\ \A i \in 1..n : log[i].job < J + 1 <=> i <= d
  <2>1. d \in 0..n /\ \A i \in 1..n : log[i].job < J + 1 <=> i <= d
    BY <1>1, <1>2, BeforeIs
  <2> QED BY <1>2, <2>1
<1>4. d = n
  <2>1. CASE n = 0
    BY <1>3, <2>1
  <2>2. CASE n # 0
    <3>1. n \in 1..n /\ n \in DOMAIN log
      BY <1>2, <1>3, <2>2
    <3>2. log[n] \in Rows
      BY <3>1
    <3>3. log[n].job \in Nat /\ log[n].job <= J
      BY <3>1, <3>2 DEF Rows
    <3>4. log[n].job < J + 1
      BY <3>3
    <3> QED BY <1>3, <3>1, <3>4
  <2> QED BY <2>1, <2>2
<1>5. Before(log, J + 1) = Len(log)
  BY <1>2, <1>4
<1>6. Len(RowsOf(log, J)) = Before(log, J + 1) - Before(log, J)
  BY RowsAre
<1> QED BY <1>5, <1>6

\* A row of the last job is appended to those of its job and changes no other.
LEMMA RowAppended ==
  ASSUME NEW log \in Seq(Rows), JobsInOrder(log), NEW J \in Nat,
         \A i \in DOMAIN log : log[i].job <= J,
         NEW row \in Rows, row.job = J
  PROVE  /\ Append(log, row) \in Seq(Rows) /\ JobsInOrder(Append(log, row))
         /\ \A i \in DOMAIN Append(log, row) : Append(log, row)[i].job <= J
         /\ RowsOf(Append(log, row), J) = Append(RowsOf(log, J), row)
         /\ \A k \in Nat : k < J => RowsOf(Append(log, row), k) = RowsOf(log, k)
<1>1. PICK new, n : new = Append(log, row) /\ n = Len(log)
  OBVIOUS
<1>2. /\ new \in Seq(Rows) /\ Len(new) = n + 1 /\ new[n + 1] = row /\ n \in Nat
      /\ \A i \in 1..n : new[i] = log[i]
      /\ DOMAIN new = 1..(n + 1) /\ DOMAIN log = 1..n
  BY <1>1
<1>3. /\ \A i \in 1..n : log[i].job \in Nat /\ log[i].job <= J
      /\ \A i, j \in 1..n : i <= j => log[i].job <= log[j].job
  <2>1. \A i \in 1..n : log[i] \in Rows
    BY <1>1
  <2> QED BY <1>2, <2>1 DEF Rows, JobsInOrder
<1>4. \A i \in 1..(n + 1) : i \in 1..n \/ i = n + 1
  BY <1>2
<1>5. \A i \in 1..(n + 1) : new[i].job \in Nat /\ new[i].job <= J
  BY <1>2, <1>3, <1>4
<1>6. JobsInOrder(new)
  <2> SUFFICES ASSUME NEW i \in 1..(n + 1), NEW j \in 1..(n + 1), i <= j
               PROVE  new[i].job <= new[j].job
    BY <1>2 DEF JobsInOrder
  <2>1. CASE j = n + 1
    BY <1>2, <1>5, <2>1
  <2>2. CASE j \in 1..n
    <3>1. i \in 1..n
      BY <1>2, <2>2
    <3> QED BY <1>2, <1>3, <2>2, <3>1
  <2> QED BY <1>4, <2>1, <2>2
<1>7. ASSUME NEW k \in Nat, k <= J PROVE Before(new, k) = Before(log, k)
  <2>1. PICK a, b : a = Before(new, k) /\ b = Before(log, k)
    OBVIOUS
  <2>2. a \in 0..(n + 1) /\ \A i \in 1..(n + 1) : new[i].job < k <=> i <= a
    BY <1>2, <1>6, <2>1, BeforeIs
  <2>3. b \in 0..n /\ \A i \in 1..n : log[i].job < k <=> i <= b
    BY <1>1, <2>1, BeforeIs
  <2>4. ~(a < b)
    <3> SUFFICES ASSUME a < b PROVE FALSE
      OBVIOUS
    <3>1. b \in 1..n /\ ~(b <= a) /\ b \in 1..(n + 1)
      BY <1>2, <2>2, <2>3
    <3>2. new[b].job = log[b].job
      BY <1>2, <3>1
    <3> QED BY <2>2, <2>3, <3>1, <3>2
  <2>5. ~(b < a)
    <3> SUFFICES ASSUME b < a PROVE FALSE
      OBVIOUS
    <3>1. a \in 1..(n + 1) /\ ~(a <= b)
      BY <1>2, <2>2, <2>3
    <3>2. new[a].job < k
      BY <2>2, <3>1
    <3>3. CASE a = n + 1
      BY <1>2, <1>7, <3>2, <3>3
    <3>4. CASE a \in 1..n
      BY <1>2, <2>3, <3>1, <3>2, <3>4
    <3> QED BY <1>4, <3>1, <3>3, <3>4
  <2> QED BY <1>2, <2>1, <2>2, <2>3, <2>4, <2>5
<1>8. ASSUME NEW k \in Nat, k < J PROVE RowsOf(new, k) = RowsOf(log, k)
  <2>1. k <= J /\ k + 1 \in Nat /\ k + 1 <= J
    BY <1>8
  <2>2. PICK b, d : b = Before(log, k) /\ d = Before(log, k + 1)
    OBVIOUS
  <2>3. Before(new, k) = b /\ Before(new, k + 1) = d
    BY <1>7, <2>1, <2>2
  <2>4. b \in 0..n
    BY <1>1, <2>2, BeforeIs
  <2>5. d \in 0..n
    BY <1>1, <2>1, <2>2, BeforeIs
  <2>6. PICK t, u : t = RowsOf(new, k) /\ u = RowsOf(log, k)
    OBVIOUS
  <2>7. /\ t \in Seq(Rows) /\ Len(t) = d - b /\ b <= d
        /\ \A i \in 1..Len(t) : t[i] = new[b + i]
    BY <1>2, <1>6, <2>3, <2>6, RowsAre
  <2>8. /\ u \in Seq(Rows) /\ Len(u) = d - b
        /\ \A i \in 1..Len(u) : u[i] = log[b + i]
    BY <2>2, <2>6, RowsAre
  <2>9. ASSUME NEW i \in 1..(d - b) PROVE t[i] = u[i]
    <3>1. b + i \in 1..n
      BY <1>2, <2>4, <2>5
    <3>2. t[i] = new[b + i] /\ u[i] = log[b + i]
      BY <2>7, <2>8
    <3> QED BY <1>2, <3>1, <3>2
  <2>10. t = u
    BY <2>7, <2>8, <2>9
  <2> QED BY <2>6, <2>10
<1>9. RowsOf(new, J) = Append(RowsOf(log, J), row)
  <2>1. PICK b : b = Before(log, J)
    OBVIOUS
  <2>2. b \in 0..n /\ Before(new, J) = b
    BY <1>1, <1>7, <2>1, BeforeIs
  <2>3. PICK t, u : t = RowsOf(new, J) /\ u = RowsOf(log, J)
    OBVIOUS
  <2>4. Len(t) = n + 1 - b /\ Len(u) = n - b
    <3>1. Len(t) = Len(new) - Before(new, J)
      BY <1>2, <1>5, <1>6, <2>3, LastRows
    <3>2. Len(u) = Len(log) - Before(log, J)
      BY <2>3, LastRows
    <3> QED BY <1>1, <1>2, <2>1, <2>2, <3>1, <3>2
  <2>5. t \in Seq(Rows) /\ \A i \in 1..Len(t) : t[i] = new[b + i]
    BY <1>2, <1>6, <2>2, <2>3, RowsAre, ZenonT(30)
  <2>6. u \in Seq(Rows) /\ \A i \in 1..Len(u) : u[i] = log[b + i]
    BY <2>1, <2>3, RowsAre
  <2>7. PICK v : v = Append(u, row)
    OBVIOUS
  <2>8. /\ v \in Seq(Rows) /\ Len(v) = n - b + 1 /\ v[n - b + 1] = row
        /\ \A i \in 1..(n - b) : v[i] = u[i]
    BY <1>2, <2>2, <2>4, <2>6, <2>7
  <2>9. ASSUME NEW i \in 1..(n + 1 - b) PROVE t[i] = v[i]
    <3>1. t[i] = new[b + i]
      BY <2>4, <2>5
    <3>2. CASE i = n + 1 - b
      <4>1. b + i = n + 1 /\ i = n - b + 1
        BY <1>2, <2>2, <3>2
      <4> QED BY <1>2, <2>8, <3>1, <4>1
    <3>3. CASE i \in 1..(n - b)
      <4>1. b + i \in 1..n
        BY <1>2, <2>2, <3>3
      <4> QED BY <1>2, <2>4, <2>6, <2>8, <3>1, <3>3, <4>1
    <3>4. i = n + 1 - b \/ i \in 1..(n - b)
      BY <1>2, <2>2
    <3> QED BY <3>2, <3>3, <3>4
  <2>10. Len(t) = Len(v)
    BY <1>2, <2>2, <2>4, <2>8
  <2>11. t = v
    BY <2>4, <2>5, <2>8, <2>9, <2>10
  <2> QED BY <2>3, <2>7, <2>11
<1> QED BY <1>1, <1>2, <1>5, <1>6, <1>8, <1>9

\* The best of some rows is one of them, and a result is made of it.
LEMMA BestIs ==
  ASSUME NEW rows \in Seq(Rows), rows # <<>>
  PROVE  BestOf(rows) \in Rows
<1> DEFINE S == {rows[i].score : i \in DOMAIN rows}
           T == {i \in DOMAIN rows : \A j \in DOMAIN rows : rows[j].score <= rows[i].score}
<1>1. /\ DOMAIN rows = 1..Len(rows) /\ Len(rows) \in Nat /\ 1 \in DOMAIN rows
      /\ \A i \in DOMAIN rows : rows[i] \in Rows /\ rows[i].score \in 0..100
  <2>1. \A i \in DOMAIN rows : rows[i] \in Rows
    OBVIOUS
  <2> QED BY <2>1 DEF Rows
<1>2. S \subseteq 0..100 /\ S # {}
  BY <1>1
<1>3. PICK m \in S : \A k \in S : k <= m
  <2>1. 100 \in Nat
    OBVIOUS
  <2> HIDE DEF S
  <2> QED BY <1>2, <2>1, LargestOf
<1>4. T # {} /\ T \subseteq Nat
  BY <1>1, <1>3
<1>5. Min(T) \in T
  <2> HIDE DEF T
  <2> QED BY <1>4, SmallestOf
<1> QED BY <1>1, <1>5 DEF BestOf

LEMMA ResultIs ==
  ASSUME NEW rows \in Seq(Rows), rows # <<>>, Len(rows) <= CtMaxExperiments
  PROVE  ResultOf(rows) \in Results
<1>1. BestOf(rows) \in Rows
  BY BestIs
<1>2. Len(rows) \in 1..CtMaxExperiments
  <2>1. Len(rows) \in Nat /\ Len(rows) # 0
    OBVIOUS
  <2> QED BY <2>1, ChainTuningAssumption
<1> QED BY <1>1, <1>2 DEF ResultOf, Rows, Results
-----------------------------------------------------------------------------
(* The invariant                                                           *)

\* The types the proof needs.
CallsOf == {c \in [robot : Robots, profile : ToSet(ProfileIds)] :
              c.robot \in {Agent, RobotOf(c.profile)}}
ReportsOf == [call : CallsOf, results : Seq(Results),
              score : {ChainScore(rs) : rs \in Seq(Results)},
              total : {SumCounts(rs) : rs \in Seq(Results)}]

ChainShape ==
  /\ ctTodo \in Seq(CallsOf)
  /\ ctResults \in Seq(Results) /\ Len(ctResults) <= Len(Order)
  /\ ctRun = NoRun \/ (ctRun \in Seq(Rows) /\ Len(ctRun) < CtMaxExperiments)
  /\ ctReports \in Seq(ReportsOf)
  /\ ctLog \in [Workspaces -> Seq(Rows)]
  /\ ctStart \in [Workspaces -> Int]
  /\ ctJob \in 0..MaxJobs

\* The rows of a log come job by job, and none of a job to come.
LogsInOrder ==
  \A w \in Workspaces :
    JobsInOrder(ctLog[w]) /\ \A i \in DOMAIN ctLog[w] : ctLog[w][i].job <= ctJob

\* No two calls of a job share a workspace.
RobotsDiffer ==
  /\ \A i, j \in DOMAIN ctTodo : ctTodo[i].robot = ctTodo[j].robot => i = j
  /\ \A k \in DOMAIN ctReports, i \in DOMAIN ctTodo :
       ctReports[k].call.robot # ctTodo[i].robot

\* What this job has logged: whole runs of the joints above, the rows of the
\* run in progress, and nothing below them or in the calls to come.
Logged(r, i) == RowsOf(ctLog[<<r, Order[i]>>], ctJob)
RunsAreLogged ==
  /\ ctTodo = <<>> => ctResults = <<>> /\ ctRun = NoRun
  /\ ctRun # NoRun => Len(ctResults) < Len(Order)
  /\ ctTodo # <<>> =>
       /\ \A i \in 1..Len(ctResults) :
            /\ Logged(Call.robot, i) # <<>> /\ Enough(Logged(Call.robot, i))
            /\ ctResults[i] = ResultOf(Logged(Call.robot, i))
       /\ Len(ctResults) < Len(Order) =>
            Logged(Call.robot, Len(ctResults) + 1) = IF ctRun = NoRun THEN <<>> ELSE ctRun
       /\ \A i \in (Len(ctResults) + 2)..Len(Order) : Logged(Call.robot, i) = <<>>
  /\ \A m \in 2..Len(ctTodo), i \in 1..Len(Order) : Logged(ctTodo[m].robot, i) = <<>>

\* A report is of what this job has logged for its robot.
ReportsStand ==
  \A k \in DOMAIN ctReports :
    /\ Len(ctReports[k].results) = Len(Order)
    /\ ctReports[k].score = ChainScore(ctReports[k].results)
    /\ \A i \in 1..Len(Order) :
         ctReports[k].results[i] = ResultOf(Logged(ctReports[k].call.robot, i))

\* A tag is set before the first row; that of the run in progress stands
\* right before its rows.
TagsStand ==
  /\ \A w \in Workspaces :
       /\ ctStart[w] \in -1..Len(ctLog[w])
       /\ ctStart[w] = -1 => ctLog[w] = <<>>
  /\ ctRun # NoRun => ctStart[Here] = Len(ctLog[Here]) - Len(ctRun)

\* What a call hands on in memory is what its job has logged, which the
\* properties, being about the logs and the reports, do not say by themselves.
ChainInv == /\ ChainShape /\ LogsInOrder /\ RobotsDiffer /\ RunsAreLogged
            /\ ReportsStand /\ TagsStand
            /\ TunedInOrder /\ OneProfilePerLog /\ TagPartsRuns

\* The joints and the profiles are numbered without repetition.
LEMMA OrderFacts ==
  /\ Len(Order) \in Nat /\ Len(Order) >= 1 /\ DOMAIN Order = 1..Len(Order)
  /\ Len(ProfileIds) \in Nat /\ Len(ProfileIds) >= 1
  /\ DOMAIN ProfileIds = 1..Len(ProfileIds)
  /\ \A i \in 1..Len(Order) : Order[i] \in CtJoints
  /\ \A i \in 1..Len(ProfileIds) : ProfileIds[i] \in ToSet(ProfileIds)
  /\ \A i, j \in 1..Len(Order) : Order[i] = Order[j] => i = j
  /\ \A i, j \in 1..Len(ProfileIds) : ProfileIds[i] = ProfileIds[j] => i = j
<1>1. /\ Len(Order) \in Nat /\ Len(Order) >= 1 /\ DOMAIN Order = 1..Len(Order)
      /\ Len(ProfileIds) \in Nat /\ Len(ProfileIds) >= 1
      /\ DOMAIN ProfileIds = 1..Len(ProfileIds)
  BY ChainTuningAssumption
<1>2. \A i \in 1..Len(Order) : Order[i] \in CtJoints
  BY <1>1 DEF CtJoints, ToSet
<1>3. \A i \in 1..Len(ProfileIds) : ProfileIds[i] \in ToSet(ProfileIds)
  BY <1>1 DEF ToSet
<1>4. IsInjective(Order) /\ IsInjective(ProfileIds)
  BY ChainTuningAssumption
<1> QED BY <1>1, <1>2, <1>3, <1>4 DEF IsInjective

\* The workspaces of the profiles differ from each other and the agent's.
LEMMA RobotFacts ==
  /\ \A p, q : RobotOf(p) = RobotOf(q) => p = q
  /\ \A p : RobotOf(p) # Agent
<1>1. ASSUME NEW p PROVE Len(RobotOf(p)) = 2 /\ RobotOf(p)[2] = p
  <2>1. PICK S, a, b : S = {"robot", p} /\ a = <<"robot">> /\ b = <<p>>
    OBVIOUS
  <2>2. a \in Seq(S) /\ b \in Seq(S) /\ Len(a) = 1 /\ Len(b) = 1 /\ b[1] = p
    BY <2>1
  <2>3. /\ Len(a \o b) = Len(a) + Len(b)
        /\ \A i \in 1..(Len(a) + Len(b)) :
             (a \o b)[i] = IF i <= Len(a) THEN a[i] ELSE b[i - Len(a)]
    BY <2>2, ConcatProperties
  <2>4. RobotOf(p) = a \o b
    BY <2>1 DEF RobotOf, Agent
  <2> QED BY <2>2, <2>3, <2>4
<1>2. Len(Agent) = 1
  BY DEF Agent
<1> QED BY <1>1, <1>2

\* The workspace of the run in progress, or of the next.
LEMMA HereIs ==
  ASSUME ChainShape, ctTodo # <<>>, Len(ctResults) < Len(Order)
  PROVE  /\ Call = ctTodo[1] /\ Call \in CallsOf /\ Call.robot \in Robots
         /\ Call.profile \in ToSet(ProfileIds)
         /\ Len(ctResults) + 1 \in 1..Len(Order)
         /\ Here = <<Call.robot, Order[Len(ctResults) + 1]>> /\ Here \in Workspaces
<1>1. ctTodo[1] \in CallsOf /\ Call = ctTodo[1]
  BY DEF ChainShape, Call
<1>2. Call.robot \in Robots /\ Call.profile \in ToSet(ProfileIds)
  BY <1>1 DEF CallsOf
<1>3. Len(ctResults) + 1 \in 1..Len(Order)
  BY OrderFacts DEF ChainShape
<1>4. Order[Len(ctResults) + 1] \in CtJoints
  BY <1>3, OrderFacts
<1> QED BY <1>1, <1>2, <1>3, <1>4 DEF Here, Joint, Workspaces

\* Nothing is in progress and no log has a row at first.
LEMMA ChainStarts == CtInit => ChainInv
<1> SUFFICES ASSUME CtInit PROVE ChainInv
  OBVIOUS
<1>1. ChainShape
  BY ChainTuningAssumption, OrderFacts DEF CtInit, ChainShape
<1>2. \A w \in Workspaces : ctLog[w] = <<>> /\ DOMAIN ctLog[w] = {} /\ ctStart[w] = -1
                            /\ Len(ctLog[w]) = 0
  BY DEF CtInit
<1>3. LogsInOrder
  BY <1>2 DEF LogsInOrder, JobsInOrder
<1>4. RobotsDiffer
  BY DEF CtInit, RobotsDiffer
<1>5. RunsAreLogged
  BY DEF CtInit, RunsAreLogged
<1>6. ReportsStand
  BY DEF CtInit, ReportsStand
<1>7. TagsStand
  BY <1>2 DEF CtInit, TagsStand
<1>8. \A r \in Robots, j \in CtJoints : ToSet(ctLog[<<r, j>>]) = {}
  BY <1>2 DEF Workspaces, ToSet
<1>9. TunedInOrder
  BY <1>8, OrderFacts DEF TunedInOrder
<1>10. OneProfilePerLog
  BY <1>8 DEF OneProfilePerLog, Robots
<1>11. TagPartsRuns
  BY <1>2 DEF TagPartsRuns, JobsInOrder
<1> QED BY <1>1, <1>3, <1>4, <1>5, <1>6, <1>7, <1>9, <1>10, <1>11 DEF ChainInv

\* What concerns the logs alone.
LEMMA LogsUnchanged ==
  ASSUME ChainInv, ctLog' = ctLog, ctJob' \in Nat, ctJob' >= ctJob
  PROVE  LogsInOrder' /\ TunedInOrder' /\ OneProfilePerLog'
<1>1. LogsInOrder'
  <2> SUFFICES ASSUME NEW w \in Workspaces
               PROVE  JobsInOrder(ctLog[w])' /\ \A i \in DOMAIN ctLog[w] : ctLog[w][i].job <= ctJob'
    BY DEF LogsInOrder
  <2>1. JobsInOrder(ctLog[w]) /\ \A i \in DOMAIN ctLog[w] : ctLog[w][i].job <= ctJob
    BY DEF ChainInv, LogsInOrder
  <2>2. ctLog[w] \in Seq(Rows) /\ ctJob \in Nat
    BY DEF ChainInv, ChainShape
  <2>3. \A i \in DOMAIN ctLog[w] : ctLog[w][i] \in Rows
    BY <2>2
  <2>4. \A i \in DOMAIN ctLog[w] : ctLog[w][i].job <= ctJob'
    BY <2>1, <2>2, <2>3 DEF Rows
  <2> QED BY <2>1, <2>4 DEF JobsInOrder
<1>2. TunedInOrder'
  BY DEF ChainInv, TunedInOrder
<1>3. OneProfilePerLog'
  BY DEF ChainInv, OneProfilePerLog
<1> QED BY <1>1, <1>2, <1>3

\* A new job: none of its rows is in a log.
LEMMA JobBegins ==
  ASSUME ChainInv, NEW calls \in Seq(CallsOf), Start(calls),
         \A i, j \in DOMAIN calls : calls[i].robot = calls[j].robot => i = j,
         calls # <<>>
  PROVE  ChainInv'
<1>1. /\ ctTodo = <<>> /\ ctTodo' = calls /\ ctJob' = ctJob + 1 /\ ctJob < MaxJobs
      /\ ctReports' = <<>> /\ ctResults' = ctResults /\ ctRun' = ctRun
      /\ ctLog' = ctLog /\ ctStart' = ctStart
  BY DEF Start
<1>2. ctResults = <<>> /\ ctRun = NoRun /\ ctJob \in Nat /\ ctJob' \in Nat /\ ctJob' \in 0..MaxJobs
  BY <1>1, ChainTuningAssumption DEF ChainInv, ChainShape, RunsAreLogged
<1>3. ChainShape'
  BY <1>1, <1>2 DEF ChainInv, ChainShape
<1>4. LogsInOrder' /\ TunedInOrder' /\ OneProfilePerLog'
  BY <1>1, <1>2, LogsUnchanged
<1>5. RobotsDiffer'
  BY <1>1 DEF RobotsDiffer
<1>6. ASSUME NEW r \in Robots, NEW i \in 1..Len(Order)
      PROVE  RowsOf(ctLog'[<<r, Order[i]>>], ctJob') = <<>>
  <2>1. PICK log : log = ctLog'[<<r, Order[i]>>]
    OBVIOUS
  <2>2. <<r, Order[i]>> \in Workspaces
    BY OrderFacts DEF Workspaces
  <2>3. /\ log \in Seq(Rows) /\ JobsInOrder(log)
        /\ \A k \in DOMAIN log : log[k].job <= ctJob
    BY <1>1, <2>1, <2>2 DEF ChainInv, ChainShape, LogsInOrder
  <2>4. \A k \in DOMAIN log : log[k] \in Rows
    BY <2>3
  <2>5. \A k \in DOMAIN log : log[k].job # ctJob'
    BY <1>1, <1>2, <2>3, <2>4 DEF Rows
  <2> QED BY <1>2, <2>1, <2>3, <2>5, NoRows
<1>7. \A m \in 1..Len(calls) : calls[m].robot \in Robots
  <2>1. \A m \in 1..Len(calls) : calls[m] \in CallsOf
    OBVIOUS
  <2> QED BY <2>1 DEF CallsOf
<1>8. RunsAreLogged'
  <2>1. Len(ctResults') = 0 /\ ctRun' = NoRun /\ ctTodo' # <<>>
    BY <1>1, <1>2
  <2>2. Call' = calls[1] /\ Call'.robot \in Robots
    BY <1>1, <1>7 DEF Call
  <2>3. \A i \in 1..Len(Order) : Logged(Call.robot, i)' = <<>>
    BY <1>6, <2>2 DEF Logged
  <2>4. \A m \in 2..Len(ctTodo'), i \in 1..Len(Order) : Logged(ctTodo[m].robot, i)' = <<>>
    BY <1>1, <1>6, <1>7 DEF Logged
  <2>5. /\ \A i \in 1..Len(ctResults') : FALSE
        /\ Len(ctResults') + 1 \in 1..Len(Order)
        /\ \A i \in (Len(ctResults') + 2)..Len(Order) : i \in 1..Len(Order)
    BY <2>1, OrderFacts
  <2> QED BY <2>1, <2>3, <2>4, <2>5 DEF RunsAreLogged, Logged
<1>9. ReportsStand'
  BY <1>1 DEF ReportsStand
<1>10. TagsStand' /\ TagPartsRuns'
  BY <1>1, <1>2 DEF ChainInv, TagsStand, TagPartsRuns
<1> QED BY <1>3, <1>4, <1>5, <1>8, <1>9, <1>10 DEF ChainInv

\* The steps of CtNext, one after the other.
LEMMA TuneProfilesKeeps ==
  ASSUME ChainInv, TuneProfiles
  PROVE  ChainInv'
<1>1. PICK calls : calls = [i \in DOMAIN ProfileIds |->
                              [robot |-> RobotOf(ProfileIds[i]), profile |-> ProfileIds[i]]]
  OBVIOUS
<1>2. DOMAIN calls = 1..Len(ProfileIds)
  BY <1>1, OrderFacts
<1>3. ASSUME NEW i \in 1..Len(ProfileIds)
      PROVE  calls[i] \in CallsOf /\ calls[i].robot = RobotOf(ProfileIds[i])
  <2>1. ProfileIds[i] \in ToSet(ProfileIds)
    BY OrderFacts
  <2>2. calls[i] = [robot |-> RobotOf(ProfileIds[i]), profile |-> ProfileIds[i]]
    BY <1>1, OrderFacts
  <2> QED BY <2>1, <2>2 DEF CallsOf, Robots
<1>4. calls \in Seq(CallsOf) /\ Len(calls) = Len(ProfileIds)
  BY <1>1, <1>2, <1>3, OrderFacts
<1>5. \A i, j \in DOMAIN calls : calls[i].robot = calls[j].robot => i = j
  BY <1>2, <1>3, OrderFacts, RobotFacts
<1>6. calls # <<>>
  BY <1>4, OrderFacts
<1>7. Start(calls)
  BY <1>1 DEF TuneProfiles
<1> QED BY <1>4, <1>5, <1>6, <1>7, JobBegins

LEMMA TuneAgentKeeps ==
  ASSUME ChainInv, NEW p \in ToSet(ProfileIds), TuneAgent(p)
  PROVE  ChainInv'
<1>1. PICK calls : calls = <<[robot |-> Agent, profile |-> p]>>
  OBVIOUS
<1>2. [robot |-> Agent, profile |-> p] \in CallsOf
  BY DEF CallsOf, Robots
<1>3. calls \in Seq(CallsOf) /\ calls # <<>> /\ DOMAIN calls = 1..1
  BY <1>1, <1>2
<1>4. \A i, j \in DOMAIN calls : calls[i].robot = calls[j].robot => i = j
  BY <1>3
<1>5. Start(calls)
  BY <1>1 DEF TuneAgent
<1> QED BY <1>3, <1>4, <1>5, JobBegins

LEMMA OpenJointKeeps ==
  ASSUME ChainInv, OpenJoint
  PROVE  ChainInv'
<1>1. /\ ctTodo # <<>> /\ ctRun = NoRun /\ Len(ctResults) < Len(Order) /\ ctRun' = <<>>
      /\ ctStart' = [ctStart EXCEPT ![Here] = Len(ctLog[Here])]
      /\ UNCHANGED <<ctTodo, ctResults, ctReports, ctLog, ctJob>>
  BY DEF OpenJoint, Tagged
<1>2. Here \in Workspaces /\ Here' = Here
  BY <1>1, HereIs DEF ChainInv, Here, Call, Joint
<1>3. <<>> \in Seq(Rows) /\ Len(<<>>) = 0
  OBVIOUS
<1>4. ctLog[Here] \in Seq(Rows) /\ Len(ctLog[Here]) \in Nat /\ ctStart \in [Workspaces -> Int]
  BY <1>2 DEF ChainInv, ChainShape
<1>5. ChainShape'
  <2>1. ctStart' \in [Workspaces -> Int]
    BY <1>1, <1>2, <1>4
  <2>2. Len(ctRun') < CtMaxExperiments /\ ctRun' \in Seq(Rows)
    BY <1>1, <1>3, ChainTuningAssumption
  <2> QED BY <1>1, <2>1, <2>2 DEF ChainInv, ChainShape
<1>6. LogsInOrder' /\ TunedInOrder' /\ OneProfilePerLog'
  BY <1>1, LogsUnchanged DEF ChainInv, ChainShape
<1>7. RobotsDiffer' /\ ReportsStand'
  BY <1>1 DEF ChainInv, RobotsDiffer, ReportsStand, Logged
<1>8. RunsAreLogged'
  <2>1. Logged(Call.robot, Len(ctResults) + 1) = <<>>
    BY <1>1 DEF ChainInv, RunsAreLogged
  <2>2. (IF ctRun' = NoRun THEN <<>> ELSE ctRun') = <<>>
    BY <1>1
  <2> QED BY <1>1, <2>1, <2>2 DEF ChainInv, RunsAreLogged, Logged, Call
<1>9. ASSUME NEW w \in Workspaces, w # Here PROVE ctStart'[w] = ctStart[w] /\ ctLog'[w] = ctLog[w]
  BY <1>1, <1>4, <1>9
<1>10. ctStart'[Here] = Len(ctLog[Here]) /\ ctLog'[Here] = ctLog[Here]
  BY <1>1, <1>2, <1>4
<1>11. TagsStand'
  <2>1. ASSUME NEW w \in Workspaces
        PROVE  ctStart'[w] \in -1..Len(ctLog'[w]) /\ (ctStart'[w] = -1 => ctLog'[w] = <<>>)
    <3>1. CASE w = Here
      BY <1>4, <1>10, <3>1
    <3>2. CASE w # Here
      <4>1. ctStart[w] \in -1..Len(ctLog[w]) /\ (ctStart[w] = -1 => ctLog[w] = <<>>)
        BY DEF ChainInv, TagsStand
      <4>2. ctStart'[w] = ctStart[w] /\ ctLog'[w] = ctLog[w]
        BY <1>9, <3>2
      <4> QED BY <4>1, <4>2
    <3> QED BY <3>1, <3>2
  <2>2. ctStart'[Here'] = Len(ctLog'[Here']) - Len(ctRun')
    BY <1>1, <1>2, <1>3, <1>4, <1>10
  <2> QED BY <2>1, <2>2 DEF TagsStand
<1>12. TagPartsRuns'
  <2> SUFFICES ASSUME NEW w \in Workspaces
               PROVE  /\ JobsInOrder(ctLog'[w])
                      /\ \A i, j \in DOMAIN ctLog'[w] : j > ctStart'[w] =>
                           /\ ctLog'[w][j].job = ctLog'[w][Len(ctLog'[w])].job
                           /\ i <= ctStart'[w] => ctLog'[w][i].job < ctLog'[w][j].job
    BY DEF TagPartsRuns, JobsInOrder
  <2>1. CASE w = Here
    <3>1. \A j \in DOMAIN ctLog[Here] : ~(j > Len(ctLog[Here]))
      BY <1>4
    <3>2. JobsInOrder(ctLog[Here])
      BY <1>2 DEF ChainInv, LogsInOrder
    <3> QED BY <1>10, <2>1, <3>1, <3>2
  <2>2. CASE w # Here
    BY <1>9, <2>2 DEF ChainInv, TagPartsRuns
  <2> QED BY <2>1, <2>2
<1> QED BY <1>5, <1>6, <1>7, <1>8, <1>11, <1>12 DEF ChainInv

LEMMA AbortKeeps ==
  ASSUME ChainInv, Abort
  PROVE  ChainInv'
<1>1. /\ ctTodo' = <<>> /\ ctResults' = <<>> /\ ctRun' = NoRun /\ ctReports' = <<>>
      /\ UNCHANGED <<ctLog, ctStart, ctJob>>
  BY DEF Abort
<1>2. ChainShape'
  BY <1>1, OrderFacts DEF ChainInv, ChainShape
<1>3. LogsInOrder' /\ TunedInOrder' /\ OneProfilePerLog'
  BY <1>1, LogsUnchanged DEF ChainInv, ChainShape
<1>4. RobotsDiffer' /\ RunsAreLogged' /\ ReportsStand'
  BY <1>1 DEF RobotsDiffer, RunsAreLogged, ReportsStand
<1>5. TagsStand' /\ TagPartsRuns'
  BY <1>1 DEF ChainInv, TagsStand, TagPartsRuns
<1> QED BY <1>2, <1>3, <1>4, <1>5 DEF ChainInv

\* The report of a call is what its job has logged.
LEMMA CloseChainKeeps ==
  ASSUME ChainInv, CloseChain
  PROVE  ChainInv'
<1>1. /\ ctTodo # <<>> /\ ctRun = NoRun /\ Len(ctResults) = Len(Order)
      /\ ctReports' = Append(ctReports,
           [call |-> Call, results |-> ctResults, score |-> ChainScore(ctResults),
            total |-> SumCounts(ctResults)])
      /\ ctTodo' = Tail(ctTodo) /\ ctResults' = <<>>
      /\ UNCHANGED <<ctRun, ctLog, ctStart, ctJob>>
  BY DEF CloseChain
<1>2. PICK rep : rep = [call |-> Call, results |-> ctResults, score |-> ChainScore(ctResults),
                        total |-> SumCounts(ctResults)]
  OBVIOUS
<1>3. Call = ctTodo[1] /\ Call \in CallsOf /\ ctResults \in Seq(Results)
  BY <1>1 DEF ChainInv, ChainShape, Call
<1>4. rep \in ReportsOf
  BY <1>2, <1>3 DEF ReportsOf
<1>5. PICK n : n = Len(ctReports)
  OBVIOUS
<1>6. /\ ctReports \in Seq(ReportsOf) /\ n \in Nat /\ ctReports' \in Seq(ReportsOf)
      /\ Len(ctReports') = n + 1 /\ ctReports'[n + 1] = rep
      /\ \A k \in 1..n : ctReports'[k] = ctReports[k]
      /\ DOMAIN ctReports' = 1..(n + 1) /\ DOMAIN ctReports = 1..n
  BY <1>1, <1>2, <1>4, <1>5 DEF ChainInv, ChainShape
<1>7. \A k \in 1..(n + 1) : k \in 1..n \/ k = n + 1
  BY <1>6
<1>8. PICK m : m = Len(ctTodo)
  OBVIOUS
<1>9. /\ ctTodo \in Seq(CallsOf) /\ m \in Nat /\ m >= 1
      /\ ctTodo' \in Seq(CallsOf) /\ Len(ctTodo') = m - 1 /\ DOMAIN ctTodo' = 1..(m - 1)
      /\ DOMAIN ctTodo = 1..m /\ \A i \in 1..(m - 1) : ctTodo'[i] = ctTodo[i + 1]
  BY <1>1, <1>8 DEF ChainInv, ChainShape
<1>10. \A i \in 1..(m - 1) : i + 1 \in 2..m /\ i + 1 \in 1..m /\ i + 1 # 1
  BY <1>9
<1>11. ChainShape'
  <2>1. Len(ctResults') <= Len(Order) /\ ctResults' \in Seq(Results)
    BY <1>1, OrderFacts
  <2> QED BY <1>1, <1>6, <1>9, <2>1 DEF ChainInv, ChainShape
<1>12. LogsInOrder' /\ TunedInOrder' /\ OneProfilePerLog'
  BY <1>1, LogsUnchanged DEF ChainInv, ChainShape
<1>13. RobotsDiffer'
  <2>1. ASSUME NEW i \in 1..(m - 1), NEW j \in 1..(m - 1), ctTodo'[i].robot = ctTodo'[j].robot
        PROVE  i = j
    <3>1. ctTodo[i + 1].robot = ctTodo[j + 1].robot
      BY <1>9, <2>1
    <3>2. i + 1 = j + 1
      BY <1>9, <1>10, <3>1 DEF ChainInv, RobotsDiffer
    <3> QED BY <1>9, <3>2
  <2>2. ASSUME NEW k \in 1..(n + 1), NEW i \in 1..(m - 1)
        PROVE  ctReports'[k].call.robot # ctTodo'[i].robot
    <3>1. ctTodo'[i].robot = ctTodo[i + 1].robot
      BY <1>9
    <3>2. CASE k \in 1..n
      <4>1. k \in DOMAIN ctReports /\ i + 1 \in DOMAIN ctTodo /\ ctReports'[k] = ctReports[k]
        BY <1>6, <1>9, <1>10, <3>2
      <4>2. ctReports[k].call.robot # ctTodo[i + 1].robot
        BY <4>1 DEF ChainInv, RobotsDiffer
      <4> QED BY <3>1, <4>1, <4>2
    <3>3. CASE k = n + 1
      <4>1. ctReports'[k].call.robot = ctTodo[1].robot
        BY <1>2, <1>3, <1>6, <3>3
      <4>2. 1 \in 1..m
        BY <1>9
      <4> QED BY <1>9, <1>10, <3>1, <4>1, <4>2 DEF ChainInv, RobotsDiffer
    <3> QED BY <1>7, <3>2, <3>3
  <2> QED BY <1>6, <1>9, <2>1, <2>2 DEF RobotsDiffer
<1>14. ASSUME NEW r, NEW i PROVE Logged(r, i)' = Logged(r, i)
  BY <1>1 DEF Logged
<1>15. ASSUME NEW i \in 1..(m - 1), NEW j \in 1..Len(Order)
       PROVE  RowsOf(ctLog'[<<ctTodo'[i].robot, Order[j]>>], ctJob') = <<>>
  <2>1. Logged(ctTodo[i + 1].robot, j) = <<>>
    BY <1>8, <1>10 DEF ChainInv, RunsAreLogged
  <2> QED BY <1>1, <1>9, <2>1 DEF Logged
<1>16. RunsAreLogged'
  <2>1. Len(ctResults') = 0 /\ ctResults' = <<>> /\ ctRun' = NoRun
    BY <1>1
  <2>2. ctTodo' # <<>> => 1 \in 1..(m - 1) /\ Call' = ctTodo'[1]
    BY <1>9 DEF Call
  <2>3. \A i \in 2..Len(ctTodo') : i \in 1..(m - 1)
    BY <1>9
  <2>4. /\ \A i \in 1..Len(ctResults') : FALSE
        /\ Len(ctResults') + 1 \in 1..Len(Order)
        /\ \A i \in (Len(ctResults') + 2)..Len(Order) : i \in 1..Len(Order)
    BY <2>1, OrderFacts
  <2> QED BY <1>15, <2>1, <2>2, <2>3, <2>4 DEF RunsAreLogged, Logged
<1>17. ReportsStand'
  <2> SUFFICES ASSUME NEW k \in 1..(n + 1)
               PROVE  /\ Len(ctReports'[k].results) = Len(Order)
                      /\ ctReports'[k].score = ChainScore(ctReports'[k].results)
                      /\ \A i \in 1..Len(Order) : ctReports'[k].results[i] =
                           ResultOf(RowsOf(ctLog'[<<ctReports'[k].call.robot, Order[i]>>], ctJob'))
    BY <1>6 DEF ReportsStand, Logged
  <2>1. CASE k \in 1..n
    BY <1>1, <1>6, <2>1 DEF ChainInv, ReportsStand, Logged
  <2>2. CASE k = n + 1
    <3>1. ctReports'[k] = rep
      BY <1>6, <2>2
    <3>2. \A i \in 1..Len(Order) : ctResults[i] = ResultOf(Logged(Call.robot, i))
      BY <1>1 DEF ChainInv, RunsAreLogged
    <3>3. /\ rep.results = ctResults /\ rep.score = ChainScore(ctResults)
          /\ rep.call.robot = Call.robot
      BY <1>2
    <3>4. ASSUME NEW i \in 1..Len(Order)
          PROVE  ctResults[i] = ResultOf(RowsOf(ctLog'[<<Call.robot, Order[i]>>], ctJob'))
      BY <1>1, <3>2 DEF Logged
    <3> QED BY <1>1, <3>1, <3>3, <3>4
  <2> QED BY <1>7, <2>1, <2>2
<1>18. TagsStand' /\ TagPartsRuns'
  BY <1>1 DEF ChainInv, TagsStand, TagPartsRuns
<1> QED BY <1>11, <1>12, <1>13, <1>16, <1>17, <1>18 DEF ChainInv

\* An experiment adds a row to one log, as one of this job.
LEMMA ExperimentLogs ==
  ASSUME ChainInv, NEW o \in Outcomes, Experiment(o)
  PROVE  /\ ctTodo # <<>> /\ ctRun # NoRun /\ Len(ctResults) < Len(Order)
         /\ Row(o) \in Rows /\ Row(o).job = ctJob /\ Row(o).context = ctResults
         /\ Row(o).profile = Call.profile
         /\ ctLog'[Here] = Append(ctLog[Here], Row(o))
         /\ \A w \in Workspaces : w # Here => ctLog'[w] = ctLog[w]
         /\ ctLog' \in [Workspaces -> Seq(Rows)]
         /\ LogsInOrder'
         /\ RowsOf(ctLog'[Here], ctJob) = Append(ctRun, Row(o))
         /\ \A k \in Nat : k < ctJob => RowsOf(ctLog'[Here], k) = RowsOf(ctLog[Here], k)
<1>1. /\ ctRun # NoRun /\ ctLog' = [ctLog EXCEPT ![Here] = Append(@, Row(o))]
      /\ UNCHANGED <<ctTodo, ctReports, ctStart, ctJob>>
  BY DEF Experiment
<1>2. ctTodo # <<>> /\ Len(ctResults) < Len(Order)
  BY <1>1 DEF ChainInv, RunsAreLogged
<1>3. /\ Here \in Workspaces /\ Call.profile \in ToSet(ProfileIds)
      /\ Here = <<Call.robot, Order[Len(ctResults) + 1]>>
  BY <1>2, HereIs DEF ChainInv
<1>4. ctLog \in [Workspaces -> Seq(Rows)] /\ ctJob \in Nat /\ ctResults \in Seq(Results)
  BY ChainTuningAssumption DEF ChainInv, ChainShape
<1>5. /\ Row(o) \in Rows /\ Row(o).job = ctJob /\ Row(o).context = ctResults
      /\ Row(o).profile = Call.profile
  <2>1. o \in [kp : Nat, score : 0..100]
    BY ChainTuningAssumption
  <2> QED BY <1>3, <1>4, <2>1 DEF Row, Rows
<1>6. PICK log, row : log = ctLog[Here] /\ row = Row(o)
  OBVIOUS
<1>7. /\ log \in Seq(Rows) /\ JobsInOrder(log)
      /\ \A i \in DOMAIN log : log[i].job <= ctJob
  BY <1>3, <1>4, <1>6 DEF ChainInv, LogsInOrder
<1>8. /\ Append(log, row) \in Seq(Rows) /\ JobsInOrder(Append(log, row))
      /\ \A i \in DOMAIN Append(log, row) : Append(log, row)[i].job <= ctJob
      /\ RowsOf(Append(log, row), ctJob) = Append(RowsOf(log, ctJob), row)
      /\ \A k \in Nat : k < ctJob => RowsOf(Append(log, row), k) = RowsOf(log, k)
  <2>1. row \in Rows /\ row.job = ctJob
    BY <1>5, <1>6
  <2> QED BY <1>4, <1>7, <2>1, RowAppended, SMTT(30)
<1>9. ctLog'[Here] = Append(log, row) /\ \A w \in Workspaces : w # Here => ctLog'[w] = ctLog[w]
  BY <1>1, <1>3, <1>4, <1>6
<1>10. ctLog' \in [Workspaces -> Seq(Rows)]
  BY <1>1, <1>3, <1>4, <1>6, <1>8
<1>11. LogsInOrder'
  <2> SUFFICES ASSUME NEW w \in Workspaces
               PROVE  /\ JobsInOrder(ctLog'[w])
                      /\ \A i \in DOMAIN ctLog'[w] : ctLog'[w][i].job <= ctJob'
    BY DEF LogsInOrder, JobsInOrder
  <2>1. CASE w = Here
    BY <1>1, <1>8, <1>9, <2>1
  <2>2. CASE w # Here
    BY <1>1, <1>9, <2>2 DEF ChainInv, LogsInOrder
  <2> QED BY <2>1, <2>2
<1>12. RowsOf(log, ctJob) = ctRun
  <2>1. Logged(Call.robot, Len(ctResults) + 1) = ctRun
    BY <1>1, <1>2 DEF ChainInv, RunsAreLogged
  <2> QED BY <1>3, <1>6, <2>1 DEF Logged
<1>13. RowsOf(ctLog'[Here], ctJob) = Append(ctRun, Row(o))
  BY <1>6, <1>8, <1>9, <1>12
<1>14. \A k \in Nat : k < ctJob => RowsOf(ctLog'[Here], k) = RowsOf(ctLog[Here], k)
  BY <1>6, <1>8, <1>9
<1>15. ctLog'[Here] = Append(ctLog[Here], Row(o))
  BY <1>6, <1>9
<1> QED BY <1>1, <1>2, <1>5, <1>9, <1>10, <1>11, <1>13, <1>14, <1>15

\* The row was told the results of the joints above it ...
LEMMA ExperimentTuned ==
  ASSUME ChainInv, NEW o \in Outcomes, Experiment(o)
  PROVE  TunedInOrder'
<1>1. PICK n, c : n = Len(ctResults) /\ c = Call.robot
  OBVIOUS
<1>2. /\ ctTodo # <<>> /\ n < Len(Order) /\ n \in Nat /\ ctJob \in Nat /\ c \in Robots
      /\ n + 1 \in 1..Len(Order) /\ Here = <<c, Order[n + 1]>> /\ Here \in Workspaces
  <2>1. ctTodo # <<>> /\ n < Len(Order)
    BY <1>1, ExperimentLogs
  <2>2. n \in Nat /\ ctJob \in Nat
    BY <1>1, ChainTuningAssumption DEF ChainInv, ChainShape
  <2> QED BY <1>1, <2>1, <2>2, HereIs DEF ChainInv
<1>3. ASSUME NEW r \in Robots, NEW i \in 1..Len(Order), <<r, Order[i]>> # Here
      PROVE  ctLog'[<<r, Order[i]>>] = ctLog[<<r, Order[i]>>]
  <2>1. <<r, Order[i]>> \in Workspaces
    BY OrderFacts DEF Workspaces
  <2> QED BY <1>3, <2>1, ExperimentLogs
<1>4. \A i \in 1..Len(Order) : i # n + 1 => \A r : <<r, Order[i]>> # Here
  BY <1>2, OrderFacts
<1>5. ASSUME NEW i \in 1..n PROVE i \in 1..Len(Order) /\ i # n + 1
  BY <1>2, OrderFacts
<1> SUFFICES ASSUME NEW r \in Robots, NEW i \in 1..Len(Order),
                    NEW x \in ToSet(ctLog'[<<r, Order[i]>>])
             PROVE  /\ Len(x.context) = i - 1
                    /\ \A m \in 1..(i - 1) :
                         LET rows == RowsOf(ctLog'[<<r, Order[m]>>], x.job)
                         IN  rows # <<>> /\ Enough(rows) /\ x.context[m] = ResultOf(rows)
  BY OrderFacts DEF TunedInOrder
<1> DEFINE w == <<r, Order[i]>>
<1>6. w \in Workspaces
  BY OrderFacts DEF Workspaces
<1>7. CASE x \in ToSet(ctLog[w])
  <2>1. /\ Len(x.context) = i - 1
        /\ \A m \in 1..(i - 1) :
             LET rows == RowsOf(ctLog[<<r, Order[m]>>], x.job)
             IN  rows # <<>> /\ Enough(rows) /\ x.context[m] = ResultOf(rows)
    BY <1>7, OrderFacts DEF ChainInv, TunedInOrder
  <2>2. PICK k \in DOMAIN ctLog[w] : x = ctLog[w][k]
    BY <1>7 DEF ToSet
  <2>3. /\ ctLog[w] \in Seq(Rows) /\ JobsInOrder(ctLog[w]) /\ x.job <= ctJob
    BY <1>6, <2>2 DEF ChainInv, ChainShape, LogsInOrder
  <2>4. x \in Rows
    BY <2>2, <2>3
  <2>5. x.job \in Nat
    BY <2>4 DEF Rows
  <2>6. ASSUME NEW m \in 1..(i - 1)
        PROVE  RowsOf(ctLog'[<<r, Order[m]>>], x.job) = RowsOf(ctLog[<<r, Order[m]>>], x.job)
    <3>1. m \in 1..Len(Order)
      BY OrderFacts
    <3>2. CASE <<r, Order[m]>> # Here
      BY <1>3, <3>1, <3>2
    <3>3. CASE <<r, Order[m]>> = Here
      <4>1. r = c /\ m = n + 1
        BY <1>2, <3>1, <3>3, OrderFacts
      <4>2. x.job # ctJob
        <5> SUFFICES ASSUME x.job = ctJob PROVE FALSE
          OBVIOUS
        <5>1. RowsOf(ctLog[w], ctJob) # <<>>
          BY <1>2, <2>2, <2>3, HasRows
        <5>2. i \in (n + 2)..Len(Order)
          BY <1>2, <4>1, OrderFacts
        <5>3. Logged(c, i) = <<>>
          BY <1>1, <1>2, <5>2 DEF ChainInv, RunsAreLogged
        <5> QED BY <4>1, <5>1, <5>3 DEF Logged
      <4>3. x.job < ctJob
        BY <1>2, <2>3, <2>5, <4>2
      <4> QED BY <2>5, <3>3, <4>3, ExperimentLogs
    <3> QED BY <3>2, <3>3
  <2> QED BY <2>1, <2>6
<1>8. CASE x \notin ToSet(ctLog[w])
  <2>1. w = Here
    BY <1>3, <1>8
  <2>2. r = c /\ i = n + 1
    BY <1>2, <2>1, OrderFacts
  <2>3. x = Row(o)
    <3>1. ctLog'[w] = Append(ctLog[w], Row(o)) /\ ctLog[w] \in Seq(Rows)
      BY <1>6, <2>1, ExperimentLogs DEF ChainInv, ChainShape
    <3>2. PICK k \in DOMAIN ctLog'[w] : x = ctLog'[w][k]
      BY DEF ToSet
    <3>3. k \notin DOMAIN ctLog[w]
      <4> SUFFICES ASSUME k \in DOMAIN ctLog[w] PROVE FALSE
        OBVIOUS
      <4>1. ctLog'[w][k] = ctLog[w][k]
        BY <3>1
      <4>2. ctLog[w][k] \in ToSet(ctLog[w])
        BY DEF ToSet
      <4> QED BY <1>8, <3>2, <4>1, <4>2
    <3> QED BY <3>1, <3>2, <3>3
  <2>4. x.job = ctJob /\ x.context = ctResults
    BY <2>3, ExperimentLogs
  <2>5. ASSUME NEW m \in 1..n
        PROVE  LET rows == RowsOf(ctLog'[<<r, Order[m]>>], x.job)
               IN  rows # <<>> /\ Enough(rows) /\ x.context[m] = ResultOf(rows)
    <3>1. ctLog'[<<r, Order[m]>>] = ctLog[<<r, Order[m]>>]
      BY <1>3, <1>4, <1>5
    <3>2. /\ Logged(c, m) # <<>> /\ Enough(Logged(c, m))
          /\ ctResults[m] = ResultOf(Logged(c, m))
      BY <1>1, <1>2 DEF ChainInv, RunsAreLogged
    <3> QED BY <2>2, <2>4, <3>1, <3>2 DEF Logged
  <2>6. Len(x.context) = i - 1 /\ i - 1 = n
    BY <1>1, <1>2, <2>2, <2>4
  <2> QED BY <2>5, <2>6
<1> QED BY <1>7, <1>8

\* ... and is of the profile its robot is named for.
LEMMA ExperimentProfiles ==
  ASSUME ChainInv, NEW o \in Outcomes, Experiment(o)
  PROVE  OneProfilePerLog'
<1> SUFFICES ASSUME NEW p \in ToSet(ProfileIds), NEW j \in CtJoints,
                    NEW x \in ToSet(ctLog'[<<RobotOf(p), j>>])
             PROVE  x.profile = p
  BY DEF OneProfilePerLog
<1> DEFINE w == <<RobotOf(p), j>>
<1>1. w \in Workspaces
  BY DEF Workspaces, Robots
<1>2. CASE w # Here
  BY <1>1, <1>2, ExperimentLogs DEF ChainInv, OneProfilePerLog
<1>3. CASE w = Here
  <2>1. ctLog'[w] = Append(ctLog[w], Row(o)) /\ ctLog[w] \in Seq(Rows)
    BY <1>1, <1>3, ExperimentLogs DEF ChainInv, ChainShape
  <2>2. PICK k \in DOMAIN ctLog'[w] : x = ctLog'[w][k]
    BY DEF ToSet
  <2>3. CASE k \in DOMAIN ctLog[w]
    <3>1. ctLog'[w][k] = ctLog[w][k]
      BY <2>1, <2>3
    <3>2. x \in ToSet(ctLog[w])
      BY <2>2, <2>3, <3>1 DEF ToSet
    <3> QED BY <3>2 DEF ChainInv, OneProfilePerLog
  <2>4. CASE k \notin DOMAIN ctLog[w]
    <3>1. x = Row(o)
      BY <2>1, <2>2, <2>4
    <3>2. x.profile = Call.profile
      BY <3>1, ExperimentLogs
    <3>3. Call \in CallsOf /\ Here = <<Call.robot, Order[Len(ctResults) + 1]>>
      BY ExperimentLogs, HereIs DEF ChainInv
    <3>4. Call.robot = RobotOf(p) /\ Call.robot \in {Agent, RobotOf(Call.profile)}
      BY <1>3, <3>3 DEF CallsOf
    <3> QED BY <3>2, <3>4, RobotFacts
  <2> QED BY <2>3, <2>4
<1> QED BY <1>2, <1>3

\* The rows of the run in progress follow its tag.
LEMMA ExperimentTags ==
  ASSUME ChainInv, NEW o \in Outcomes, Experiment(o)
  PROVE  /\ TagPartsRuns'
         /\ \A w \in Workspaces : /\ ctStart[w] \in -1..Len(ctLog'[w])
                                 /\ (ctStart[w] = -1 => ctLog'[w] = <<>>)
         /\ ctStart[Here] = Len(ctLog'[Here]) - Len(Append(ctRun, Row(o)))
<1>1. /\ Here \in Workspaces /\ ctRun # NoRun /\ ctStart' = ctStart /\ ctJob \in Nat
      /\ ctRun \in Seq(Rows) /\ Row(o) \in Rows
  <2>1. Here \in Workspaces
    BY ExperimentLogs, HereIs DEF ChainInv
  <2>2. ctRun # NoRun /\ ctStart' = ctStart
    BY DEF Experiment
  <2>3. ctRun \in Seq(Rows) /\ ctJob \in Nat
    BY <2>2, ChainTuningAssumption DEF ChainInv, ChainShape
  <2>4. Row(o) \in Rows
    BY ExperimentLogs
  <2> QED BY <2>1, <2>2, <2>3, <2>4
<1>2. PICK log, new, n, s : /\ log = ctLog[Here] /\ new = ctLog'[Here] /\ n = Len(log)
                            /\ s = ctStart[Here]
  OBVIOUS
<1>3. /\ log \in Seq(Rows) /\ n \in Nat /\ DOMAIN log = 1..n
      /\ JobsInOrder(log) /\ \A i \in 1..n : log[i].job <= ctJob
  BY <1>1, <1>2 DEF ChainInv, ChainShape, LogsInOrder
<1>4. /\ new = Append(log, Row(o)) /\ Len(new) = n + 1 /\ DOMAIN new = 1..(n + 1)
      /\ new[n + 1] = Row(o) /\ \A i \in 1..n : new[i] = log[i]
  <2>1. new = Append(log, Row(o))
    BY <1>2, ExperimentLogs
  <2> QED BY <1>3, <2>1
<1>5. s = n - Len(ctRun) /\ Len(ctRun) \in Nat
  BY <1>1, <1>2 DEF ChainInv, TagsStand
<1>6. s = Before(log, ctJob)
  <2>1. Logged(Call.robot, Len(ctResults) + 1) = ctRun
    BY <1>1, ExperimentLogs DEF ChainInv, RunsAreLogged
  <2>2. Here = <<Call.robot, Order[Len(ctResults) + 1]>>
    BY ExperimentLogs, HereIs DEF ChainInv
  <2>3. RowsOf(log, ctJob) = ctRun
    BY <1>2, <2>1, <2>2 DEF Logged
  <2>4. Len(ctRun) = n - Before(log, ctJob)
    BY <1>1, <1>2, <1>3, <2>3, LastRows
  <2>5. Before(log, ctJob) \in 0..n
    BY <1>1, <1>2, <1>3, BeforeIs
  <2> QED BY <1>3, <1>5, <2>4, <2>5
<1>7. s \in 0..n /\ \A i \in 1..n : log[i].job < ctJob <=> i <= s
  BY <1>1, <1>2, <1>3, <1>6, BeforeIs
<1>8. \A i \in 1..n : log[i].job \in Nat
  <2>1. \A i \in 1..n : log[i] \in Rows
    BY <1>3
  <2> QED BY <2>1 DEF Rows
<1>9. \A i \in 1..(n + 1) : i \in 1..n \/ i = n + 1
  BY <1>3
<1>10. Row(o).job = ctJob
  BY ExperimentLogs
<1>11. ASSUME NEW j \in 1..(n + 1), j > s PROVE new[j].job = ctJob
  <2>1. CASE j = n + 1
    BY <1>4, <1>10, <2>1
  <2>2. CASE j \in 1..n
    <3>1. log[j].job <= ctJob /\ ~(log[j].job < ctJob) /\ log[j].job \in Nat
      BY <1>3, <1>7, <1>8, <1>11, <2>2
    <3> QED BY <1>1, <1>4, <2>2, <3>1
  <2> QED BY <1>9, <2>1, <2>2
<1>12. ASSUME NEW i \in 1..(n + 1), i <= s PROVE new[i].job < ctJob
  <2>1. i \in 1..n
    BY <1>3, <1>7, <1>12
  <2> QED BY <1>4, <1>7, <1>12, <2>1
<1>13. TagPartsRuns'
  <2> SUFFICES ASSUME NEW w \in Workspaces
               PROVE  /\ JobsInOrder(ctLog'[w])
                      /\ \A i, j \in DOMAIN ctLog'[w] : j > ctStart'[w] =>
                           /\ ctLog'[w][j].job = ctLog'[w][Len(ctLog'[w])].job
                           /\ i <= ctStart'[w] => ctLog'[w][i].job < ctLog'[w][j].job
    BY DEF TagPartsRuns, JobsInOrder
  <2>1. CASE w = Here
    <3>1. JobsInOrder(ctLog'[w])
      BY ExperimentLogs DEF LogsInOrder, JobsInOrder
    <3>2. n + 1 \in 1..(n + 1) /\ n + 1 > s
      BY <1>3, <1>7
    <3>3. new[n + 1].job = ctJob
      BY <1>11, <3>2
    <3> QED BY <1>1, <1>2, <1>4, <1>11, <1>12, <2>1, <3>1, <3>3, ZenonT(30)
  <2>2. CASE w # Here
    <3>1. ctLog'[w] = ctLog[w] /\ ctStart'[w] = ctStart[w]
      BY <1>1, <2>2, ExperimentLogs
    <3> QED BY <3>1 DEF ChainInv, TagPartsRuns
  <2> QED BY <2>1, <2>2
<1>14. ASSUME NEW w \in Workspaces
       PROVE  ctStart[w] \in -1..Len(ctLog'[w]) /\ (ctStart[w] = -1 => ctLog'[w] = <<>>)
  <2>1. CASE w = Here
    <3>1. s \in -1..(n + 1) /\ s # -1
      BY <1>3, <1>7
    <3> QED BY <1>2, <1>4, <2>1, <3>1
  <2>2. CASE w # Here
    <3>1. ctLog'[w] = ctLog[w]
      BY <2>2, ExperimentLogs
    <3>2. ctStart[w] \in -1..Len(ctLog[w]) /\ (ctStart[w] = -1 => ctLog[w] = <<>>)
      BY DEF ChainInv, TagsStand
    <3> QED BY <3>1, <3>2
  <2> QED BY <2>1, <2>2
<1>15. ctStart[Here] = Len(ctLog'[Here]) - Len(Append(ctRun, Row(o)))
  <2>1. Len(Append(ctRun, Row(o))) = Len(ctRun) + 1
    BY <1>1
  <2> QED BY <1>2, <1>3, <1>4, <1>5, <2>1
<1> QED BY <1>13, <1>14, <1>15

\* All of the invariant after an experiment.
LEMMA ExperimentKeeps ==
  ASSUME ChainInv, NEW o \in Outcomes, Experiment(o)
  PROVE  ChainInv'
<1>1. PICK rows, n, c : rows = Append(ctRun, Row(o)) /\ n = Len(ctResults) /\ c = Call.robot
  OBVIOUS
<1>2. /\ UNCHANGED <<ctTodo, ctReports, ctStart, ctJob>>
      /\ IF Enough(rows) THEN ctResults' = Append(ctResults, ResultOf(rows)) /\ ctRun' = NoRun
                         ELSE ctRun' = rows /\ ctResults' = ctResults
  BY <1>1 DEF Experiment
<1>3. /\ ctTodo # <<>> /\ ctRun # NoRun /\ n < Len(Order) /\ Row(o) \in Rows
      /\ ctLog' \in [Workspaces -> Seq(Rows)] /\ LogsInOrder'
      /\ RowsOf(ctLog'[Here], ctJob) = rows
      /\ \A w \in Workspaces : w # Here => ctLog'[w] = ctLog[w]
  BY <1>1, ExperimentLogs
<1>4. /\ ctRun \in Seq(Rows) /\ Len(ctRun) < CtMaxExperiments /\ ctResults \in Seq(Results)
      /\ n \in Nat /\ CtMaxExperiments \in Nat
  BY <1>1, <1>3, ChainTuningAssumption DEF ChainInv, ChainShape
<1>5. /\ rows \in Seq(Rows) /\ rows # <<>> /\ Len(rows) <= CtMaxExperiments
      /\ Len(rows) = Len(ctRun) + 1 /\ rows # NoRun
  <2>1. rows \in Seq(Rows) /\ Len(rows) = Len(ctRun) + 1
    BY <1>1, <1>3, <1>4
  <2>2. Len(ctRun) \in Nat
    BY <1>4
  <2> QED BY <1>4, <2>1, <2>2, NoRunAssumption
<1>6. /\ c \in Robots /\ n + 1 \in 1..Len(Order) /\ Here = <<c, Order[n + 1]>>
      /\ Here \in Workspaces /\ c = ctTodo[1].robot
  BY <1>1, <1>3, HereIs DEF ChainInv
<1>7. ChainShape'
  <2>1. CASE Enough(rows)
    <3>1. ResultOf(rows) \in Results
      BY <1>5, ResultIs
    <3>2. ctResults' \in Seq(Results) /\ Len(ctResults') = n + 1
      BY <1>1, <1>2, <1>4, <2>1, <3>1, SMTT(30)
    <3>3. Len(ctResults') <= Len(Order)
      BY <1>6, <3>2
    <3> QED BY <1>2, <1>3, <2>1, <3>2, <3>3 DEF ChainInv, ChainShape
  <2>2. CASE ~Enough(rows)
    <3>1. Len(rows) # CtMaxExperiments
      BY <2>2 DEF Enough
    <3>2. Len(rows) < CtMaxExperiments
      BY <1>4, <1>5, <3>1
    <3> QED BY <1>2, <1>3, <1>5, <2>2, <3>2 DEF ChainInv, ChainShape
  <2> QED BY <2>1, <2>2
<1>8. RobotsDiffer'
  BY <1>2 DEF ChainInv, RobotsDiffer
<1>9. ASSUME NEW r \in Robots, NEW i \in 1..Len(Order), r # c \/ i # n + 1
      PROVE  RowsOf(ctLog'[<<r, Order[i]>>], ctJob') = Logged(r, i)
  <2>1. <<r, Order[i]>> \in Workspaces
    BY OrderFacts DEF Workspaces
  <2>2. <<r, Order[i]>> # Here
    BY <1>6, <1>9, OrderFacts
  <2> QED BY <1>2, <1>3, <2>1, <2>2 DEF Logged
<1>10. RowsOf(ctLog'[<<c, Order[n + 1]>>], ctJob') = rows
  BY <1>2, <1>3, <1>6
<1>11. \A i \in 1..n : i \in 1..Len(Order) /\ i # n + 1
  BY <1>4, <1>6, OrderFacts
<1>12. \A i \in (n + 2)..Len(Order) : i \in 1..Len(Order) /\ i # n + 1
  BY <1>4, OrderFacts
<1>13. Call' = Call /\ ctTodo' = ctTodo
  BY <1>2 DEF Call
<1>14. RunsAreLogged'
  <2>1. ASSUME NEW m \in 2..Len(ctTodo), NEW i \in 1..Len(Order)
        PROVE  RowsOf(ctLog'[<<ctTodo[m].robot, Order[i]>>], ctJob') = <<>>
    <3>1. ctTodo \in Seq(CallsOf) /\ m \in DOMAIN ctTodo /\ 1 \in DOMAIN ctTodo /\ m # 1
      BY <1>3 DEF ChainInv, ChainShape
    <3>2. ctTodo[m] \in CallsOf
      BY <3>1
    <3>3. ctTodo[m].robot # c /\ ctTodo[m].robot \in Robots
      BY <1>6, <3>1, <3>2 DEF ChainInv, RobotsDiffer, CallsOf
    <3>4. Logged(ctTodo[m].robot, i) = <<>>
      BY DEF ChainInv, RunsAreLogged
    <3> QED BY <1>9, <3>3, <3>4
  <2>2. ASSUME NEW i \in 1..n
        PROVE  LET x == RowsOf(ctLog'[<<c, Order[i]>>], ctJob')
               IN  x # <<>> /\ Enough(x) /\ ctResults[i] = ResultOf(x)
    <3>1. RowsOf(ctLog'[<<c, Order[i]>>], ctJob') = Logged(c, i)
      BY <1>6, <1>9, <1>11
    <3>2. Logged(c, i) # <<>> /\ Enough(Logged(c, i)) /\ ctResults[i] = ResultOf(Logged(c, i))
      BY <1>1, <1>3 DEF ChainInv, RunsAreLogged
    <3> QED BY <3>1, <3>2
  <2>3. ASSUME NEW i \in (n + 2)..Len(Order)
        PROVE  RowsOf(ctLog'[<<c, Order[i]>>], ctJob') = <<>>
    <3>1. RowsOf(ctLog'[<<c, Order[i]>>], ctJob') = Logged(c, i)
      BY <1>6, <1>9, <1>12
    <3>2. Logged(c, i) = <<>>
      BY <1>1, <1>3 DEF ChainInv, RunsAreLogged
    <3> QED BY <3>1, <3>2
  <2>4. CASE Enough(rows)
    <3>1. /\ ctRun' = NoRun /\ Len(ctResults') = n + 1 /\ ctResults'[n + 1] = ResultOf(rows)
          /\ \A i \in 1..n : ctResults'[i] = ctResults[i]
      <4>1. ctResults' = Append(ctResults, ResultOf(rows)) /\ ctRun' = NoRun
        BY <1>2, <2>4
      <4> QED BY <1>1, <1>4, <4>1
    <3>2. ASSUME NEW i \in 1..(n + 1)
          PROVE  LET x == RowsOf(ctLog'[<<c, Order[i]>>], ctJob')
                 IN  x # <<>> /\ Enough(x) /\ ctResults'[i] = ResultOf(x)
      <4>1. CASE i = n + 1
        BY <1>5, <1>10, <2>4, <3>1, <4>1
      <4>2. CASE i \in 1..n
        BY <2>2, <3>1, <4>2
      <4>3. i = n + 1 \/ i \in 1..n
        BY <1>4
      <4> QED BY <4>1, <4>2, <4>3
    <3>3. n + 1 < Len(Order) => RowsOf(ctLog'[<<c, Order[n + 1 + 1]>>], ctJob') = <<>>
      <4>1. n + 1 < Len(Order) => n + 1 + 1 \in (n + 2)..Len(Order)
        BY <1>4, OrderFacts
      <4> QED BY <2>3, <4>1
    <3>4. \A i \in (n + 1 + 2)..Len(Order) : i \in (n + 2)..Len(Order)
      BY <1>4, OrderFacts
    <3> QED BY <1>1, <1>3, <1>13, <2>1, <2>3, <3>1, <3>2, <3>3, <3>4 DEF RunsAreLogged, Logged
  <2>5. CASE ~Enough(rows)
    <3>1. ctRun' = rows /\ ctResults' = ctResults
      BY <1>2, <2>5
    <3> QED BY <1>1, <1>3, <1>5, <1>10, <1>13, <2>1, <2>2, <2>3, <3>1 DEF RunsAreLogged, Logged
  <2> QED BY <2>4, <2>5
<1>15. ReportsStand'
  <2> SUFFICES ASSUME NEW k \in DOMAIN ctReports
               PROVE  /\ Len(ctReports[k].results) = Len(Order)
                      /\ ctReports[k].score = ChainScore(ctReports[k].results)
                      /\ \A i \in 1..Len(Order) : ctReports[k].results[i] =
                           ResultOf(RowsOf(ctLog'[<<ctReports[k].call.robot, Order[i]>>], ctJob'))
    BY <1>2 DEF ReportsStand, Logged
  <2>1. ctReports[k] \in ReportsOf /\ 1 \in DOMAIN ctTodo
    BY <1>3 DEF ChainInv, ChainShape
  <2>2. ctReports[k].call \in CallsOf
    BY <2>1 DEF ReportsOf
  <2>3. ctReports[k].call.robot \in Robots /\ ctReports[k].call.robot # c
    BY <1>6, <2>1, <2>2 DEF CallsOf, ChainInv, RobotsDiffer
  <2>4. \A i \in 1..Len(Order) :
          RowsOf(ctLog'[<<ctReports[k].call.robot, Order[i]>>], ctJob')
            = Logged(ctReports[k].call.robot, i)
    BY <1>9, <2>3
  <2> QED BY <2>4 DEF ChainInv, ReportsStand
<1>16. TagsStand'
  <2>1. \A w \in Workspaces : /\ ctStart'[w] \in -1..Len(ctLog'[w])
                              /\ (ctStart'[w] = -1 => ctLog'[w] = <<>>)
    BY <1>2, ExperimentTags
  <2>2. ctRun' # NoRun => ctStart'[Here'] = Len(ctLog'[Here']) - Len(ctRun')
    <3> SUFFICES ASSUME ctRun' # NoRun PROVE ctStart'[Here'] = Len(ctLog'[Here']) - Len(ctRun')
      OBVIOUS
    <3>1. ctRun' = rows /\ ctResults' = ctResults
      BY <1>2
    <3>2. Here' = Here
      BY <1>13, <3>1 DEF Here, Joint
    <3> QED BY <1>1, <1>2, <3>1, <3>2, ExperimentTags
  <2> QED BY <2>1, <2>2 DEF TagsStand
<1> QED BY <1>3, <1>7, <1>8, <1>14, <1>15, <1>16, ExperimentTuned, ExperimentProfiles,
           ExperimentTags DEF ChainInv

LEMMA ChainStep == ChainInv /\ [CtNext]_ctVars => ChainInv'
<1> SUFFICES ASSUME ChainInv, [CtNext]_ctVars PROVE ChainInv'
  OBVIOUS
<1>1. CASE TuneProfiles
  BY <1>1, TuneProfilesKeeps
<1>2. ASSUME NEW p \in ToSet(ProfileIds), TuneAgent(p) PROVE ChainInv'
  BY <1>2, TuneAgentKeeps
<1>3. CASE OpenJoint
  BY <1>3, OpenJointKeeps
<1>4. ASSUME NEW o \in Outcomes, Experiment(o) PROVE ChainInv'
  BY <1>4, ExperimentKeeps
<1>5. CASE CloseChain
  BY <1>5, CloseChainKeeps
<1>6. CASE Abort
  BY <1>6, AbortKeeps
<1>7. CASE UNCHANGED ctVars
  <2>1. UNCHANGED <<ctTodo, ctResults, ctRun, ctReports, ctLog, ctStart, ctJob>>
    BY <1>7 DEF ctVars
  <2>2. LogsInOrder' /\ TunedInOrder' /\ OneProfilePerLog'
    BY <2>1, LogsUnchanged DEF ChainInv, ChainShape
  <2>3. ChainShape' /\ RobotsDiffer'
    BY <2>1 DEF ChainInv, ChainShape, RobotsDiffer
  <2>4. RunsAreLogged'
    BY <2>1 DEF ChainInv, RunsAreLogged, Logged, Call
  <2>5. ReportsStand'
    BY <2>1 DEF ChainInv, ReportsStand, Logged
  <2>6. TagsStand' /\ TagPartsRuns'
    BY <2>1 DEF ChainInv, TagsStand, TagPartsRuns, Here, Call, Joint
  <2> QED BY <2>2, <2>3, <2>4, <2>5, <2>6 DEF ChainInv
<1> QED BY <1>1, <1>2, <1>3, <1>4, <1>5, <1>6, <1>7 DEF CtNext

\* What a run checks follows from the invariant.
LEMMA ChainImplies == ChainInv => ChainHolds
<1> SUFFICES ASSUME ChainInv PROVE ReportsAreLogged
  BY DEF ChainInv, ChainHolds
<1> SUFFICES ASSUME NEW k \in DOMAIN ctReports
             PROVE  LET rep == ctReports[k]
                        rs  == rep.results
                        scores == {rs[i].score : i \in DOMAIN rs}
                    IN  /\ \A i \in DOMAIN Order :
                             rs[i] = ResultOf(RowsOf(ctLog[<<rep.call.robot, Order[i]>>], ctJob))
                        /\ 5 * rep.score.num <= rep.score.of * (160 + 3 * Max(scores))
                        /\ 5 * rep.score.num >=
                             rep.score.of * (2 * MockChecks(rs) + 3 * Min(scores))
  BY DEF ReportsAreLogged
<1>1. PICK rep, rs : rep = ctReports[k] /\ rs = rep.results
  OBVIOUS
<1>2. rep \in ReportsOf
  BY <1>1 DEF ChainInv, ChainShape
<1>3. rs \in Seq(Results) /\ Len(rs) = Len(Order) /\ rep.score = ChainScore(rs)
  BY <1>1, <1>2 DEF ReportsOf, ChainInv, ReportsStand
<1>4. rs # <<>>
  BY <1>3, OrderFacts
<1>5. \A i \in DOMAIN Order :
        rs[i] = ResultOf(RowsOf(ctLog[<<rep.call.robot, Order[i]>>], ctJob))
  BY <1>1, OrderFacts DEF ChainInv, ReportsStand, Logged
<1>6. LET scores == {rs[i].score : i \in DOMAIN rs}
      IN  /\ 5 * rep.score.num <= rep.score.of * (160 + 3 * Max(scores))
          /\ 5 * rep.score.num >= rep.score.of * (2 * MockChecks(rs) + 3 * Min(scores))
  BY <1>3, <1>4, ScoreOfChain
<1> QED BY <1>1, <1>5, <1>6

\* Each joint was tuned knowing the results of the joints above it, a log of a
\* multi-profile job is of one profile, the start tag parts the last run from
\* all earlier, and a report is in the logs with a score between those of its
\* joints (chain_orchestrator.py, multi_profile.py).
THEOREM ChainsHold == CtSpec => []ChainHolds
<1>1. CtSpec => []ChainInv
  BY ChainStarts, ChainStep, PTL DEF CtSpec
<1> QED BY <1>1, ChainImplies, PTL
-----------------------------------------------------------------------------
(***************************************************************************)
(* The types of all parts, whichever of them moves.                        *)
(***************************************************************************)

\* What MemoryInv leaves open: a memory lists numbers of events there were.
Known(m, n) == m.episodic \in Seq(1..n)
MemoryTypes ==
  /\ recorded <= MaxEvents /\ rollbacks <= recorded
  /\ Known(mem, recorded) /\ Known(memFile, recorded)
  /\ lastIdle \in {"unknown", "yes", "no"}
  /\ cycleStart \in {Nowhere} \cup 0..MaxEpisodic

\* A memory whose events are among the first n, as MemoryInv has it.
Good(m, n) == /\ m \in MemTypes /\ Len(m.episodic) <= MaxEpisodic
              /\ Earned(m) /\ Known(m, n)

LEMMA GoodLater ==
  ASSUME NEW m, NEW n \in Nat, NEW k \in Nat, n <= k, Good(m, n)
  PROVE  Good(m, k)
<1>1. 1..n \subseteq 1..k
  OBVIOUS
<1> QED BY <1>1, SeqMonotonic DEF Good, Known

\* The next event, after an insight or not.
LEMMA GoodEvent ==
  ASSUME MemoryInv, NEW m, NEW n \in Nat, Good(m, n)
  PROVE  /\ Good(RecordIn(m, n + 1), n + 1)
         /\ Good(RecordIn(Insight(m), n + 1), n + 1)
<1>1. n + 1 \in Nat /\ rollbacks \in Nat /\ MaxEpisodic \in Nat
  BY AgentMemoryAssumption DEF MemoryInv, MemShape
<1>2. ASSUME NEW p, Good(p, n) PROVE Good(RecordIn(p, n + 1), n + 1)
  <2>1. Good(p, n + 1) /\ n + 1 \in 1..(n + 1)
    BY <1>1, <1>2, GoodLater
  <2>2. Append(p.episodic, n + 1) \in Seq(1..(n + 1))
    BY <2>1, AppendProperties DEF Good, Known
  <2>3. LastOf(Append(p.episodic, n + 1), MaxEpisodic) \in Seq(1..(n + 1))
    BY <1>1, <2>2, LastOfFacts
  <2>4. /\ RecordIn(p, n + 1) \in MemTypes /\ Earned(RecordIn(p, n + 1))
        /\ Len(RecordIn(p, n + 1).episodic) <= MaxEpisodic
        /\ RecordIn(p, n + 1).episodic = LastOf(Append(p.episodic, n + 1), MaxEpisodic)
    BY <1>1, <1>2, RecordFacts DEF Good
  <2> QED BY <2>3, <2>4 DEF Good, Known
<1>3. Good(Insight(m), n)
  BY <1>1, InsightFacts DEF Good, Known
<1> QED BY <1>2, <1>3

LEMMA MemoryTypesStep ==
  ASSUME MemoryInv, MemoryTypes, [AmNext]_amVars
  PROVE  MemoryTypes'
<1>1. /\ recorded \in Nat /\ rollbacks \in Nat /\ MaxEvents \in Nat
      /\ recorded + 1 \in Nat /\ recorded + 2 \in Nat
      /\ Good(mem, recorded) /\ Good(memFile, recorded)
      /\ Len(mem.episodic) \in 0..MaxEpisodic
  <2>1. mem.episodic \in Seq(Nat)
    BY DEF MemoryInv, MemShape, MemTypes
  <2> QED BY <2>1, AgentMemoryAssumption
          DEF MemoryInv, MemShape, MemoryTypes, Good, InsightsAreEarned
<1>2. Known(Empty, recorded) /\ Known(Empty, recorded + 1) /\ Known(Empty, recorded + 2)
  BY DEF Known, Empty
<1>3. ASSUME NEW n \in Nat, recorded <= n, recorded' = n, Known(mem', n),
             memFile' \in {mem', memFile, Empty}
      PROVE  Known(mem, recorded)' /\ Known(memFile, recorded)'
  <2>1. Known(memFile, n)
    BY <1>1, <1>3, GoodLater DEF Good
  <2>2. Known(Empty, n)
    BY DEF Known, Empty
  <2> QED BY <1>3, <2>1, <2>2 DEF Known
<1>4. CASE UNCHANGED amVars
  BY <1>4 DEF amVars, MemoryTypes, Known
<1>5. CASE RecordEvent
  <2>1. Known(mem', recorded + 1)
    BY <1>1, <1>5, GoodEvent DEF RecordEvent, Good
  <2>2. Known(mem, recorded)' /\ Known(memFile, recorded)'
    BY <1>1, <1>3, <1>5, <2>1 DEF RecordEvent
  <2> QED BY <1>1, <1>5, <2>2 DEF RecordEvent, MemoryTypes
<1>6. CASE \E outcome \in {"success", "rollback"} : TuneResult(outcome)
  <2>1. Good(RecordIn(mem, recorded + 1), recorded + 1)
    BY <1>1, GoodEvent
  <2>2. mem'.episodic = RecordIn(mem, recorded + 1).episodic
    BY <1>6, <2>1 DEF TuneResult, Good, MemTypes
  <2>3. Known(mem', recorded + 1)
    BY <2>1, <2>2 DEF Good, Known
  <2>4. Known(mem, recorded)' /\ Known(memFile, recorded)'
    BY <1>1, <1>3, <1>6, <2>3 DEF TuneResult
  <2> QED BY <1>1, <1>6, <2>4 DEF TuneResult, MemoryTypes
<1>7. CASE Teach
  <2>1. Good(RecordIn(mem, recorded + 1), recorded + 1)
    BY <1>1, GoodEvent
  <2>2. mem'.episodic = RecordIn(mem, recorded + 1).episodic
    BY <1>7, <2>1, AddInsightFacts DEF Teach, Good, Sources
  <2>3. Known(mem', recorded + 1)
    BY <2>1, <2>2 DEF Good, Known
  <2>4. Known(mem, recorded)' /\ Known(memFile, recorded)'
    BY <1>1, <1>3, <1>7, <2>3 DEF Teach, WriteMemory
  <2> QED BY <1>1, <1>7, <2>4 DEF Teach, MemoryTypes
<1>8. CASE \E idle \in {"yes", "no"} : FirstTick(idle)
  BY <1>1, <1>8 DEF FirstTick, MemoryTypes, Known
<1>9. CASE \E idle \in {"yes", "no"} : QuietTick(idle)
  <2>1. Known(mem', recorded + 1)
    BY <1>1, <1>9, GoodEvent DEF QuietTick, Good
  <2>2. Known(mem, recorded)' /\ Known(memFile, recorded)'
    BY <1>1, <1>3, <1>9, <2>1 DEF QuietTick, WriteMemory
  <2> QED BY <1>1, <1>9, <2>2 DEF QuietTick, MemoryTypes
<1>10. CASE StartCycle
  <2>1. Good(RecordIn(mem, recorded + 1), recorded + 1)
    BY <1>1, GoodEvent
  <2>2. Good(RecordIn(Insight(RecordIn(mem, recorded + 1)), recorded + 1 + 1), recorded + 1 + 1)
    BY <1>1, <2>1, GoodEvent
  <2>3. recorded + 1 + 1 = recorded + 2
    BY <1>1
  <2>4. Known(mem', recorded + 2)
    BY <1>10, <2>2, <2>3 DEF StartCycle, Good
  <2>5. Known(mem, recorded)' /\ Known(memFile, recorded)'
    BY <1>1, <1>3, <1>10, <2>4 DEF StartCycle, WriteMemory
  <2> QED BY <1>1, <1>10, <2>5 DEF StartCycle, MemoryTypes
<1>11. CASE EndCycle
  <2>1. PICK calls \in 0..1 :
          /\ recorded + calls + 1 < MaxEvents /\ recorded' = recorded + calls + 2
          /\ LET asked   == IF calls = 1 THEN RecordIn(mem, recorded + 1) ELSE mem
                 outcome == RecordIn(asked, recorded + calls + 1)
             IN  mem' = RecordIn(Insight(outcome), recorded')
    BY <1>11 DEF EndCycle
  <2> DEFINE asked   == IF calls = 1 THEN RecordIn(mem, recorded + 1) ELSE mem
             outcome == RecordIn(asked, recorded + calls + 1)
  <2>2. /\ recorded + calls \in Nat /\ recorded + calls + 1 \in Nat
        /\ recorded + calls + 2 \in Nat
        /\ recorded + calls + 1 + 1 = recorded + calls + 2
    BY <1>1
  <2>3. Good(asked, recorded + calls)
    <3>1. CASE calls = 1
      BY <1>1, <3>1, GoodEvent
    <3>2. CASE calls = 0
      <4>1. recorded + calls = recorded
        BY <1>1, <3>2
      <4> QED BY <1>1, <3>2, <4>1
    <3> QED BY <3>1, <3>2
  <2> HIDE DEF asked
  <2>4. Good(outcome, recorded + calls + 1)
    BY <2>2, <2>3, GoodEvent
  <2>5. mem' = RecordIn(Insight(outcome), recorded + calls + 2)
    BY <2>1 DEF asked
  <2> HIDE DEF outcome
  <2>6. Good(RecordIn(Insight(outcome), recorded + calls + 1 + 1), recorded + calls + 1 + 1)
    BY <2>2, <2>4, GoodEvent
  <2>7. Known(mem', recorded + calls + 2)
    BY <2>2, <2>5, <2>6 DEF Good
  <2>8. Known(mem, recorded)' /\ Known(memFile, recorded)'
    BY <1>1, <1>3, <1>11, <2>1, <2>2, <2>7 DEF EndCycle, WriteMemory
  <2> QED BY <1>1, <1>11, <2>1, <2>8 DEF EndCycle, MemoryTypes
<1>12. CASE RestartAgent
  BY <1>1, <1>12 DEF RestartAgent, MemoryTypes, Known
<1> QED BY <1>4, <1>5, <1>6, <1>7, <1>8, <1>9, <1>10, <1>11, <1>12 DEF AmNext, Observe

LEMMA MemoryTyped == AmSpec => []AmTypeOK
<1>1. AmInit => MemoryTypes
  BY AgentMemoryAssumption DEF AmInit, MemoryTypes, Known, Empty
<1>2. MemoryInv /\ MemoryTypes => AmTypeOK
  <2> SUFFICES ASSUME MemoryInv, MemoryTypes PROVE AmTypeOK
    OBVIOUS
  <2>1. /\ recorded \in 0..MaxEvents /\ rollbacks \in 0..MaxEvents
        /\ 1..recorded \subseteq Events
    BY AgentMemoryAssumption DEF MemoryInv, MemShape, MemoryTypes, Events
  <2>2. ASSUME NEW m \in {mem, memFile} PROVE m \in Memories
    <3>1. m \in MemTypes /\ Earned(m) /\ m.episodic \in Seq(1..recorded)
      BY DEF MemoryInv, MemShape, MemoryTypes, InsightsAreEarned, Known
    <3>2. m.episodic \in Seq(Events)
      BY <2>1, <3>1, SeqMonotonic
    <3>3. m.streak \in 0..MaxEvents
      <4>1. m.insights \in Seq(Sources) /\ m.streak \in Nat
        BY <3>1 DEF MemTypes
      <4> DEFINE owed == Streak * Cardinality(OwnInsights(m))
      <4>2. owed \in Nat
        <5>1. Cardinality(OwnInsights(m)) \in Nat /\ Streak \in Nat
          BY <4>1, OwnFinite, AgentMemoryAssumption DEF OwnInsights, OwnIn
        <5> QED BY <5>1
      <4>3. owed + m.streak <= rollbacks
        BY <3>1 DEF Earned
      <4> HIDE DEF owed
      <4> QED BY AgentMemoryAssumption, <2>1, <4>1, <4>2, <4>3
    <3> QED BY <3>1, <3>2, <3>3 DEF MemTypes, Memories, Sources
  <2> QED BY <2>1, <2>2 DEF MemoryInv, MemShape, MemoryTypes, AmTypeOK
<1>3. AmSpec => [][AmNext]_amVars
  BY PTL DEF AmSpec
<1> QED BY <1>1, <1>2, <1>3, MemoryInvariant, MemoryTypesStep, PTL DEF AmSpec

\* What BudgetInv leaves open: how the last call ended, and the bound.
CallTypes == /\ call.end \in {"none", "refused", "failed", "answered"} /\ call.day \in Days
             /\ begun \in [Days -> 0..MaxStarts]

LEMMA TurnTypes ==
  ASSUME CallTypes, today \in Days, NEW d \in Days, Turn(d)
  PROVE  begun' \in [Days -> 0..MaxStarts] /\ today' = d
<1>1. /\ MaxStarts \in Nat /\ begun[d] \in 0..MaxStarts
  BY LLMBudgetAssumption DEF CallTypes
<1>2. CASE d = today
  BY <1>2 DEF Turn, CallTypes
<1>3. CASE d # today
  <2>1. begun' = [begun EXCEPT ![d] = begun[d] + 1] /\ begun'[d] <= MaxStarts
    BY <1>3 DEF Turn
  <2>2. begun[d] + 1 \in 0..MaxStarts
    BY <1>1, <2>1 DEF CallTypes
  <2> QED BY <2>1, <2>2 DEF Turn, CallTypes
<1> QED BY <1>2, <1>3

LEMMA CallTypesStep ==
  ASSUME BudgetInv, CallTypes, [LbNext]_lbVars
  PROVE  CallTypes'
<1>1. today \in Days /\ LastDay \in Nat /\ 0 \in Days /\ MaxStarts \in Nat
      /\ begun[today] \in 0..MaxStarts
  BY LLMBudgetAssumption DEF BudgetInv, BudgetShape, Days, CallTypes
<1>2. \A c, end, d : Ended(c, end, d).end = end /\ Ended(c, end, d).day = d
  BY DEF Ended
<1>3. Later \subseteq Days
  BY <1>1 DEF Later
<1>4. CASE UNCHANGED lbVars
  BY <1>4 DEF lbVars, CallTypes
<1>5. CASE \E c \in Calls : Refused(c)
  BY <1>1, <1>2, <1>5 DEF Refused, CallTypes
<1>6. CASE \E c \in Calls : Failed(c) \/ Answered(c)
  <2>1. PICK c \in Calls : Failed(c) \/ Answered(c)
    BY <1>6
  <2>2. PICK d \in Later : Turn(d)
    BY <2>1 DEF Failed, Answered
  <2>3. begun' \in [Days -> 0..MaxStarts] /\ today' \in Days
    BY <1>1, <1>3, <2>2, TurnTypes
  <2>4. call' = Ended(c, "failed", today') \/ call' = Ended(c, "answered", today')
    BY <2>1 DEF Failed, Answered
  <2> QED BY <1>2, <2>3, <2>4 DEF CallTypes
<1>7. CASE ResetSession
  BY <1>7 DEF ResetSession, CallTypes
<1>8. CASE SetClock
  BY <1>1, <1>8, TurnTypes DEF SetClock, CallTypes
<1>9. CASE RestartProcess
  <2>1. begun[today] + 1 \in 0..MaxStarts
    BY <1>1, <1>9 DEF RestartProcess
  <2> QED BY <1>1, <1>9, <2>1 DEF RestartProcess, CallTypes, NoCall
<1> QED BY <1>4, <1>5, <1>6, <1>7, <1>8, <1>9 DEF LbNext

LEMMA BudgetTyped == LbSpec => []LbTypeOK
<1>1. LbInit => CallTypes
  BY LLMBudgetAssumption DEF LbInit, CallTypes, NoCall, Days
<1>2. BudgetInv /\ CallTypes => LbTypeOK
  BY DEF BudgetInv, BudgetShape, CallTypes, LbTypeOK
<1>3. LbSpec => [][LbNext]_lbVars
  BY PTL DEF LbSpec
<1> QED BY <1>1, <1>2, <1>3, BudgetInvariant, CallTypesStep, PTL DEF LbSpec

LEMMA MemDirTyped == MdSpec => []MdTypeOK
<1>1. MdInit => agentUp \in BOOLEAN
  BY DEF MdInit
<1>2. agentUp \in BOOLEAN /\ [MdNext]_mdVars => (agentUp \in BOOLEAN)'
  BY DEF MdNext, mdVars, StartAgent, Consolidate, DoOp, FailOp, Answer, CrashAgent, EditSafety
<1>3. MemDirInv /\ agentUp \in BOOLEAN => MdTypeOK
  BY DEF MemDirInv, MemDirShape, IndexHolds, GoodIndex, MdTypeOK, IndexEntries
<1> QED BY <1>1, <1>2, <1>3, MemDirStarts, MemDirStep, PTL DEF MdSpec

LEMMA ChainTyped == CtSpec => []CtTypeOK
<1>1. ChainInv => CtTypeOK
  BY DEF ChainInv, ChainShape, CallsOf, TagsStand, CtTypeOK
<1> QED BY <1>1, ChainStarts, ChainStep, PTL DEF CtSpec

mcVars == <<part, vars, amVars, mdVars, lbVars, ctVars>>

\* Whichever part of the agent moves, all values are of the sorts they are
\* meant to be: a move of one part is none of the others.
THEOREM TypesCorrect == MCInit /\ [][MCNext]_mcVars => []TypesOK
<1>1. MCInit => Init /\ AmInit /\ MdInit /\ LbInit /\ CtInit
  BY DEF MCInit
<1>2. [MCNext]_mcVars => /\ [Next]_vars /\ [AmNext]_amVars /\ [MdNext]_mdVars
                         /\ [LbNext]_lbVars /\ [CtNext]_ctVars
  BY DEF MCNext, mcVars
<1>3. MCInit /\ [][MCNext]_mcVars => Spec /\ AmSpec /\ MdSpec /\ LbSpec /\ CtSpec
  BY <1>1, <1>2, PTL DEF Spec, AmSpec, MdSpec, LbSpec, CtSpec
<1>4. TypeOK /\ AmTypeOK /\ MdTypeOK /\ LbTypeOK /\ CtTypeOK => TypesOK
  BY DEF TypesOK
<1> QED BY <1>3, <1>4, TypeCorrect, MemoryTyped, MemDirTyped, BudgetTyped, ChainTyped, PTL
=============================================================================
