---------------------------- MODULE ConfirmGate ----------------------------
(***************************************************************************)
(* ManastoneAgent.command: instructions of any number of clients, and the  *)
(* confirmation of risky ones, chain_tune and rollback.  The gate keeps at *)
(* most one pending action, in working memory, which is saved with the     *)
(* rest of memory.json by teach and by every tick of the observer.         *)
(*                                                                         *)
(* command does not suspend (the LLM client and the simulated experiments  *)
(* block), so it is one action; the process can end after any of them.     *)
(***************************************************************************)
EXTENDS Integers, FiniteSets

CONSTANTS
  Risky, Harmless,      \* actions that need a confirmation, and others
  RequireConfirmations, \* config.require_confirmations()
  TTL,                  \* 300 s
  MaxTime, MaxTokens, MaxLives   \* bounds: clock, tokens, restarts

ASSUME ConfirmGateAssumption ==
  /\ RequireConfirmations \in BOOLEAN /\ TTL \in Nat
  /\ MaxTime \in Nat /\ MaxTokens \in Nat /\ MaxLives \in Nat \ {0}
  /\ Risky \cap Harmless = {} /\ "none" \notin Risky

VARIABLES
  pending,   \* working["pending_confirmation"]
  saved,     \* the same in memory.json
  now,       \* wall clock
  issued,    \* issued[t]: the request token t was made for
  life,      \* number of the process
  settled    \* what became of requests: executed or cancelled, by which text

vars == <<pending, saved, now, issued, life, settled>>
-----------------------------------------------------------------------------
Tokens   == 1..MaxTokens
None     == [token |-> 0]
Unissued == [action |-> "none", born |-> 0]
Actions  == Risky \cup Harmless

\* What a message is to the gate: an instruction that parses to an action, a
\* confirmation, bare (0) or followed by a text, maybe a token, or a cancellation.
Messages == [kind : {"instruction"}, action : Actions]
       \cup [kind : {"confirm"}, text : 0..MaxTokens]
       \cup {[kind |-> "cancel"]}

Init == /\ pending = None /\ saved = None
        /\ now = 0 /\ life = 1
        /\ issued = [t \in Tokens |-> Unissued]
        /\ settled = {}

\* _get_pending_confirmation: expired entries are dropped.
Fresh_NoTTL(p) == p # None   \* mutant
Fresh(p) == p # None /\ now - p.born <= TTL

\* _is_confirmation_message: the token anywhere, a bare word, or any text
\* that starts with "confirm ".
IsConfirmation(m) == m.kind = "confirm"

Settle(how, text) ==
  settled' = settled \cup {[token |-> pending.token, action |-> pending.action,
                            how |-> how, text |-> text, at |-> now,
                            life |-> life]}

ConfirmPending(m) ==
  /\ Fresh(pending) /\ IsConfirmation(m)
  /\ Settle("executed", m.text)
  /\ pending' = None
  /\ UNCHANGED issued

CancelPending_Keeps(m) ==   \* mutant: the entry is not cleared
  /\ Fresh(pending) /\ m.kind = "cancel"
  /\ Settle("cancelled", 0)
  /\ UNCHANGED <<issued, pending>>

CancelPending(m) ==
  /\ Fresh(pending) /\ m.kind = "cancel"
  /\ Settle("cancelled", 0)
  /\ pending' = None
  /\ UNCHANGED issued

\* Anything else is refused while an action is pending.
Refuse(m) == /\ Fresh(pending) /\ m.kind = "instruction"
             /\ UNCHANGED <<pending, issued, settled>>

\* Without a fresh pending action the text is parsed, and what the parser
\* makes of a stray confirmation or cancellation is up to the LLM.
Parsed(m) == IF m.kind = "instruction" THEN {m.action} ELSE Actions

RequiresConfirmation_Any(a) == RequireConfirmations   \* mutant
RequiresConfirmation(a) == RequireConfirmations /\ a \in Risky

Request_Overwrites(a) ==   \* mutant: asks again while one is pending
  /\ RequiresConfirmation(a)
  /\ \E t \in Tokens :
       /\ issued[t] = Unissued /\ \A u \in 1..(t - 1) : issued[u] # Unissued
       /\ issued' = [issued EXCEPT ![t] = [action |-> a, born |-> now]]
       /\ pending' = [token |-> t, action |-> a, born |-> now]
  /\ UNCHANGED settled

\* _set_pending_confirmation
Request(a) ==
  /\ RequiresConfirmation(a) /\ ~Fresh(pending)
  /\ \E t \in Tokens :
       /\ issued[t] = Unissued /\ \A u \in 1..(t - 1) : issued[u] # Unissued
       /\ issued' = [issued EXCEPT ![t] = [action |-> a, born |-> now]]
       /\ pending' = [token |-> t, action |-> a, born |-> now]
  /\ UNCHANGED settled

\* _execute_intent without a confirmation.
Execute(a) == /\ ~RequiresConfirmation(a) /\ ~Fresh(pending)
              /\ pending' = None
              /\ settled' = IF a \in Risky
                              THEN settled \cup {[token |-> 0, action |-> a,
                                     how |-> "executed", text |-> 0,
                                     at |-> now, life |-> life]}
                              ELSE settled
              /\ UNCHANGED issued

Command == /\ \E m \in Messages :
                \/ ConfirmPending(m) \/ CancelPending(m) \/ Refuse(m)
                \/ \E a \in Parsed(m) : Request(a) \/ Execute(a)
           /\ UNCHANGED <<saved, now, life>>

\* memory.save, by teach and by the observer's tick.
Save == saved' = pending /\ UNCHANGED <<pending, now, issued, life, settled>>

\* The next process loads memory.json; a torn file is ignored.
Restart == /\ life < MaxLives
           /\ life' = life + 1
           /\ pending' \in {saved, None}
           /\ saved' = pending'
           /\ UNCHANGED <<now, issued, settled>>

Tick == now < MaxTime /\ now' = now + 1
        /\ UNCHANGED <<pending, saved, issued, life, settled>>

Next == Command \/ Save \/ Restart \/ Tick

Spec == Init /\ [][Next]_vars
-----------------------------------------------------------------------------
(* Properties                                                              *)

Entries == [token : Tokens, action : Risky, born : 0..MaxTime] \cup {None}

TypeOK ==
  /\ pending \in Entries /\ saved \in Entries
  /\ now \in 0..MaxTime /\ life \in 1..MaxLives
  /\ issued \in [Tokens -> [action : Risky, born : 0..MaxTime] \cup {Unissued}]
  /\ settled \subseteq [token : 0..MaxTokens, action : Risky,
                        how : {"executed", "cancelled"}, text : 0..MaxTokens,
                        at : 0..MaxTime, life : 1..MaxLives]

\* No risky action runs but the one its token was issued for, confirmed
\* within the TTL of the request, restarts in between included.
ConfirmedInTime ==
  RequireConfirmations =>
    \A e \in settled : e.how = "executed" =>
      /\ e.token \in Tokens
      /\ e.action = issued[e.token].action
      /\ e.at - issued[e.token].born \in 0..TTL

\* A request is settled once in the life of a process: not confirmed twice,
\* not confirmed after it was cancelled.
SettledOncePerLife ==
  \A d, e \in settled :
    d.token # 0 /\ d.token = e.token /\ d.life = e.life => d = e

\* While a request is fresh no other takes its place, so what an operator
\* confirms without a token is the request that was refused to the others.
FreshRequestStays ==
  [][Fresh(pending) /\ life' = life => pending' \in {pending, None}]_vars

\* agent.py:146 "Reply with 'confirm <token>' to proceed, or 'cancel' to abort":
\* a confirmation that names a token runs the request of that token and no
\* other.
TokenNamesRequest ==
  \A e \in settled : e.how = "executed" /\ e.text # 0 => e.text = e.token
=============================================================================
