--------------------------- MODULE DDSBridgeProofs ---------------------------
(***************************************************************************)
(* Proofs about DDSBridge, for every number of calls, connections, retries *)
(* and messages: answers reach the calls they belong to, and only a lost   *)
(* connection, a late answer on it or a message that cannot be parsed ends *)
(* a message loop.                                                         *)
(***************************************************************************)
EXTENDS DDSBridge, TLAPS

\* A request is held once by rosbridge or its answer lies once in one inbox,
\* that of the connection it was sent on.
AnsweredOnce ==
  \A i \in Calls, c \in Conns :
    /\ i \in received[c] \cup Unread(c) => via[i] = c
    /\ i \in received[c] => i \notin Unread(c)
    /\ \A k, j \in DOMAIN inbox[c] :
         inbox[c][k] = i /\ inbox[c][j] = i => k = j

Nowhere(i) == \A c \in Conns : i \notin received[c] /\ i \notin Unread(c)

\* Where the future of a call stands tells where its id may still be.
FutureFits(i) ==
  /\ call[i] = "idle" => i \notin futures /\ future[i] = "none" /\ Nowhere(i)
  /\ future[i] = "pending" => i \in futures
  /\ future[i] = "cancelled" => call[i] = "timeout"
  /\ future[i] = "result" => i \notin futures /\ Nowhere(i)
  /\ call[i] = "done" => future[i] = "result"

FuturesFit == \A i \in Calls : FutureFits(i)

\* connect only waits for an attempt it still has.
AttemptsLeft == connector.step = "backoff" => connector.attempt < MaxRetries

\* A malformed message that is not read yet is known of its connection.
GarbledKnown == \A c \in Conns : Malformed \in Unread(c) => c \in garbled

BridgeInv == /\ TypeOK /\ AttemptsLeft /\ AnsweredOnce /\ FuturesFit
             /\ GarbledKnown /\ LoopOutlivesCallbacks
-----------------------------------------------------------------------------
(* Sequences of messages                                                   *)

LEMMA HeadAndTail ==
  ASSUME NEW S, NEW q \in Seq(S), q # <<>>
  PROVE  /\ Head(q) \in S /\ Head(q) = q[1] /\ 1 \in DOMAIN q
         /\ Tail(q) \in Seq(S)
         /\ \A k \in DOMAIN Tail(q) :
              k \in Nat /\ k + 1 \in DOMAIN q /\ k + 1 # 1 /\ Tail(q)[k] = q[k + 1]
OBVIOUS

LEMMA Appended ==
  ASSUME NEW S, NEW q \in Seq(S), NEW m \in S
  PROVE  /\ Append(q, m) \in Seq(S)
         /\ \A k \in DOMAIN Append(q, m) :
              \/ k \in DOMAIN q /\ Append(q, m)[k] = q[k]
              \/ k = Len(q) + 1 /\ Append(q, m)[k] = m
OBVIOUS

LEMMA ConnsAreNumbers == MaxConns \in Nat /\ 0 \notin Conns
BY DDSBridgeAssumption DEF Conns

\* An id that lies in an inbox is in its unread messages, and conversely.
LEMMA UnreadIs ==
  ASSUME NEW c \in Conns, NEW i
  PROVE  i \in Unread(c) <=> \E k \in DOMAIN inbox[c] : inbox[c][k] = i
BY DEF Unread
-----------------------------------------------------------------------------
(* The parts of the invariant that a step leaves alone                     *)

LEMMA MessagesKept ==
  ASSUME AnsweredOnce, GarbledKnown, UNCHANGED <<inbox, received, via>>,
         garbled \subseteq garbled'
  PROVE  AnsweredOnce' /\ GarbledKnown' /\ \A i : Nowhere(i)' = Nowhere(i)
BY DEF AnsweredOnce, GarbledKnown, Nowhere, Unread

LEMMA FuturesKept ==
  ASSUME AnsweredOnce, GarbledKnown, FuturesFit,
         UNCHANGED <<inbox, received, via, futures, call, future, garbled>>
  PROVE  AnsweredOnce' /\ GarbledKnown' /\ FuturesFit'
<1>1. AnsweredOnce' /\ GarbledKnown' /\ \A i : Nowhere(i)' = Nowhere(i)
  BY MessagesKept
<1>. QED BY <1>1 DEF FuturesFit, FutureFits

\* A request that is lost with its connection is nowhere any more.
LEMMA RequestsLost ==
  ASSUME AnsweredOnce, GarbledKnown, FuturesFit,
         UNCHANGED <<inbox, via, futures, call, future, garbled>>,
         \A c \in Conns : received'[c] \subseteq received[c]
  PROVE  AnsweredOnce' /\ GarbledKnown' /\ FuturesFit'
<1>1. AnsweredOnce' /\ GarbledKnown'
  BY DEF AnsweredOnce, GarbledKnown, Unread
<1>2. \A i : Nowhere(i) => Nowhere(i)'
  BY DEF Nowhere, Unread
<1>3. FuturesFit'
  BY <1>2 DEF FuturesFit, FutureFits
<1>. QED BY <1>1, <1>3

LEMMA LoopsKept ==
  ASSUME LoopOutlivesCallbacks, UNCHANGED <<loop, call, via, futures>>,
         garbled \subseteq garbled',
         \A c \in Conns : open'[c] => open[c]
  PROVE  LoopOutlivesCallbacks'
BY DEF LoopOutlivesCallbacks
-----------------------------------------------------------------------------
LEMMA StartsRight == Init => BridgeInv
<1> SUFFICES ASSUME Init PROVE BridgeInv
  OBVIOUS
<1>1. TypeOK
  <2>1. /\ ws \in 0..MaxConns /\ subscribers \subseteq Topics
        /\ futures \subseteq Calls /\ unasked \in 0..MaxUnasked
        /\ garbled \subseteq Conns
        /\ connector \in [step : ConnectSteps, attempt : 0..MaxRetries]
    BY DDSBridgeAssumption DEF Init, NotBusy, ConnectSteps
  <2>2. /\ loop \in [Conns -> {"none", "reading", "ended"}]
        /\ call \in [Calls -> CallSteps]
        /\ future \in [Calls -> {"none", "pending", "result", "cancelled"}]
        /\ open \in [Conns -> BOOLEAN]
    BY DEF Init, CallSteps
  <2>3. /\ inbox \in [Conns -> Seq(Messages)]
        /\ subscribed \in [Conns -> SUBSET Topics]
        /\ received \in [Conns -> SUBSET Calls]
        /\ via \in [Calls -> 0..MaxConns]
    BY DDSBridgeAssumption DEF Init
  <2>. QED BY <2>1, <2>2, <2>3 DEF TypeOK
<1>2. \A i : Nowhere(i)
  BY DEF Init, Nowhere, Unread
<1>3. AnsweredOnce /\ GarbledKnown
  BY DEF Init, AnsweredOnce, GarbledKnown, Unread
<1>4. FuturesFit
  BY <1>2 DEF Init, FuturesFit, FutureFits
<1>5. LoopOutlivesCallbacks /\ AttemptsLeft
  BY DEF Init, LoopOutlivesCallbacks, AttemptsLeft, NotBusy
<1>. QED BY <1>1, <1>3, <1>4, <1>5 DEF BridgeInv

\* connect, up to the connection, and its backoff.
LEMMA ConnectingKeeps ==
  ASSUME BridgeInv, StartConnect \/ ConnectFails \/ RetryConnect \/ Disconnected
  PROVE  BridgeInv'
<1>1. UNCHANGED <<futures, call, future, via, received, inbox, loop, open, garbled>>
  BY DEF StartConnect, ConnectFails, RetryConnect, Disconnected, server
<1>2. connector.attempt \in 0..MaxRetries /\ MaxRetries \in Nat
  BY DDSBridgeAssumption DEF BridgeInv, TypeOK
<1>3. /\ connector' \in [step : ConnectSteps, attempt : 0..MaxRetries]
      /\ AttemptsLeft' /\ ws' \in 0..MaxConns
      /\ UNCHANGED <<subscribers, subscribed, unasked>>
  <2>1. CASE StartConnect
    BY <2>1, DDSBridgeAssumption
       DEF StartConnect, AttemptsLeft, ConnectSteps, BridgeInv, TypeOK, server
  <2>2. CASE ConnectFails
    BY <1>2, <2>2
       DEF ConnectFails, BridgeInv, TypeOK, AttemptsLeft, ConnectSteps, server
  <2>3. CASE RetryConnect
    BY <1>2, <2>3
       DEF RetryConnect, BridgeInv, TypeOK, AttemptsLeft, ConnectSteps, server
  <2>4. CASE Disconnected
    BY <2>4, DDSBridgeAssumption
       DEF Disconnected, NotBusy, AttemptsLeft, ConnectSteps, server
  <2>. QED BY <2>1, <2>2, <2>3, <2>4
<1>4. TypeOK'
  BY <1>1, <1>3 DEF BridgeInv, TypeOK
<1>5. AnsweredOnce' /\ GarbledKnown' /\ FuturesFit'
  BY <1>1, FuturesKept DEF BridgeInv
<1>6. LoopOutlivesCallbacks'
  BY <1>1, LoopsKept DEF BridgeInv
<1>. QED BY <1>3, <1>4, <1>5, <1>6 DEF BridgeInv

LEMMA AttemptsKept ==
  ASSUME BridgeInv, UNCHANGED connector
  PROVE  AttemptsLeft'
BY DEF BridgeInv, AttemptsLeft

\* A new connection has a loop that reads; no older one is touched.
LEMMA ConnectedKeeps ==
  ASSUME BridgeInv, ConnectSucceeds
  PROVE  BridgeInv'
<1>1. PICK c \in Conns : /\ ws' = c
                         /\ loop' = [loop EXCEPT ![c] = "reading"]
                         /\ open' = [open EXCEPT ![c] = TRUE]
  BY DEF ConnectSucceeds
<1>2. UNCHANGED <<subscribers, futures, call, future, via, inbox, subscribed,
                  received, unasked, garbled>>
      /\ connector' = NotBusy
  BY DEF ConnectSucceeds
<1>3. TypeOK'
  <2>1. ws' \in 0..MaxConns
    BY <1>1, ConnsAreNumbers DEF Conns
  <2>2. loop' \in [Conns -> {"none", "reading", "ended"}] /\ open' \in [Conns -> BOOLEAN]
    BY <1>1 DEF BridgeInv, TypeOK
  <2>3. connector' \in [step : ConnectSteps, attempt : 0..MaxRetries]
    BY <1>2, DDSBridgeAssumption DEF NotBusy, ConnectSteps
  <2>. QED BY <1>2, <2>1, <2>2, <2>3 DEF BridgeInv, TypeOK
<1>4. AttemptsLeft'
  BY <1>2 DEF AttemptsLeft, NotBusy
<1>5. AnsweredOnce' /\ GarbledKnown' /\ FuturesFit'
  BY <1>2, FuturesKept DEF BridgeInv
<1>6. LoopOutlivesCallbacks'
  BY <1>1, <1>2 DEF BridgeInv, TypeOK, LoopOutlivesCallbacks
<1>. QED BY <1>3, <1>4, <1>5, <1>6 DEF BridgeInv

\* What is left of the connections when some are lost.
Shrinks == /\ open' \in [Conns -> BOOLEAN]
           /\ received' \in [Conns -> SUBSET Calls]
           /\ subscribed' \in [Conns -> SUBSET Topics]
           /\ \A c \in Conns : open'[c] => open[c]
           /\ \A c \in Conns : received'[c] \subseteq received[c]

\* disconnect, subscribe and the loss of a connection.
LEMMA LosingKeeps ==
  ASSUME BridgeInv, Disconnect \/ (\E t \in Topics : Subscribe(t))
                    \/ (\E c \in Conns : Drop(c))
  PROVE  BridgeInv'
<1>1. /\ UNCHANGED <<futures, call, future, via, inbox, loop, unasked, garbled, ws>>
      /\ subscribers' \subseteq Topics
  BY DEF Disconnect, Subscribe, Drop, bridge, BridgeInv, TypeOK
<1>2. /\ connector' \in [step : ConnectSteps, attempt : 0..MaxRetries]
      /\ AttemptsLeft'
  <2>1. CASE connector' = connector
    BY <2>1 DEF BridgeInv, TypeOK, AttemptsLeft
  <2>2. CASE Disconnect
    BY <2>2, DDSBridgeAssumption DEF Disconnect, ConnectSteps, AttemptsLeft
  <2>. QED BY <2>1, <2>2 DEF Subscribe, Drop, bridge
<1>3. Shrinks
  <2>1. ASSUME NEW c \in Conns, Lost(c)
        PROVE  Shrinks
    BY <2>1 DEF BridgeInv, TypeOK, Lost, Shrinks
  <2>2. ASSUME NEW t \in Topics, Subscribe(t)
        PROVE  Shrinks
    <3>1. UNCHANGED <<open, received>>
      BY <2>2 DEF Subscribe
    <3>2. \/ subscribed' = subscribed
          \/ subscribed' = [subscribed EXCEPT ![ws] = subscribed[ws] \cup {t}] /\ ws \in Conns
      BY <2>2, ConnsAreNumbers DEF Subscribe, BridgeInv, TypeOK, Conns
    <3>3. subscribed' \in [Conns -> SUBSET Topics]
      <4>1. subscribed \in [Conns -> SUBSET Topics]
        BY DEF BridgeInv, TypeOK
      <4>2. ws \in Conns => subscribed[ws] \cup {t} \in SUBSET Topics
        BY <4>1
      <4>3. CASE subscribed' = subscribed
        BY <4>1, <4>3
      <4>4. CASE /\ ws \in Conns
                 /\ subscribed' = [subscribed EXCEPT ![ws] = subscribed[ws] \cup {t}]
        BY <4>1, <4>2, <4>4
      <4>. QED BY <3>2, <4>3, <4>4
    <3>. QED BY <3>1, <3>3 DEF BridgeInv, TypeOK, Shrinks
  <2>3. Disconnect => ws \in Conns /\ Lost(ws)
    BY ConnsAreNumbers DEF Disconnect, BridgeInv, TypeOK, Conns
  <2>. QED BY <2>1, <2>2, <2>3 DEF Drop
<1>4. TypeOK'
  BY <1>1, <1>2, <1>3 DEF BridgeInv, TypeOK, Shrinks
<1>5. AnsweredOnce' /\ GarbledKnown' /\ FuturesFit'
  BY <1>1, <1>3, RequestsLost DEF BridgeInv, Shrinks
<1>6. LoopOutlivesCallbacks'
  BY <1>1, <1>3, LoopsKept DEF BridgeInv, Shrinks
<1>. QED BY <1>2, <1>4, <1>5, <1>6 DEF BridgeInv

\* A new call: its id is nowhere until its request is sent.
LEMMA CallKeeps ==
  ASSUME BridgeInv, NEW i \in Calls, CallService(i)
  PROVE  BridgeInv'
<1>1. /\ call[i] = "idle" /\ i \notin futures /\ future[i] = "none" /\ Nowhere(i)
      /\ UNCHANGED <<ws, subscribers, connector, loop, open, inbox, subscribed,
                     unasked, garbled>>
  BY DEF BridgeInv, FuturesFit, FutureFits, CallService
<1>2. /\ call' \in [Calls -> CallSteps] /\ via' \in [Calls -> 0..MaxConns]
      /\ future' \in [Calls -> {"none", "pending", "result", "cancelled"}]
      /\ futures' \subseteq Calls
      /\ received' \in [Conns -> SUBSET Calls]
      /\ \A c \in Conns : received'[c] \subseteq received[c] \cup {i}
      /\ \A c \in Conns : i \in received'[c] => via'[i] = c
      /\ \A j \in Calls \ {i} : /\ via'[j] = via[j] /\ call'[j] = call[j]
                                /\ future'[j] = future[j]
                                /\ j \in futures' <=> j \in futures
      /\ call'[i] \in {"sending", "raised"} /\ future'[i] \in {"none", "pending"}
      /\ future'[i] = "pending" => i \in futures'
  <2>1. CASE ws = 0
    <3>1. /\ call' = [call EXCEPT ![i] = "raised"]
          /\ UNCHANGED <<futures, future, via, received>>
      BY <2>1 DEF CallService
    <3>. QED BY <1>1, <3>1 DEF BridgeInv, TypeOK, CallSteps, Nowhere
  <2>2. CASE ws # 0
    <3>1. ws \in Conns
      BY <2>2, ConnsAreNumbers DEF BridgeInv, TypeOK, Conns
    <3>2. /\ call' = [call EXCEPT ![i] = "sending"]
          /\ futures' = futures \cup {i}
          /\ future' = [future EXCEPT ![i] = "pending"]
          /\ via' = [via EXCEPT ![i] = ws]
      BY <2>2 DEF CallService
    <3>3. \/ received' = [received EXCEPT ![ws] = received[ws] \cup {i}]
          \/ received' = received
      BY <2>2 DEF CallService
    <3>4. /\ received' \in [Conns -> SUBSET Calls]
          /\ \A c \in Conns : received'[c] \subseteq received[c] \cup {i}
          /\ \A c \in Conns : i \in received'[c] => c = ws
      <4>1. received \in [Conns -> SUBSET Calls]
        BY DEF BridgeInv, TypeOK
      <4>2. received[ws] \cup {i} \in SUBSET Calls
        BY <3>1, <4>1
      <4>3. \A c \in Conns : i \notin received[c]
        BY <1>1 DEF Nowhere
      <4>4. CASE received' = received
        BY <4>1, <4>3, <4>4
      <4>5. CASE received' = [received EXCEPT ![ws] = received[ws] \cup {i}]
        BY <3>1, <4>1, <4>2, <4>3, <4>5
      <4>. QED BY <3>3, <4>4, <4>5
    <3>5. /\ call' \in [Calls -> CallSteps] /\ futures' \subseteq Calls
          /\ future' \in [Calls -> {"none", "pending", "result", "cancelled"}]
          /\ via' \in [Calls -> 0..MaxConns] /\ via'[i] = ws
          /\ call'[i] = "sending" /\ future'[i] = "pending" /\ i \in futures'
      BY <3>2 DEF BridgeInv, TypeOK, CallSteps
    <3>6. \A j \in Calls \ {i} : /\ via'[j] = via[j] /\ call'[j] = call[j]
                                 /\ future'[j] = future[j]
                                 /\ j \in futures' <=> j \in futures
      BY <3>2 DEF BridgeInv, TypeOK
    <3>. QED BY <3>4, <3>5, <3>6
  <2>. QED BY <2>1, <2>2
<1>3. TypeOK'
  BY <1>1, <1>2 DEF BridgeInv, TypeOK
<1>4. \A c \in Conns : Unread(c)' = Unread(c) /\ i \notin Unread(c)
  BY <1>1 DEF Nowhere, Unread
<1>5. AnsweredOnce'
  <2> SUFFICES ASSUME NEW j \in Calls, NEW c \in Conns
               PROVE  /\ j \in received'[c] \cup Unread(c)' => via'[j] = c
                      /\ j \in received'[c] => j \notin Unread(c)'
                      /\ \A k, l \in DOMAIN inbox'[c] :
                           inbox'[c][k] = j /\ inbox'[c][l] = j => k = l
    BY DEF AnsweredOnce
  <2>1. \A k, l \in DOMAIN inbox'[c] :
           inbox'[c][k] = j /\ inbox'[c][l] = j => k = l
    BY <1>1 DEF BridgeInv, AnsweredOnce
  <2>2. CASE j = i
    BY <1>2, <1>4, <2>1, <2>2
  <2>3. CASE j # i
    BY <1>2, <1>4, <2>1, <2>3 DEF BridgeInv, AnsweredOnce
  <2>. QED BY <2>2, <2>3
<1>6. GarbledKnown'
  BY <1>1, <1>4 DEF BridgeInv, GarbledKnown
<1>7. ASSUME NEW j \in Calls, j # i
      PROVE  FutureFits(j)'
  <2>1. Nowhere(j) => Nowhere(j)'
    BY <1>2, <1>4, <1>7 DEF Nowhere
  <2>. QED BY <1>2, <1>7, <2>1 DEF BridgeInv, FuturesFit, FutureFits
<1>8. FutureFits(i)'
  BY <1>2 DEF FutureFits
<1>9. FuturesFit'
  BY <1>7, <1>8 DEF FuturesFit
<1>10. LoopOutlivesCallbacks'
  <2> SUFFICES ASSUME NEW c \in Conns, loop[c] = "ended", open[c], c \notin garbled
               PROVE  \E j \in Calls : /\ via'[j] = c /\ call'[j] = "timeout"
                                       /\ j \notin futures'
    BY <1>1 DEF LoopOutlivesCallbacks
  <2>1. PICK j \in Calls : via[j] = c /\ call[j] = "timeout" /\ j \notin futures
    BY DEF BridgeInv, LoopOutlivesCallbacks
  <2>2. j # i
    BY <1>1, <2>1
  <2>. QED BY <1>2, <2>1, <2>2
<1>11. AttemptsLeft'
  BY <1>1, AttemptsKept
<1>. QED BY <1>3, <1>5, <1>6, <1>9, <1>10, <1>11 DEF BridgeInv

\* The end of send, the timer and the return of a call.
LEMMA FinishKeeps ==
  ASSUME BridgeInv, NEW i \in Calls, Finish(i)
  PROVE  BridgeInv'
<1>1. /\ call[i] \in InCall
      /\ UNCHANGED <<ws, subscribers, futures, connector, loop, via, server>>
      /\ call' = [call EXCEPT ![i] = call'[i]]
      /\ call'[i] \in {"waiting", "raised", "timeout", "done"}
      /\ call'[i] = "done" => future[i] = "result"
      /\ \/ future' = future /\ future[i] # "cancelled"
         \/ /\ call'[i] = "timeout" /\ future[i] = "pending"
            /\ future' = [future EXCEPT ![i] = "cancelled"]
  <2>1. CASE SendEnds(i)
    BY <2>1 DEF SendEnds, InCall, BridgeInv, TypeOK, FuturesFit, FutureFits
  <2>2. CASE TimeOut(i)
    BY <2>2 DEF TimeOut, InCall, BridgeInv, TypeOK
  <2>3. CASE Return(i)
    BY <2>3 DEF Return, InCall, BridgeInv, TypeOK
  <2>. QED BY <2>1, <2>2, <2>3 DEF Finish
<1>2. TypeOK'
  <2>1. /\ call' \in [Calls -> CallSteps]
        /\ future' \in [Calls -> {"none", "pending", "result", "cancelled"}]
    BY <1>1, ZenonT(30) DEF BridgeInv, TypeOK, CallSteps
  <2>. QED BY <1>1, <2>1 DEF BridgeInv, TypeOK, server
<1>3. AnsweredOnce' /\ GarbledKnown' /\ \A j : Nowhere(j)' = Nowhere(j)
  BY <1>1, MessagesKept DEF BridgeInv, server
<1>4. FuturesFit'
  <2> SUFFICES ASSUME NEW j \in Calls PROVE FutureFits(j)'
    BY DEF FuturesFit
  <2>1. CASE j = i
    BY <1>1, <1>3, <2>1 DEF BridgeInv, TypeOK, FuturesFit, FutureFits, InCall
  <2>2. CASE j # i
    <3>1. call'[j] = call[j] /\ future'[j] = future[j]
      BY <1>1, <2>2 DEF BridgeInv, TypeOK
    <3>. QED BY <1>1, <1>3, <3>1 DEF BridgeInv, FuturesFit, FutureFits
  <2>. QED BY <2>1, <2>2
<1>5. LoopOutlivesCallbacks'
  <2>1. /\ UNCHANGED <<open, loop, futures, via, garbled>>
        /\ \A j \in Calls : call[j] = "timeout" => call'[j] = "timeout"
    BY <1>1 DEF BridgeInv, TypeOK, server, InCall
  <2>. QED BY <2>1 DEF BridgeInv, LoopOutlivesCallbacks
<1>6. AttemptsLeft'
  BY <1>1, AttemptsKept
<1>. QED BY <1>2, <1>3, <1>4, <1>5, <1>6 DEF BridgeInv

\* Reading the next message of a connection.
LEMMA ReadTakesFirst ==
  ASSUME BridgeInv, NEW c \in Conns, inbox[c] # <<>>, Read(c),
         UNCHANGED <<received, via, garbled>>
  PROVE  /\ Head(inbox[c]) \in Messages
         /\ inbox' \in [Conns -> Seq(Messages)]
         /\ \A d \in Conns : Unread(d)' \subseteq Unread(d)
         /\ AnsweredOnce' /\ GarbledKnown'
         /\ Head(inbox[c]) \in Unread(c)
         /\ \A d \in Conns : Head(inbox[c]) \in Calls =>
              Head(inbox[c]) \notin received'[d] /\ Head(inbox[c]) \notin Unread(d)'
<1> DEFINE m == Head(inbox[c])
<1>1. /\ inbox \in [Conns -> Seq(Messages)] /\ inbox[c] \in Seq(Messages)
      /\ inbox'[c] = Tail(inbox[c])
      /\ \A d \in Conns : d # c => inbox'[d] = inbox[d]
      /\ inbox' = [inbox EXCEPT ![c] = Tail(inbox[c])]
  BY DEF BridgeInv, TypeOK, Read
<1>2. /\ m \in Messages /\ m = inbox[c][1] /\ 1 \in DOMAIN inbox[c]
      /\ inbox'[c] \in Seq(Messages)
      /\ \A k \in DOMAIN inbox'[c] :
           k \in Nat /\ k + 1 \in DOMAIN inbox[c] /\ k + 1 # 1
           /\ inbox'[c][k] = inbox[c][k + 1]
  BY <1>1, HeadAndTail
<1>3. inbox' \in [Conns -> Seq(Messages)]
  BY <1>1, <1>2
<1>4. \A d \in Conns : Unread(d)' \subseteq Unread(d)
  BY <1>1, <1>2 DEF Unread
<1>5. ASSUME NEW i \in Calls, NEW d \in Conns
      PROVE  /\ i \in received'[d] \cup Unread(d)' => via'[i] = d
             /\ i \in received'[d] => i \notin Unread(d)'
             /\ \A k, j \in DOMAIN inbox'[d] :
                  inbox'[d][k] = i /\ inbox'[d][j] = i => k = j
  <2>1. /\ i \in received'[d] \cup Unread(d)' => via'[i] = d
        /\ i \in received'[d] => i \notin Unread(d)'
    BY <1>4 DEF BridgeInv, AnsweredOnce
  <2>2. ASSUME NEW k \in DOMAIN inbox'[d], NEW j \in DOMAIN inbox'[d],
               inbox'[d][k] = i, inbox'[d][j] = i
        PROVE  k = j
    <3>1. CASE d = c
      <4>1. /\ k \in Nat /\ k + 1 \in DOMAIN inbox[c] /\ inbox[c][k + 1] = i
            /\ j \in Nat /\ j + 1 \in DOMAIN inbox[c] /\ inbox[c][j + 1] = i
        BY <1>2, <2>2, <3>1
      <4>2. k + 1 = j + 1
        BY <4>1 DEF BridgeInv, AnsweredOnce
      <4>. QED BY <4>1, <4>2
    <3>2. CASE d # c
      BY <1>1, <2>2, <3>2 DEF BridgeInv, AnsweredOnce
    <3>. QED BY <3>1, <3>2
  <2>. QED BY <2>1, <2>2
<1>6. AnsweredOnce' /\ GarbledKnown'
  BY <1>4, <1>5 DEF AnsweredOnce, BridgeInv, GarbledKnown
<1>7. m \in Unread(c)
  BY <1>2 DEF Unread
<1>8. ASSUME m \in Calls, NEW d \in Conns
      PROVE  m \notin received'[d] /\ m \notin Unread(d)'
  <2>1. via[m] = c /\ m \notin received[c]
    BY <1>7, <1>8 DEF BridgeInv, AnsweredOnce
  <2>2. CASE d = c
    <3>1. m \notin Unread(c)'
      <4> SUFFICES ASSUME NEW k \in DOMAIN inbox'[c], inbox'[c][k] = m
                   PROVE  FALSE
        BY DEF Unread
      <4>. QED BY <1>2, <1>8 DEF BridgeInv, AnsweredOnce
    <3>. QED BY <2>1, <2>2, <3>1
  <2>3. CASE d # c
    BY <1>4, <1>8, <2>1, <2>3 DEF BridgeInv, AnsweredOnce
  <2>. QED BY <2>2, <2>3
<1>. QED BY <1>2, <1>3, <1>4, <1>6, <1>7, <1>8

\* A callback may raise: the loop reads on.
LEMMA PublishReadKeeps ==
  ASSUME BridgeInv, NEW c \in Conns, OnPublish(c)
  PROVE  BridgeInv'
<1>1. /\ inbox[c] # <<>> /\ Read(c) /\ loop' = loop
      /\ UNCHANGED <<ws, subscribers, futures, connector, call, future, via,
                     open, subscribed, received, unasked, garbled>>
  BY DEF OnPublish, CallbackFails
<1>2. /\ inbox' \in [Conns -> Seq(Messages)] /\ AnsweredOnce' /\ GarbledKnown'
      /\ \A d \in Conns : Unread(d)' \subseteq Unread(d)
  BY <1>1, ReadTakesFirst
<1>3. TypeOK'
  BY <1>1, <1>2 DEF BridgeInv, TypeOK
<1>4. FuturesFit'
  BY <1>1, <1>2 DEF BridgeInv, FuturesFit, FutureFits, Nowhere
<1>5. LoopOutlivesCallbacks' /\ AttemptsLeft'
  BY <1>1, LoopsKept, AttemptsKept DEF BridgeInv
<1>. QED BY <1>2, <1>3, <1>4, <1>5 DEF BridgeInv

\* A malformed message ends the loop of a connection that is known for it.
LEMMA MalformedKeeps ==
  ASSUME BridgeInv, NEW c \in Conns, OnMalformed(c)
  PROVE  BridgeInv'
<1>1. /\ inbox[c] # <<>> /\ Read(c) /\ loop' = [loop EXCEPT ![c] = "ended"]
      /\ Head(inbox[c]) = Malformed
      /\ UNCHANGED <<ws, subscribers, futures, connector, call, future, via,
                     open, subscribed, received, unasked, garbled>>
  BY DEF OnMalformed
<1>2. /\ inbox' \in [Conns -> Seq(Messages)] /\ AnsweredOnce' /\ GarbledKnown'
      /\ Malformed \in Unread(c)
      /\ \A d \in Conns : Unread(d)' \subseteq Unread(d)
  BY <1>1, ReadTakesFirst
<1>3. TypeOK'
  <2>1. loop' \in [Conns -> {"none", "reading", "ended"}]
    BY <1>1 DEF BridgeInv, TypeOK
  <2>. QED BY <1>1, <1>2, <2>1 DEF BridgeInv, TypeOK
<1>4. FuturesFit'
  BY <1>1, <1>2 DEF BridgeInv, FuturesFit, FutureFits, Nowhere
<1>5. LoopOutlivesCallbacks'
  <2>1. c \in garbled
    BY <1>2 DEF BridgeInv, GarbledKnown
  <2>. QED BY <1>1, <2>1 DEF BridgeInv, TypeOK, LoopOutlivesCallbacks
<1>6. AttemptsLeft'
  BY <1>1, AttemptsKept
<1>. QED BY <1>2, <1>3, <1>4, <1>5, <1>6 DEF BridgeInv

\* An answer settles its own call and no other, or finds it given up.
LEMMA ResponseKeeps ==
  ASSUME BridgeInv, NEW c \in Conns, OnResponse(c)
  PROVE  BridgeInv'
<1> DEFINE i == Head(inbox[c])
<1>1. /\ inbox[c] # <<>> /\ Read(c) /\ i \in Calls /\ futures' = futures \ {i}
      /\ UNCHANGED <<ws, subscribers, connector, call, via, open, subscribed,
                     received, unasked, garbled>>
  BY DEF OnResponse
<1>2. /\ inbox' \in [Conns -> Seq(Messages)] /\ AnsweredOnce' /\ GarbledKnown'
      /\ i \in Unread(c)
      /\ \A d \in Conns : Unread(d)' \subseteq Unread(d)
      /\ \A d \in Conns : i \notin received'[d] /\ i \notin Unread(d)'
  BY <1>1, ReadTakesFirst
<1>3. \/ /\ i \in futures /\ future[i] = "pending"
         /\ future' = [future EXCEPT ![i] = "result"]
         /\ loop' = loop
      \/ /\ i \in futures /\ future[i] = "cancelled"
         /\ loop' = [loop EXCEPT ![c] = "ended"]
         /\ future' = future
      \/ /\ i \notin futures
         /\ loop' = loop /\ future' = future
  BY DEF OnResponse
<1>4. TypeOK'
  <2>1. /\ future' \in [Calls -> {"none", "pending", "result", "cancelled"}]
        /\ loop' \in [Conns -> {"none", "reading", "ended"}]
        /\ futures' \subseteq Calls
    BY <1>1, <1>3 DEF BridgeInv, TypeOK
  <2>. QED BY <1>1, <1>2, <2>1 DEF BridgeInv, TypeOK
<1>5. FuturesFit'
  <2> SUFFICES ASSUME NEW j \in Calls PROVE FutureFits(j)'
    BY DEF FuturesFit
  <2>1. i \notin futures' /\ call' = call
    BY <1>1
  <2>2. CASE j = i
    <3>1. call[i] # "idle" /\ future[i] # "result"
      BY <1>1, <1>2 DEF BridgeInv, FuturesFit, FutureFits, Nowhere
    <3>2. /\ future'[i] # "pending"
          /\ future'[i] = "cancelled" => future[i] = "cancelled"
      BY <1>1, <1>3 DEF BridgeInv, TypeOK, FuturesFit, FutureFits
    <3>3. Nowhere(j)'
      BY <1>2, <2>2 DEF Nowhere
    <3>. QED BY <1>1, <2>1, <2>2, <3>1, <3>2, <3>3
             DEF BridgeInv, FuturesFit, FutureFits
  <2>3. CASE j # i
    <3>1. /\ future'[j] = future[j] /\ call'[j] = call[j]
          /\ j \in futures' <=> j \in futures
      BY <1>1, <1>3, <2>3 DEF BridgeInv, TypeOK
    <3>2. Nowhere(j) => Nowhere(j)'
      BY <1>1, <1>2 DEF Nowhere
    <3>. QED BY <3>1, <3>2 DEF BridgeInv, FuturesFit, FutureFits
  <2>. QED BY <2>2, <2>3
<1>6. LoopOutlivesCallbacks'
  <2> SUFFICES ASSUME NEW d \in Conns, loop'[d] = "ended", open'[d]
               PROVE  \/ d \in garbled'
                      \/ \E j \in Calls : /\ via'[j] = d /\ call'[j] = "timeout"
                                          /\ j \notin futures'
    BY DEF LoopOutlivesCallbacks
  <2>1. CASE loop[d] = "ended"
    BY <1>1, <2>1 DEF BridgeInv, LoopOutlivesCallbacks
  <2>2. CASE loop[d] # "ended"
    <3>1. future[i] = "cancelled" /\ d = c
      BY <1>3, <2>2 DEF BridgeInv, TypeOK
    <3>2. via[i] = c
      BY <1>1, <1>2 DEF BridgeInv, AnsweredOnce
    <3>. QED BY <1>1, <3>1, <3>2 DEF BridgeInv, FuturesFit, FutureFits
  <2>. QED BY <2>1, <2>2
<1>7. AttemptsLeft'
  BY <1>1, AttemptsKept
<1>. QED BY <1>2, <1>4, <1>5, <1>6, <1>7 DEF BridgeInv

LEMMA LoopEndKeeps ==
  ASSUME BridgeInv, NEW c \in Conns, LoopEnds(c)
  PROVE  BridgeInv'
<1>1. /\ ~open[c] /\ loop' = [loop EXCEPT ![c] = "ended"]
      /\ UNCHANGED <<ws, subscribers, futures, connector, call, future, via, server>>
  BY DEF LoopEnds
<1>2. TypeOK'
  <2>1. loop' \in [Conns -> {"none", "reading", "ended"}]
    BY <1>1 DEF BridgeInv, TypeOK
  <2>. QED BY <1>1, <2>1 DEF BridgeInv, TypeOK, server
<1>3. AnsweredOnce' /\ GarbledKnown' /\ FuturesFit'
  BY <1>1, FuturesKept DEF BridgeInv, server
<1>4. LoopOutlivesCallbacks' /\ AttemptsLeft'
  BY <1>1, AttemptsKept DEF BridgeInv, TypeOK, LoopOutlivesCallbacks, server
<1>. QED BY <1>2, <1>3, <1>4 DEF BridgeInv
-----------------------------------------------------------------------------
(* rosbridge                                                               *)

\* A message sent on a connection is the last one of its inbox.
LEMMA SendAppends ==
  ASSUME BridgeInv, NEW c \in Conns, NEW m \in Messages, Send(c, m)
  PROVE  /\ inbox' \in [Conns -> Seq(Messages)]
         /\ \A d \in Conns : d # c => inbox'[d] = inbox[d]
         /\ \A k \in DOMAIN inbox'[c] :
              \/ k \in DOMAIN inbox[c] /\ inbox'[c][k] = inbox[c][k]
              \/ k = Len(inbox[c]) + 1 /\ inbox'[c][k] = m
         /\ \A d \in Conns : Unread(d)' \subseteq Unread(d) \cup {m}
<1>1. inbox[c] \in Seq(Messages) /\ inbox' = [inbox EXCEPT ![c] = Append(inbox[c], m)]
  BY DEF Send, BridgeInv, TypeOK
<1>2. /\ inbox' \in [Conns -> Seq(Messages)]
      /\ inbox'[c] = Append(inbox[c], m)
      /\ \A d \in Conns : d # c => inbox'[d] = inbox[d]
  BY <1>1, Appended DEF BridgeInv, TypeOK
<1>3. \A k \in DOMAIN inbox'[c] :
        \/ k \in DOMAIN inbox[c] /\ inbox'[c][k] = inbox[c][k]
        \/ k = Len(inbox[c]) + 1 /\ inbox'[c][k] = m
  BY <1>1, <1>2, Appended
<1>4. \A d \in Conns : Unread(d)' \subseteq Unread(d) \cup {m}
  BY <1>2, <1>3 DEF Unread
<1>. QED BY <1>2, <1>3, <1>4

\* The answer takes the place of its request.
LEMMA RespondKeeps ==
  ASSUME BridgeInv, NEW c \in Conns, NEW i \in received[c], Send(c, i),
         received' = [received EXCEPT ![c] = @ \ {i}],
         UNCHANGED <<bridge, open, subscribed, unasked, garbled>>
  PROVE  BridgeInv'
<1>1. i \in Calls /\ i \in Messages
  BY DEF BridgeInv, TypeOK, Messages
<1>2. /\ inbox' \in [Conns -> Seq(Messages)]
      /\ \A d \in Conns : d # c => inbox'[d] = inbox[d]
      /\ \A k \in DOMAIN inbox'[c] :
           \/ k \in DOMAIN inbox[c] /\ inbox'[c][k] = inbox[c][k]
           \/ k = Len(inbox[c]) + 1 /\ inbox'[c][k] = i
      /\ \A d \in Conns : Unread(d)' \subseteq Unread(d) \cup {i}
  BY <1>1, SendAppends
<1>3. /\ received' \in [Conns -> SUBSET Calls]
      /\ \A d \in Conns : received'[d] \subseteq received[d]
      /\ \A d \in Conns : i \notin received'[d]
      /\ \A d \in Conns : i \notin Unread(d)
      /\ via[i] = c /\ via' = via
  BY <1>1 DEF BridgeInv, TypeOK, AnsweredOnce, bridge
<1>4. TypeOK'
  BY <1>2, <1>3 DEF BridgeInv, TypeOK, bridge
<1>5. ASSUME NEW j \in Calls, NEW d \in Conns
      PROVE  /\ j \in received'[d] \cup Unread(d)' => via'[j] = d
             /\ j \in received'[d] => j \notin Unread(d)'
             /\ \A k, l \in DOMAIN inbox'[d] :
                  inbox'[d][k] = j /\ inbox'[d][l] = j => k = l
  <2>1. Unread(d)' \subseteq Unread(d) \/ d = c
    BY <1>2 DEF Unread
  <2>2. /\ j \in received'[d] \cup Unread(d)' => via'[j] = d
        /\ j \in received'[d] => j \notin Unread(d)'
    BY <1>2, <1>3, <2>1 DEF BridgeInv, AnsweredOnce
  <2>3. ASSUME NEW k \in DOMAIN inbox'[d], NEW l \in DOMAIN inbox'[d],
               inbox'[d][k] = j, inbox'[d][l] = j
        PROVE  k = l
    <3>1. CASE j = i
      <4>1. d = c /\ k = Len(inbox[c]) + 1
        BY <1>2, <1>3, <2>3, <3>1 DEF Unread
      <4>2. l = Len(inbox[c]) + 1
        BY <1>2, <1>3, <2>3, <3>1, SMTT(30) DEF Unread
      <4>. QED BY <4>1, <4>2
    <3>2. CASE j # i
      <4>1. /\ k \in DOMAIN inbox[d] /\ inbox[d][k] = j
            /\ l \in DOMAIN inbox[d] /\ inbox[d][l] = j
        BY <1>2, <2>3, <3>2
      <4>. QED BY <4>1 DEF BridgeInv, AnsweredOnce
    <3>. QED BY <3>1, <3>2
  <2>. QED BY <2>2, <2>3
<1>6. AnsweredOnce' /\ GarbledKnown'
  <2>1. i # Malformed /\ garbled' = garbled
    BY <1>1, DDSBridgeAssumption
  <2>. QED BY <1>2, <1>5, <2>1 DEF AnsweredOnce, BridgeInv, GarbledKnown
<1>7. FuturesFit'
  <2> SUFFICES ASSUME NEW j \in Calls PROVE FutureFits(j)'
    BY DEF FuturesFit
  <2>1. Nowhere(j) => j # i /\ Nowhere(j)'
    BY <1>2, <1>3 DEF Nowhere
  <2>. QED BY <2>1 DEF BridgeInv, FuturesFit, FutureFits, bridge
<1>8. LoopOutlivesCallbacks' /\ AttemptsLeft'
  BY LoopsKept, AttemptsKept DEF BridgeInv, bridge
<1>. QED BY <1>4, <1>6, <1>7, <1>8 DEF BridgeInv

\* Messages that answer no call disturb none.
LEMMA UnaskedKeeps ==
  ASSUME BridgeInv, NEW c \in Conns, Publish(c) \/ Garble(c)
  PROVE  BridgeInv'
<1>1. PICK m \in subscribed[c] \cup {Malformed} :
        /\ unasked < MaxUnasked /\ unasked' = unasked + 1
        /\ Send(c, m)
        /\ garbled' = IF m = Malformed THEN garbled \cup {c} ELSE garbled
        /\ UNCHANGED <<bridge, open, subscribed, received>>
  <2>1. \A t \in subscribed[c] : t # Malformed
    BY DDSBridgeAssumption DEF BridgeInv, TypeOK
  <2>. QED BY <2>1 DEF Publish, Garble
<1>2. m \in Messages /\ m \notin Calls
  BY DDSBridgeAssumption DEF BridgeInv, TypeOK, Messages
<1>3. /\ inbox' \in [Conns -> Seq(Messages)]
      /\ \A d \in Conns : d # c => inbox'[d] = inbox[d]
      /\ \A k \in DOMAIN inbox'[c] :
           \/ k \in DOMAIN inbox[c] /\ inbox'[c][k] = inbox[c][k]
           \/ k = Len(inbox[c]) + 1 /\ inbox'[c][k] = m
      /\ \A d \in Conns : Unread(d)' \subseteq Unread(d) \cup {m}
  BY <1>1, <1>2, SendAppends
<1>4. unasked' \in 0..MaxUnasked /\ garbled' \subseteq Conns /\ garbled \subseteq garbled'
  BY <1>1, DDSBridgeAssumption DEF BridgeInv, TypeOK
<1>5. TypeOK'
  BY <1>1, <1>3, <1>4 DEF BridgeInv, TypeOK, bridge
<1>6. ASSUME NEW j \in Calls, NEW d \in Conns, NEW k \in DOMAIN inbox'[d],
             inbox'[d][k] = j
      PROVE  k \in DOMAIN inbox[d] /\ inbox[d][k] = j
  BY <1>2, <1>3, <1>6
<1>7. \A d \in Conns, j \in Calls : j \in Unread(d)' => j \in Unread(d)
  BY <1>2, <1>3
<1>8. AnsweredOnce'
  BY <1>1, <1>6, <1>7 DEF BridgeInv, AnsweredOnce, bridge
<1>9. GarbledKnown'
  <2> SUFFICES ASSUME NEW d \in Conns, Malformed \in Unread(d)'
               PROVE  d \in garbled'
    BY DEF GarbledKnown
  <2>1. CASE Malformed \in Unread(d)
    BY <1>4, <2>1 DEF BridgeInv, GarbledKnown
  <2>2. CASE Malformed \notin Unread(d)
    <3>1. m = Malformed /\ d = c
      BY <1>3, <2>2 DEF Unread
    <3>. QED BY <1>1, <3>1
  <2>. QED BY <2>1, <2>2
<1>10. FuturesFit'
  <2>1. \A j \in Calls : Nowhere(j) => Nowhere(j)'
    BY <1>1, <1>7 DEF Nowhere
  <2>. QED BY <1>1, <2>1 DEF BridgeInv, FuturesFit, FutureFits, bridge
<1>11. LoopOutlivesCallbacks' /\ AttemptsLeft'
  BY <1>1, <1>4, LoopsKept, AttemptsKept DEF BridgeInv, bridge
<1>. QED BY <1>5, <1>8, <1>9, <1>10, <1>11 DEF BridgeInv
-----------------------------------------------------------------------------
LEMMA StepKeeps == BridgeInv /\ [Next]_vars => BridgeInv'
<1> SUFFICES ASSUME BridgeInv, [Next]_vars PROVE BridgeInv'
  OBVIOUS
<1>1. CASE StartConnect \/ ConnectFails \/ RetryConnect \/ Disconnected
  BY <1>1, ConnectingKeeps
<1>2. CASE ConnectSucceeds
  BY <1>2, ConnectedKeeps
<1>3. CASE Disconnect \/ (\E t \in Topics : Subscribe(t)) \/ (\E c \in Conns : Drop(c))
  BY <1>3, LosingKeeps
<1>4. ASSUME NEW i \in Calls, CallService(i) \/ Finish(i)
      PROVE  BridgeInv'
  BY <1>4, CallKeeps, FinishKeeps
<1>5. ASSUME NEW c \in Conns, Loop(c)
      PROVE  BridgeInv'
  BY <1>5, PublishReadKeeps, MalformedKeeps, ResponseKeeps, LoopEndKeeps DEF Loop
<1>6. ASSUME NEW c \in Conns, Respond(c) \/ Publish(c) \/ Garble(c)
      PROVE  BridgeInv'
  BY <1>6, RespondKeeps, UnaskedKeeps DEF Respond
<1>7. CASE UNCHANGED vars
  <2>1. TypeOK' /\ AttemptsLeft'
    BY <1>7 DEF vars, bridge, server, BridgeInv, TypeOK, AttemptsLeft
  <2>2. AnsweredOnce' /\ GarbledKnown' /\ FuturesFit' /\ LoopOutlivesCallbacks'
    BY <1>7, FuturesKept, LoopsKept DEF vars, bridge, server, BridgeInv
  <2>. QED BY <2>1, <2>2 DEF BridgeInv
<1>. QED BY <1>1, <1>2, <1>3, <1>4, <1>5, <1>6, <1>7 DEF Next, Connect, Server

LEMMA BridgeCorrect == Spec => []BridgeInv
BY StartsRight, StepKeeps, PTL DEF Spec
-----------------------------------------------------------------------------
\* Every variable of RealDDSBridge and of rosbridge keeps its type.
THEOREM TypeCorrect == Spec => []TypeOK
<1>1. BridgeInv => TypeOK
  BY DEF BridgeInv
<1>. QED BY <1>1, BridgeCorrect, PTL

\* RealDDSBridge.call_service and _message_loop: a call that waits is in the
\* dictionary, and returns the one answer that came on its own connection.
THEOREM AnswersMatchCalls == Spec => []AnswerMatchesCall
<1>1. BridgeInv => AnswerMatchesCall
  BY DEF BridgeInv, AnsweredOnce, FuturesFit, FutureFits, Nowhere,
         AnswerMatchesCall
<1>. QED BY <1>1, BridgeCorrect, PTL

\* RealDDSBridge._message_loop: callbacks that raise do not end it, nor does
\* what happens on another connection.
THEOREM LoopsOutliveCallbacks == Spec => []LoopOutlivesCallbacks
<1>1. BridgeInv => LoopOutlivesCallbacks
  BY DEF BridgeInv
<1>. QED BY <1>1, BridgeCorrect, PTL
=============================================================================
