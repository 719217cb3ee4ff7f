----------------------------- MODULE DDSBridge -----------------------------
(***************************************************************************)
(* RealDDSBridge: one websocket to rosbridge shared by the coroutines that *)
(* call services, the ones that subscribe, and a message loop per          *)
(* connection.  Steps of different coroutines interleave at their awaits.  *)
(*                                                                         *)
(* Connections are numbered in the order they are opened; 0 stands for     *)
(* _ws = None.  rosbridge itself is external: it may answer a call at any  *)
(* time after the request was written, or never, publishes what is         *)
(* subscribed on a connection, may send what cannot be parsed, and may go  *)
(* away.  _running, which is written and never read, is left out.          *)
(***************************************************************************)
EXTENDS Integers, Sequences, FiniteSets

CONSTANTS
  Calls,        \* call ids of call_service
  Topics,       \* topics that are subscribed to
  Malformed,    \* a message that json.loads or msg.get raises on
  MaxRetries,   \* _MAX_RETRIES
  MaxConns,     \* bound: connections opened
  MaxInbox,     \* bound: messages of rosbridge not yet read
  MaxUnasked    \* bound: messages that answer no call

ASSUME DDSBridgeAssumption ==
  /\ MaxRetries \in Nat \ {0} /\ MaxConns \in Nat \ {0}
  /\ MaxInbox \in Nat /\ MaxUnasked \in Nat
  /\ Calls \cap Topics = {} /\ Malformed \notin Calls \cup Topics

VARIABLES
  ws,          \* _ws
  subscribers, \* topics with a registered callback
  futures,     \* _service_futures: the call ids it holds
  connector,   \* the coroutine in connect() or disconnect(): step and attempt
  loop,        \* loop[c]: the message loop of connection c
  call,        \* call[i]: where the coroutine of call i is
  future,      \* future[i]: its future
  via,         \* via[i]: the connection its request is sent on
  open,        \* open[c]: connection c is open             (rosbridge)
  inbox,       \* inbox[c]: messages sent on c, not read yet (rosbridge)
  subscribed,  \* subscribed[c]: topics asked for on c       (rosbridge)
  received,    \* received[c]: requests that reached it on c (rosbridge)
  unasked,     \* messages sent that answer no call          (rosbridge)
  garbled      \* connections that got a malformed message   (rosbridge)

bridge == <<ws, subscribers, futures, connector, loop, call, future,
            via>>
server == <<open, inbox, subscribed, received, unasked, garbled>>
vars   == <<bridge, server>>
-----------------------------------------------------------------------------
Conns     == 1..MaxConns
Opened    == {c \in Conns : loop[c] # "none"}
ConnectSteps == {"idle", "trying", "backoff", "raised", "closing"}
CallSteps == {"idle", "sending", "waiting", "done", "timeout", "raised"}
InCall    == {"sending", "waiting"}
Settled   == {"done", "timeout", "raised"}
Messages  == Calls \cup Topics \cup {Malformed}  \* service_response, publish
NotBusy   == [step |-> "idle", attempt |-> 0]

Init ==
  /\ ws = 0
  /\ subscribers = {} /\ futures = {}
  /\ connector = NotBusy
  /\ loop = [c \in Conns |-> "none"]
  /\ call = [i \in Calls |-> "idle"]
  /\ future = [i \in Calls |-> "none"]
  /\ open = [c \in Conns |-> FALSE]
  /\ inbox = [c \in Conns |-> <<>>]
  /\ subscribed = [c \in Conns |-> {}]
  /\ received = [c \in Conns |-> {}]
  /\ via = [i \in Calls |-> 0]
  /\ unasked = 0 /\ garbled = {}
-----------------------------------------------------------------------------
(* connect                                                                 *)

\* The application connects, and connects again after the loop has ended.
StartConnect ==
  /\ connector.step \in {"idle", "raised"}
  /\ ws # 0 => loop[ws] = "ended"
  /\ connector' = [step |-> "trying", attempt |-> 1]
  /\ UNCHANGED <<ws, subscribers, futures, loop, call, future, via,
                 server>>

ConnectSucceeds ==
  /\ connector.step = "trying"
  /\ \E c \in Conns :
       /\ Opened = 1..(c - 1)
       /\ ws' = c
       /\ loop' = [loop EXCEPT ![c] = "reading"]
       /\ open' = [open EXCEPT ![c] = TRUE]
  /\ connector' = NotBusy
  /\ UNCHANGED <<subscribers, futures, call, future, via, inbox, subscribed,
                 received, unasked, garbled>>

\* Mutant: one attempt too many.
ConnectFails_OneMore ==
  /\ connector.step = "trying"
  /\ connector' = [connector EXCEPT !.step =
                     IF connector.attempt <= MaxRetries THEN "backoff"
                                                        ELSE "raised"]
  /\ UNCHANGED <<ws, subscribers, futures, loop, call, future, via,
                 server>>

ConnectFails ==
  /\ connector.step = "trying"
  /\ connector' = [connector EXCEPT !.step =
                     IF connector.attempt < MaxRetries THEN "backoff"
                                                       ELSE "raised"]
  /\ UNCHANGED <<ws, subscribers, futures, loop, call, future, via,
                 server>>

\* asyncio.sleep(_RECONNECT_DELAY_S) is over.
RetryConnect ==
  /\ connector.step = "backoff"
  /\ connector' = [step |-> "trying", attempt |-> connector.attempt + 1]
  /\ UNCHANGED <<ws, subscribers, futures, loop, call, future, via,
                 server>>

\* A connection is gone, and with it what rosbridge kept for it.
Lost(c) == /\ open' = [open EXCEPT ![c] = FALSE]
           /\ subscribed' = [subscribed EXCEPT ![c] = {}]
           /\ received' = [received EXCEPT ![c] = {}]

\* disconnect up to its await: close() refuses to send any more and ends the
\* iteration of the message loop without an exception.
Disconnect ==
  /\ connector.step \in {"idle", "raised"}
  /\ ws # 0
  /\ Lost(ws)
  /\ connector' = [step |-> "closing", attempt |-> 0]
  /\ UNCHANGED <<ws, subscribers, futures, loop, call, future, via, inbox,
                 unasked, garbled>>

\* The close handshake is over; until now _ws was the closing connection.
Disconnected ==
  /\ connector.step = "closing"
  /\ ws' = 0
  /\ connector' = NotBusy
  /\ UNCHANGED <<subscribers, futures, loop, call, future, via, server>>
-----------------------------------------------------------------------------
(* subscribe and call_service                                              *)

\* The callback is registered first; sending on a closed connection raises,
\* and without a connection nothing is sent, now or later.
Subscribe(t) ==
  /\ t \in subscribers => ws # 0 /\ t \notin subscribed[ws]
  /\ subscribers' = subscribers \cup {t}
  /\ subscribed' = IF ws # 0 /\ open[ws]
                     THEN [subscribed EXCEPT ![ws] = @ \cup {t}]
                     ELSE subscribed
  /\ UNCHANGED <<ws, futures, connector, loop, call, future, via,
                 open, inbox, received, unasked, garbled>>

\* call_service up to the await of send: the future enters the dictionary
\* before send, which writes the request at once if the connection is open.
CallService(i) ==
  /\ call[i] = "idle"
  /\ \/ /\ ws = 0
        /\ call' = [call EXCEPT ![i] = "raised"]
        /\ UNCHANGED <<futures, future, via, received>>
     \/ /\ ws # 0
        /\ call' = [call EXCEPT ![i] = "sending"]
        /\ futures' = futures \cup {i}
        /\ future' = [future EXCEPT ![i] = "pending"]
        /\ via' = [via EXCEPT ![i] = ws]
        /\ received' = IF open[ws]
                         THEN [received EXCEPT ![ws] = @ \cup {i}]
                         ELSE received
  /\ UNCHANGED <<ws, subscribers, connector, loop, open, inbox,
                 subscribed, unasked, garbled>>

\* send returns, or raises because the connection is closed; the answer may
\* have come by then.  When it raises the future stays in the dictionary.
SendEnds(i) ==
  /\ call[i] = "sending"
  /\ call' = [call EXCEPT ![i] = IF open[via[i]] THEN "waiting" ELSE "raised"]
  /\ UNCHANGED <<ws, subscribers, futures, connector, loop, future,
                 via, server>>

\* Mutant: the timer needs the connection.
TimeOut_NeedsConnection(i) ==
  /\ call[i] = "waiting" /\ future[i] = "pending"
  /\ ws # 0 /\ open[ws]
  /\ call' = [call EXCEPT ![i] = "timeout"]
  /\ future' = [future EXCEPT ![i] = "cancelled"]
  /\ UNCHANGED <<ws, subscribers, futures, connector, loop, via,
                 server>>

\* wait_for(fut, timeout=10.0) cancels the future; nobody pops it.
TimeOut(i) ==
  /\ call[i] = "waiting"
  /\ future[i] = "pending"
  /\ call' = [call EXCEPT ![i] = "timeout"]
  /\ future' = [future EXCEPT ![i] = "cancelled"]
  /\ UNCHANGED <<ws, subscribers, futures, connector, loop, via,
                 server>>

Return(i) ==
  /\ call[i] = "waiting"
  /\ future[i] = "result"
  /\ call' = [call EXCEPT ![i] = "done"]
  /\ UNCHANGED <<ws, subscribers, futures, connector, loop, future,
                 via, server>>
-----------------------------------------------------------------------------
(* _message_loop                                                           *)

Read(c) == inbox' = [inbox EXCEPT ![c] = Tail(@)]

\* A callback that raises is logged; the loop reads on.  Topics without a
\* callback are dropped.
CallbackFails_Raises(c) == loop' = [loop EXCEPT ![c] = "ended"]  \* mutant
CallbackFails(c)        == UNCHANGED loop

OnPublish(c) ==
  /\ loop[c] = "reading" /\ inbox[c] # <<>>
  /\ Head(inbox[c]) \in Topics
  /\ Read(c)
  /\ \/ UNCHANGED loop
     \/ Head(inbox[c]) \in subscribers /\ CallbackFails(c)
  /\ UNCHANGED <<ws, subscribers, futures, connector, call, future, via,
                 open, subscribed, received, unasked, garbled>>

\* json.loads raises, or the message is no object: the outer except ends the
\* loop, whatever the state of the connection.
OnMalformed(c) ==
  /\ loop[c] = "reading" /\ inbox[c] # <<>>
  /\ Head(inbox[c]) = Malformed
  /\ Read(c)
  /\ loop' = [loop EXCEPT ![c] = "ended"]
  /\ UNCHANGED <<ws, subscribers, futures, connector, call, future, via, open,
                 subscribed, received, unasked, garbled>>

\* Mutant: the response completes whichever call is waiting.
OnResponse_Any(c) ==
  /\ loop[c] = "reading" /\ inbox[c] # <<>>
  /\ Head(inbox[c]) \in Calls
  /\ Read(c)
  /\ \E i \in futures : /\ futures' = futures \ {i}
                        /\ future' = [future EXCEPT ![i] = "result"]
  /\ UNCHANGED <<ws, subscribers, connector, loop, call, via, open,
                 subscribed, received, unasked, garbled>>

\* pop(call_id).set_result(...): on a future that wait_for has cancelled it
\* raises InvalidStateError, which the outer except takes for a lost
\* connection.
OnResponse(c) ==
  /\ loop[c] = "reading" /\ inbox[c] # <<>>
  /\ Head(inbox[c]) \in Calls
  /\ Read(c)
  /\ LET i == Head(inbox[c]) IN
       /\ futures' = futures \ {i}
       /\ \/ /\ i \in futures /\ future[i] = "pending"
             /\ future' = [future EXCEPT ![i] = "result"]
             /\ UNCHANGED loop
          \/ /\ i \in futures /\ future[i] = "cancelled"
             /\ loop' = [loop EXCEPT ![c] = "ended"]
             /\ UNCHANGED future
          \/ /\ i \notin futures
             /\ UNCHANGED <<loop, future>>
  /\ UNCHANGED <<ws, subscribers, connector, call, via, open, subscribed,
                 received, unasked, garbled>>

\* The iteration ends: silently when the connection was closed normally,
\* with an exception, which is logged, when it broke.
LoopEnds(c) ==
  /\ loop[c] = "reading" /\ ~open[c] /\ inbox[c] = <<>>
  /\ loop' = [loop EXCEPT ![c] = "ended"]
  /\ UNCHANGED <<ws, subscribers, futures, connector, call, future, via, server>>
-----------------------------------------------------------------------------
(* rosbridge, external                                                     *)

Send(c, m) == /\ open[c] /\ Len(inbox[c]) < MaxInbox
              /\ inbox' = [inbox EXCEPT ![c] = Append(@, m)]

Respond(c) ==
  \E i \in received[c] :
    /\ Send(c, i)
    /\ received' = [received EXCEPT ![c] = @ \ {i}]
    /\ UNCHANGED <<bridge, open, subscribed, unasked, garbled>>

Publish(c) ==
  \E t \in subscribed[c] :
    /\ unasked < MaxUnasked
    /\ unasked' = unasked + 1
    /\ Send(c, t)
    /\ UNCHANGED <<bridge, open, subscribed, received, garbled>>

Garble(c) ==
  /\ unasked < MaxUnasked
  /\ unasked' = unasked + 1
  /\ garbled' = garbled \cup {c}
  /\ Send(c, Malformed)
  /\ UNCHANGED <<bridge, open, subscribed, received>>

Drop(c) == /\ open[c]
           /\ Lost(c)
           /\ UNCHANGED <<bridge, inbox, unasked, garbled>>
-----------------------------------------------------------------------------
Connect   == ConnectSucceeds \/ ConnectFails \/ RetryConnect \/ Disconnected
Loop(c)   == OnPublish(c) \/ OnMalformed(c) \/ OnResponse(c) \/ LoopEnds(c)
Finish(i) == SendEnds(i) \/ TimeOut(i) \/ Return(i)
Server(c) == Respond(c) \/ Publish(c) \/ Garble(c) \/ Drop(c)

Next == \/ StartConnect \/ Connect \/ Disconnect
        \/ \E t \in Topics : Subscribe(t)
        \/ \E i \in Calls : CallService(i) \/ Finish(i)
        \/ \E c \in Conns : Loop(c) \/ Server(c)

Spec == Init /\ [][Next]_vars

\* The event loop runs every ready coroutine and fires its timers; send and
\* close end because websockets gives up a peer that answers no ping.  Nothing
\* else is assumed of rosbridge, nor that the application calls anything.
FairSpec == /\ Spec
            /\ WF_vars(Connect)
            /\ \A i \in Calls : WF_vars(Finish(i))
            /\ \A c \in Conns : WF_vars(Loop(c))
-----------------------------------------------------------------------------
(* Properties                                                              *)

\* Every variable has its type (the one type invariant of the module).
TypeOK ==
  /\ ws \in 0..MaxConns
  /\ subscribers \subseteq Topics /\ futures \subseteq Calls
  /\ connector \in [step : ConnectSteps, attempt : 0..MaxRetries]
  /\ loop \in [Conns -> {"none", "reading", "ended"}]
  /\ call \in [Calls -> CallSteps]
  /\ future \in [Calls -> {"none", "pending", "result", "cancelled"}]
  /\ open \in [Conns -> BOOLEAN]
  /\ inbox \in [Conns -> Seq(Messages)]
  /\ subscribed \in [Conns -> SUBSET Topics]
  /\ received \in [Conns -> SUBSET Calls]
  /\ via \in [Calls -> 0..MaxConns]
  /\ unasked \in 0..MaxUnasked /\ garbled \subseteq Conns

Unread(c) == {inbox[c][k] : k \in DOMAIN inbox[c]}

\* A future leaves the dictionary exactly when its answer is handed over, and
\* a call returns only an answer to its own request, also one that came while
\* send was still waiting: an id that is being waited for is in the dictionary,
\* unanswered or on its way on the connection of its request, and an answered
\* call has no request or answer left anywhere.
AnswerMatchesCall ==
  \A i \in Calls :
    /\ call[i] \in InCall /\ future[i] = "pending" => i \in futures
    /\ call[i] = "done" => future[i] = "result"
    /\ \A c \in Conns :
         i \in received[c] \cup Unread(c) => via[i] = c /\ future[i] # "result"

\* A callback that raises does not end the message loop, nor does anything
\* that happens on another connection: while a connection is open its loop
\* ends only by an answer to a call made on it that had timed out, or by a
\* message that cannot be parsed.
LoopOutlivesCallbacks ==
  \A c \in Conns :
    loop[c] = "ended" /\ open[c] =>
      \/ c \in garbled
      \/ \E i \in Calls : via[i] = c /\ call[i] = "timeout" /\ i \notin futures

\* A caller never waits for ever, whatever becomes of rosbridge, of the
\* connection or of the message loop; and connect() ends, connected or with
\* DDSConnectionLostError.
CallsReturn ==
  /\ \A i \in Calls : call[i] \in InCall ~> call[i] \in Settled
  /\ connector.step = "trying" ~> connector.step \in {"idle", "raised"}

\* dds_bridge.py:147 "Connection-level failure (WebSocket closed, parse error,
\* etc.)": the message loop ends with an exception only when the connection
\* is gone or a message could not be parsed.
LoopEndsWithConnection ==
  \A c \in Conns : loop[c] = "ended" => ~open[c] \/ c \in garbled
=============================================================================
