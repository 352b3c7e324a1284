-------------------------------- MODULE Rpc --------------------------------
(***************************************************************************)
(* A Client of rpcProject/client.go on a connection to a Server of         *)
(* rpcProject/server.go: modules RpcClient and RpcServer composed.         *)
(*                                                                         *)
(* Each component's model leaves the other end open; here the request a    *)
(* caller writes is the one the server reads, the response of a goroutine  *)
(* of the server is the one the client receives, and the connection breaks *)
(* for both.  A step is a step of one component, and where it passes the   *)
(* network the other component takes the step that goes with it.           *)
(***************************************************************************)
EXTENDS Naturals, Sequences, FiniteSets

CONSTANTS
  Calls, Async, Cancelable, BadArgs, Chans, DoneChan, Cap, \* as in RpcClient
  Receiver, None,
  Workers,   \* the server's pool
  Conn,      \* the connection
  BadMethod, \* calls of a method the server does not have
  BadBody    \* calls whose arguments do not fit it, or never arrive

ASSUME RpcAssumption ==
  /\ IsFiniteSet(Calls) /\ IsFiniteSet(Workers)
  /\ Async \subseteq Calls
  /\ Cancelable \subseteq Calls \ Async
  /\ BadArgs \subseteq BadMethod \cup BadBody
  /\ BadMethod \subseteq Calls
  /\ BadBody \subseteq Calls \ BadMethod
  /\ None \notin Calls \cup (Calls \X Calls)
  /\ Receiver \notin Calls /\ Conn \notin Calls
  /\ None # Receiver /\ None # Conn
  /\ DoneChan \in [Calls -> Chans]
  /\ Cap \in [Chans -> Nat \ {0}]
  /\ \A c \in Calls \ Async, d \in Calls : DoneChan[c] = DoneChan[d] => c = d

VARIABLES
  pc, seqOf, error, reply, ndone, chan, sending, header, seq, pending, closing,
  shutdown, conn, requests, inbound, rpc, hdr, hand, readErr, todo,
  link, inbox, garbled, unread, cs, acceptor, queue, worker, rs, gor, wg, answers

C == INSTANCE RpcClient

S == INSTANCE RpcServer WITH
  Conns <- {Conn}, Reqs <- Calls, ConnOf <- [c \in Calls |-> Conn], BadOption <- {}

clientVars == <<pc, seqOf, error, reply, ndone, chan, sending, header, seq, pending,
                closing, shutdown, conn, requests, inbound, rpc, hdr, hand, readErr, todo>>
serverVars == <<link, inbox, garbled, unread, cs, acceptor, queue, worker, rs, gor, wg,
                answers>>
vars == <<clientVars, serverVars>>

-----------------------------------------------------------------------------
(* Steps of the client *)

ServerStays == UNCHANGED serverVars
ClientStays == UNCHANGED clientVars

\* The connection breaks at the client's end, unless it is broken already.
ServerLosesClient == IF conn = "up" THEN S!ClientCloses(Conn) ELSE ServerStays

\* Client.send; what it writes arrives.
Send(c) ==
  \/ /\ \/ C!AcquireSending(c) \/ C!Register(c) \/ C!Reject(c) \/ C!Prepare(c)
        \/ C!Write(c) \/ C!Unregister(c) \/ C!Notify(c)
     /\ ServerStays
  \/ C!WriteHeader(c) /\ IF conn = "up" THEN S!SendRequest(c) ELSE ServerStays
  \/ C!WriteFails(c) /\ ServerLosesClient

\* The caller's other steps, those of the receive goroutine, and Close.
Caller(c) ==
  /\ link[Conn] # "none"
  /\ C!Invoke(c) \/ C!Return(c) \/ C!Cancel(c)
  /\ ServerStays

Receive == (C!Receive \/ C!Terminate) /\ ServerStays

Consume(ch) == C!Consume(ch) /\ ServerStays

Close ==
  /\ link[Conn] # "none"
  /\ C!Close
  /\ ServerLosesClient

\* The network fails.
NetworkFails == C!PeerClose /\ S!ClientCloses(Conn)

-----------------------------------------------------------------------------
(* Steps of the server *)

\* NewClient's net.Dial, and the server's accept loop and pool.
Connect == S!Dial(Conn) /\ ClientStays

Pool ==
  /\ S!Accept(Conn) \/ \E w \in Workers : S!Work(w)
  /\ ClientStays

\* What sendResponse writes goes to the client if the connection stands.
Responds(c, kinds) ==
  IF conn = "up" /\ answers'[c] # answers[c]
    THEN \E m \in requests, kind \in kinds : m.of[2] = c /\ C!Answer(m, kind)
    ELSE ClientStays

\* The client sees the server close the connection.
ClientLosesServer == IF conn = "up" /\ link'[Conn] = "closed" THEN C!PeerClose ELSE ClientStays

\* The body of a request is read after its Write.
Arrived(c) == pc[c] # "flush"

Read(c) ==
  \/ Arrived(c) /\ S!ReadRequest(Conn, c) /\ ClientStays
  \/ Arrived(c) /\ S!RefuseBody(Conn, c) /\ Responds(c, {"error"})
  \/ S!RefuseMethod(Conn, c) /\ Responds(c, {"error"})
  \/ S!AddRequest(Conn, c) /\ ClientStays

ServeConn ==
  \/ \E c \in Calls : Read(c)
  \/ S!ReadOption(Conn) /\ ClientStays
  \/ S!ReadUnreadBody(Conn) /\ ClientStays
  \/ S!ReadFails(Conn) /\ ClientStays
  \/ S!RefuseOption(Conn) /\ ClientLosesServer
  \/ S!FinishConn(Conn) /\ ClientLosesServer

ReadGarbled == S!ReadGarbled(Conn) /\ ClientStays

HandleRequest(c) ==
  \/ (S!Called(c) \/ S!Sent(c)) /\ ClientStays
  \/ S!HandlerTimeout(c) /\ Responds(c, {"error"})
  \/ S!Answer(c) /\ Responds(c, {"reply", "error"})
  \/ S!AnswerFails(c) /\ ClientLosesServer

MethodReturns(c) == S!MethodReturns(c) /\ ClientStays

-----------------------------------------------------------------------------
Init == C!Init /\ S!Init

\* The connection is over, and with it the calls.
Quiescent ==
  /\ rpc = "stopped"
  /\ \A c \in Calls : C!Finished(c)
  /\ UNCHANGED vars

Next ==
  \/ \E c \in Calls : Send(c) \/ Caller(c) \/ HandleRequest(c) \/ MethodReturns(c)
  \/ Receive
  \/ \E ch \in Chans : Consume(ch)
  \/ Close
  \/ NetworkFails
  \/ Connect \/ Pool \/ ServeConn \/ ReadGarbled
  \/ Quiescent

Spec == Init /\ [][Next]_vars

\* That of the two components, where steps never possible together share a
\* condition.
Fairness ==
  /\ \A c \in Calls : WF_vars(Send(c) \/ (C!Return(c) /\ ServerStays))
  /\ \A c \in Calls \ (BadMethod \cup BadBody) : WF_vars(HandleRequest(c))
  /\ WF_vars(Receive)
  /\ \A c \in Async : WF_vars(Consume(DoneChan[c]))
  /\ WF_vars((S!Accept(Conn) /\ ClientStays) \/ ServeConn)
  /\ WF_vars(\E w \in Workers : S!Work(w) /\ ClientStays)

FairSpec == Spec /\ Fairness

-----------------------------------------------------------------------------
(* Properties *)

\* Client.Call has returned, or Client.Go's call was delivered.
Ended(c) == IF c \in Async THEN ndone[c] > 0 ELSE pc[c] \in {"returned", "cancelled"}

Phase(c) == IF pc[c] = "idle" THEN "new" ELSE IF Ended(c) THEN "ended" ELSE "begun"

Run(c) ==
  IF gor[c] = "none" THEN "none" ELSE IF gor[c] = "calling" THEN "running" ELSE "returned"

\* Without an error the result must be that of the call's own method on its
\* own arguments.
Outcome(c) ==
  IF ~Ended(c) THEN "none"
  ELSE IF pc[c] = "cancelled" \/ error[c] # "nil" THEN "error"
  ELSE IF reply[c] = <<c, c>> THEN "own" ELSE "other"

R == INSTANCE RemoteCall WITH
  phase  <- [c \in Calls |-> Phase(c)],
  run    <- [c \in Calls |-> Run(c)],
  result <- [c \in Calls |-> Outcome(c)]

\* Client and server together implement the call: whatever is delayed, lost,
\* given up or timed out on either side, a method runs at most once, and a
\* call that ends without an error has the result its own method returned.
IsRemoteCall == R!Spec

\* A call whose request the server has read ends for its caller, whether the
\* method returns or not: handleRequest answers in its place, or the
\* connection breaks.
ReadCallsEnd == \A c \in Calls : rs[c] = "parsed" ~> Ended(c)
=============================================================================
