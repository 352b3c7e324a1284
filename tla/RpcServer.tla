----------------------------- MODULE RpcServer -----------------------------
(***************************************************************************)
(* rpcProject/server.go and rpcProject/pool.go: the server side of the RPC *)
(* connections.                                                            *)
(*                                                                         *)
(* One pool of goroutines runs two kinds of task: ServeConn, which reads   *)
(* the requests of one connection until it fails, and handleRequest, which *)
(* waits for one request's method (run by a goroutine of its own) or for a *)
(* timeout and sees to the response.  The accept loop and every ServeConn  *)
(* add tasks to the pool's queue and block when it is full.                *)
(*                                                                         *)
(* sendResponse (lock, Write, unlock) is one step: a Write is assumed not  *)
(* to block on a client that does not read.                                *)
(***************************************************************************)
EXTENDS Naturals, Sequences, FiniteSets

CONSTANTS
  Workers,   \* the goroutines of Gopool; the queue holds as many tasks
  Conns,     \* the connections clients make, one after another
  Reqs,      \* the requests sent on them
  ConnOf,    \* ConnOf[r] is the connection of request r
  BadOption, \* connections whose Option ServeConn refuses
  BadMethod, \* requests for a method that is not registered
  BadBody,   \* requests whose body does not fit the method's argument
  None       \* an idle goroutine of the pool; the accept loop in lis.Accept

PoolSize == Cardinality(Workers)
Tasks == Conns \cup Reqs

ASSUME ServerAssumption ==
  /\ IsFiniteSet(Workers)
  /\ IsFiniteSet(Reqs)
  /\ ConnOf \in [Reqs -> Conns]
  /\ Conns \cap Reqs = {}
  /\ None \notin Tasks
  /\ BadOption \subseteq Conns
  /\ BadMethod \subseteq Reqs
  /\ BadBody \subseteq Reqs \ BadMethod

VARIABLES
  link,      \* "none", "open" or "closed": the network connection
  inbox,     \* requests that have arrived and have not been read
  garbled,   \* the json decoder of ServeConn swallowed bytes of a request
  unread,    \* the body of a refused request is next in the stream
  cs,        \* where the server is with the connection
  acceptor,  \* the connection the accept loop is adding to the pool
  queue,     \* Gopool.TaskQueue
  worker,    \* the task each goroutine of the pool runs
  rs,        \* where the request is: on the wire, in serveCodec, in handleRequest
  gor,       \* where the goroutine is that calls the method
  wg,        \* the connection's WaitGroup
  answers    \* how often sendResponse was called for a request (history)

netVars == <<link, inbox, garbled, unread>>
poolVars == <<acceptor, queue, worker>>
reqVars == <<rs, gor, wg, answers>>
vars == <<netVars, cs, poolVars, reqVars>>

TypeOK ==
  /\ link \in [Conns -> {"none", "open", "closed"}]
  /\ inbox \in [Conns -> Seq(Reqs)]
  /\ garbled \in [Conns -> BOOLEAN]
  /\ unread \in [Conns -> BOOLEAN]
  /\ cs \in [Conns -> {"new", "backlog", "accepted", "queued", "options",
                       "serving", "adding", "draining", "closed"}]
  /\ acceptor \in Conns \cup {None}
  /\ queue \in Seq(Tasks)
  /\ worker \in [Workers -> Tasks \cup {None}]
  /\ rs \in [Reqs -> {"unsent", "sent", "swallowed", "rejected", "parsed",
                      "queued", "selecting", "awaitsent", "finished"}]
  /\ gor \in [Reqs -> {"none", "calling", "called", "answering", "sent", "exited"}]
  /\ wg \in [Conns -> Nat]
  /\ answers \in [Reqs -> Nat]

-----------------------------------------------------------------------------
(* Helpers *)

QueueHasRoom == Len(queue) < PoolSize

\* The goroutine of the pool that runs task t takes the next one.
Free(t) == worker' = [w \in Workers |-> IF worker[w] = t THEN None ELSE worker[w]]

\* sendResponse: lock sending, write header and body, unlock.
Respond(r) == answers' = [answers EXCEPT ![r] = @ + 1]

\* handleRequest returns: wg.Done() and the end of the task.
Return(r) ==
  /\ rs' = [rs EXCEPT ![r] = "finished"]
  /\ wg' = [wg EXCEPT ![ConnOf[r]] = @ - 1]
  /\ Free(r)

GotoConn(c, label) == cs' = [cs EXCEPT ![c] = label]
GotoReq(r, label) == rs' = [rs EXCEPT ![r] = label]
GotoGor(r, label) == gor' = [gor EXCEPT ![r] = label]

-----------------------------------------------------------------------------
(* The clients and the network *)

\* A client connects and sends its Option.
Dial(c) ==
  /\ link[c] = "none"
  /\ link' = [link EXCEPT ![c] = "open"]
  /\ GotoConn(c, "backlog")
  /\ UNCHANGED <<inbox, garbled, unread, poolVars, reqVars>>

\* It sends requests without waiting for the server.
SendRequest(r) ==
  /\ rs[r] = "unsent"
  /\ link[ConnOf[r]] = "open"
  /\ inbox' = [inbox EXCEPT ![ConnOf[r]] = Append(@, r)]
  /\ GotoReq(r, "sent")
  /\ UNCHANGED <<link, garbled, unread, cs, poolVars, gor, wg, answers>>

\* The client closes the connection, or the network fails.
ClientCloses(c) ==
  /\ link[c] = "open"
  /\ link' = [link EXCEPT ![c] = "closed"]
  /\ UNCHANGED <<inbox, garbled, unread, cs, poolVars, reqVars>>

-----------------------------------------------------------------------------
(* Server.Accept and the pool *)

\* conn, err := lis.Accept()
AcceptConn(c) ==
  /\ acceptor = None
  /\ cs[c] = "backlog"
  /\ acceptor' = c
  /\ GotoConn(c, "accepted")
  /\ UNCHANGED <<netVars, queue, worker, reqVars>>

\* Gopool.AddTask(ServeConn), which blocks on a full queue.
AddConn(c) ==
  /\ acceptor = c
  /\ QueueHasRoom
  /\ queue' = Append(queue, c)
  /\ acceptor' = None
  /\ GotoConn(c, "queued")
  /\ UNCHANGED <<netVars, worker, reqVars>>

\* A goroutine of the pool begins ServeConn ...
TakeConn(w) ==
  /\ worker[w] = None
  /\ queue # <<>>
  /\ Head(queue) \in Conns
  /\ worker' = [worker EXCEPT ![w] = Head(queue)]
  /\ queue' = Tail(queue)
  /\ GotoConn(Head(queue), "options")
  /\ UNCHANGED <<netVars, acceptor, reqVars>>

\* ... or handleRequest, which starts the goroutine that calls the method.
TakeRequest(w) ==
  /\ worker[w] = None
  /\ queue # <<>>
  /\ Head(queue) \in Reqs
  /\ worker' = [worker EXCEPT ![w] = Head(queue)]
  /\ queue' = Tail(queue)
  /\ GotoReq(Head(queue), "selecting")
  /\ GotoGor(Head(queue), "calling")
  /\ UNCHANGED <<netVars, cs, acceptor, wg, answers>>

-----------------------------------------------------------------------------
(* ServeConn, serveCodec and readRequest *)

\* The Option is missing, cannot be decoded, or names another protocol or codec.
RefuseOption(c) ==
  /\ cs[c] = "options"
  /\ c \in BadOption \/ link[c] = "closed"
  /\ link' = [link EXCEPT ![c] = "closed"]
  /\ GotoConn(c, "closed")
  /\ Free(c)
  /\ UNCHANGED <<inbox, garbled, unread, acceptor, queue, reqVars>>

\* The Option is fine.  The json decoder reads whatever has arrived behind it
\* as well, and drops it: the codec starts in the middle of the gob stream.
ReadOption(c) ==
  /\ cs[c] = "options"
  /\ c \notin BadOption
  /\ \E k \in 0 .. Len(inbox[c]) :
       /\ inbox' = [inbox EXCEPT ![c] = SubSeq(@, k + 1, Len(@))]
       /\ garbled' = [garbled EXCEPT ![c] = k > 0]
       /\ rs' = [r \in Reqs |-> IF \E i \in 1 .. k : inbox[c][i] = r
                                THEN "swallowed" ELSE rs[r]]
  /\ GotoConn(c, "serving")
  /\ UNCHANGED <<link, unread, poolVars, gor, wg, answers>>

\* readRequest is about to read a header, and the stream is in order.
NextRequest(c, r) ==
  /\ cs[c] = "serving"
  /\ ~garbled[c]
  /\ ~unread[c]
  /\ inbox[c] # <<>>
  /\ r = Head(inbox[c])
  /\ inbox' = [inbox EXCEPT ![c] = Tail(@)]

\* readRequest succeeds: wg.Add(1).
ReadRequest(c, r) ==
  /\ NextRequest(c, r)
  /\ r \notin BadMethod \cup BadBody
  /\ wg' = [wg EXCEPT ![c] = @ + 1]
  /\ GotoReq(r, "parsed")
  /\ GotoConn(c, "adding")
  /\ UNCHANGED <<link, garbled, unread, poolVars, gor, answers>>

\* findService fails: the error is sent back and the body stays in the stream.
RefuseMethod(c, r) ==
  /\ NextRequest(c, r)
  /\ r \in BadMethod
  /\ unread' = [unread EXCEPT ![c] = TRUE]
  /\ Respond(r)
  /\ GotoReq(r, "rejected")
  /\ UNCHANGED <<link, garbled, cs, poolVars, gor, wg>>

\* ReadBody fails: the error is sent back.
RefuseBody(c, r) ==
  /\ NextRequest(c, r)
  /\ r \in BadBody
  /\ Respond(r)
  /\ GotoReq(r, "rejected")
  /\ UNCHANGED <<link, garbled, unread, cs, poolVars, gor, wg>>

\* Gopool.AddTask(handleRequest), which blocks on a full queue.
AddRequest(c, r) ==
  /\ cs[c] = "adding"
  /\ ConnOf[r] = c
  /\ rs[r] = "parsed"
  /\ QueueHasRoom
  /\ queue' = Append(queue, r)
  /\ GotoReq(r, "queued")
  /\ GotoConn(c, "serving")
  /\ UNCHANGED <<netVars, acceptor, worker, gor, wg, answers>>

\* The unread body is decoded as a header.  In most cases that fails; a struct
\* with fields of the same names passes for one without a service name, which
\* findService refuses, and a stray error is sent.
ReadUnreadBody(c) ==
  /\ cs[c] = "serving"
  /\ unread[c]
  /\ UNCHANGED <<link, inbox, garbled, poolVars, reqVars>>
  /\ \/ unread' = [unread EXCEPT ![c] = FALSE] /\ UNCHANGED cs
     \/ UNCHANGED unread /\ GotoConn(c, "draining")

\* The header of the next request is read from the middle of the stream.
ReadGarbled(c) ==
  /\ cs[c] = "serving"
  /\ garbled[c]
  /\ inbox[c] # <<>>
  /\ GotoConn(c, "draining")
  /\ UNCHANGED <<netVars, poolVars, reqVars>>

\* Injected bug: serveCodec goes on after a header it could not read.
ReadFailsContinues(c) ==
  /\ cs[c] = "serving"
  /\ link[c] = "closed"
  /\ UNCHANGED vars

\* The connection has been closed by the client or by the codec.
ReadFails(c) ==
  /\ cs[c] = "serving"
  /\ link[c] = "closed"
  /\ GotoConn(c, "draining")
  /\ UNCHANGED <<netVars, poolVars, reqVars>>

\* Injected bug: serveCodec closes the connection at once.
FinishConnAtOnce(c) ==
  /\ cs[c] = "draining"
  /\ link' = [link EXCEPT ![c] = "closed"]
  /\ GotoConn(c, "closed")
  /\ Free(c)
  /\ UNCHANGED <<inbox, garbled, unread, acceptor, queue, reqVars>>

\* wg.Wait(), cc.Close()
FinishConn(c) ==
  /\ cs[c] = "draining"
  /\ wg[c] = 0
  /\ link' = [link EXCEPT ![c] = "closed"]
  /\ GotoConn(c, "closed")
  /\ Free(c)
  /\ UNCHANGED <<inbox, garbled, unread, acceptor, queue, reqVars>>

-----------------------------------------------------------------------------
(* handleRequest and the goroutine that calls the method *)

\* Injected bug: called has a buffer of one, so the goroutine never waits for
\* handleRequest.
MethodReturnsBuffered(r) ==
  /\ gor[r] = "calling"
  /\ GotoGor(r, "answering")
  /\ UNCHANGED <<netVars, cs, poolVars, rs, wg, answers>>

\* req.svc.call returns; the goroutine blocks in called <- struct{}{}.
MethodReturns(r) ==
  /\ gor[r] = "calling"
  /\ GotoGor(r, "called")
  /\ UNCHANGED <<netVars, cs, poolVars, rs, wg, answers>>

\* Injected bug: handleRequest does not wait for the response to be sent.
CalledWithoutSent(r) ==
  /\ rs[r] = "selecting"
  /\ gor[r] = "called"
  /\ GotoGor(r, "answering")
  /\ Return(r)
  /\ UNCHANGED <<netVars, cs, acceptor, queue, answers>>

\* case <-called: handleRequest goes on to wait in <-sent.
Called(r) ==
  /\ rs[r] = "selecting"
  /\ gor[r] = "called"
  /\ GotoReq(r, "awaitsent")
  /\ GotoGor(r, "answering")
  /\ UNCHANGED <<netVars, cs, poolVars, wg, answers>>

\* Injected bug: the timeout is not reported to the client.
HandlerTimeoutSilent(r) ==
  /\ rs[r] = "selecting"
  /\ Return(r)
  /\ UNCHANGED <<netVars, cs, acceptor, queue, gor, answers>>

\* case <-time.After(timeout): an error is sent and handleRequest returns; the
\* goroutine is left behind and blocks for ever in called <- struct{}{}.
HandlerTimeout(r) ==
  /\ rs[r] = "selecting"
  /\ Respond(r)
  /\ Return(r)
  /\ UNCHANGED <<netVars, cs, acceptor, queue, gor>>

\* The goroutine sends the result or the method's error.
Answer(r) ==
  /\ gor[r] = "answering"
  /\ Respond(r)
  /\ GotoGor(r, "sent")
  /\ UNCHANGED <<netVars, cs, poolVars, rs, wg>>

\* The result cannot be encoded: the codec closes the connection.
AnswerFails(r) ==
  /\ gor[r] = "answering"
  /\ link' = [link EXCEPT ![ConnOf[r]] = "closed"]
  /\ GotoGor(r, "sent")
  /\ UNCHANGED <<inbox, garbled, unread, cs, poolVars, rs, wg, answers>>

\* sent <- struct{}{} meets <-sent; both goroutines end.
Sent(r) ==
  /\ rs[r] = "awaitsent"
  /\ gor[r] = "sent"
  /\ GotoGor(r, "exited")
  /\ Return(r)
  /\ UNCHANGED <<netVars, cs, acceptor, queue, answers>>

-----------------------------------------------------------------------------
Init ==
  /\ link = [c \in Conns |-> "none"]
  /\ inbox = [c \in Conns |-> <<>>]
  /\ garbled = [c \in Conns |-> FALSE]
  /\ unread = [c \in Conns |-> FALSE]
  /\ cs = [c \in Conns |-> "new"]
  /\ acceptor = None
  /\ queue = <<>>
  /\ worker = [w \in Workers |-> None]
  /\ rs = [r \in Reqs |-> "unsent"]
  /\ gor = [r \in Reqs |-> "none"]
  /\ wg = [c \in Conns |-> 0]
  /\ answers = [r \in Reqs |-> 0]

Client ==
  \/ \E c \in Conns : Dial(c) \/ ClientCloses(c)
  \/ \E r \in Reqs : SendRequest(r)

Accept(c) == AcceptConn(c) \/ AddConn(c)

Work(w) == TakeConn(w) \/ TakeRequest(w)

Read(c) ==
  \E r \in Reqs :
    \/ ReadRequest(c, r) \/ RefuseMethod(c, r) \/ RefuseBody(c, r)
    \/ AddRequest(c, r)

ServeConn(c) ==
  \/ RefuseOption(c) \/ ReadOption(c) \/ Read(c)
  \/ ReadUnreadBody(c) \/ ReadFails(c) \/ FinishConn(c)

HandleRequest(r) ==
  Called(r) \/ HandlerTimeout(r) \/ Answer(r) \/ AnswerFails(r) \/ Sent(r)

\* Every connection is over.
Quiescent ==
  /\ \A c \in Conns : cs[c] = "closed"
  /\ UNCHANGED vars

Next ==
  \/ Client
  \/ \E c \in Conns : Accept(c) \/ ServeConn(c) \/ ReadGarbled(c)
  \/ \E w \in Workers : Work(w)
  \/ \E r \in Reqs : MethodReturns(r) \/ HandleRequest(r)
  \/ Quiescent

Spec == Init /\ [][Next]_vars

\* The server's goroutines run and timers fire.  Methods need not return,
\* clients need not close, and a reader in the middle of a stream may wait for
\* bytes that never come.
Fairness ==
  /\ WF_vars(\E c \in Conns : Accept(c))
  /\ \A w \in Workers : WF_vars(Work(w))
  /\ \A c \in Conns : WF_vars(ServeConn(c))
  /\ \A r \in Reqs : WF_vars(HandleRequest(r))

FairSpec == Spec /\ Fairness

-----------------------------------------------------------------------------
(* Properties *)

\* The requests handleRequest has been given and has not finished.
InFlight(c) ==
  {r \in Reqs : ConnOf[r] = c /\ rs[r] \in {"parsed", "queued", "selecting", "awaitsent"}}

\* A request is answered at most once, although the timeout and the goroutine
\* that calls the method race to do it.
AnsweredAtMostOnce == \A r \in Reqs : answers[r] <= 1

\* handleRequest never returns without a response having been sent, unless the
\* connection is gone.
FinishedIsAnswered ==
  \A r \in Reqs : rs[r] = "finished" => answers[r] = 1 \/ link[ConnOf[r]] = "closed"

\* serveCodec closes the connection only when no request of it is being handled.
ClosedIsDrained == \A c \in Conns : cs[c] = "closed" => InFlight(c) = {}

\* No response is written to a connection that serveCodec has closed, not even
\* by a goroutine whose method returned long after the timeout.
NoAnswerAfterClose ==
  [][\A r \in Reqs : cs[ConnOf[r]] = "closed" => answers'[r] = answers[r]]_vars

\* A goroutine of the pool runs every task that was taken from the queue, and
\* each task by one goroutine only: none is lost or doubled when ServeConn and
\* handleRequest share the pool.
TasksAccounted ==
  /\ \A v, w \in Workers : worker[v] = worker[w] /\ worker[v] # None => v = w
  /\ \A c \in Conns :
       (\E w \in Workers : worker[w] = c)
         <=> cs[c] \in {"options", "serving", "adding", "draining"}
  /\ \A r \in Reqs :
       (\E w \in Workers : worker[w] = r) <=> rs[r] \in {"selecting", "awaitsent"}

\* A request that has been read is answered or its connection is gone.
RequestsHandled ==
  \A r \in Reqs : rs[r] = "parsed" ~> (answers[r] = 1 \/ link[ConnOf[r]] = "closed")

\* A connection its client has left is released.
ConnectionsReleased ==
  \A c \in Conns : link[c] = "closed" ~> cs[c] = "closed"
=============================================================================
