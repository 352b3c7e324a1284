----------------------------- MODULE RpcProofs -----------------------------
(***************************************************************************)
(* Client and server, composed, implement RemoteCall, for any calls, pool  *)
(* and channel capacities.                                                 *)
(***************************************************************************)
EXTENDS Rpc, TLAPS

\* The proofs about the components, read with the variables of the whole.
CP == INSTANCE RpcClientProofs

SP == INSTANCE RpcServerProofs WITH
  Conns <- {Conn}, Reqs <- Calls, ConnOf <- [c \in Calls |-> Conn], BadOption <- {}

-----------------------------------------------------------------------------
(* The components in the whole *)

\* What RpcServer assumes of its constants; RpcAssumption holds what RpcClient
\* assumes.
LEMMA ServerAssumed ==
  /\ SP!IsFiniteSet(Workers) /\ SP!IsFiniteSet(Calls)
  /\ [c \in Calls |-> Conn] \in [Calls -> {Conn}]
  /\ {Conn} \cap Calls = {}
  /\ None \notin SP!Tasks
  /\ {} \subseteq {Conn}
  /\ BadMethod \subseteq Calls
  /\ BadBody \subseteq Calls \ BadMethod
BY RpcAssumption DEF SP!Tasks, IsFiniteSet, SP!IsFiniteSet

\* A step of the whole is a step of the client or leaves it alone.
LEMMA StepIsClient ==
  ASSUME [Next]_vars
  PROVE  C!Next \/ UNCHANGED clientVars
<1> USE DEF ClientStays, Responds, ClientLosesServer, C!Next, C!Peer
<1>1. ASSUME NEW c \in Calls, Send(c) PROVE C!Next
  BY <1>1 DEF Send, C!Send
<1>2. ASSUME NEW c \in Calls, Caller(c) PROVE C!Next
  BY <1>2 DEF Caller
<1>3. ASSUME NEW c \in Calls, HandleRequest(c) PROVE C!Next \/ UNCHANGED clientVars
  BY <1>3 DEF HandleRequest, C!Kinds
<1>4. ASSUME NEW c \in Calls, MethodReturns(c) PROVE UNCHANGED clientVars
  BY <1>4 DEF MethodReturns
<1>5. CASE Receive
  BY <1>5 DEF Receive
<1>6. ASSUME NEW ch \in Chans, Consume(ch) PROVE C!Next
  BY <1>6 DEF Consume
<1>7. CASE Close \/ NetworkFails
  BY <1>7 DEF Close, NetworkFails
<1>8. CASE Connect \/ Pool \/ ReadGarbled
  BY <1>8 DEF Connect, Pool, ReadGarbled
<1>9. CASE ServeConn
  BY <1>9 DEF ServeConn, Read, C!Kinds
<1>10. CASE Quiescent \/ UNCHANGED vars
  BY <1>10 DEF Quiescent, vars
<1>11. QED
  BY <1>1, <1>2, <1>3, <1>4, <1>5, <1>6, <1>7, <1>8, <1>9, <1>10 DEF Next

\* A step of the whole is a step of the server or leaves it alone.
LEMMA StepIsServer ==
  ASSUME [Next]_vars
  PROVE  S!Next \/ UNCHANGED serverVars
<1> USE DEF ServerStays, ServerLosesClient, S!Next, S!Client
<1>1. ASSUME NEW c \in Calls, Send(c) PROVE S!Next \/ UNCHANGED serverVars
  BY <1>1 DEF Send
<1>2. ASSUME NEW c \in Calls, Caller(c) PROVE UNCHANGED serverVars
  BY <1>2 DEF Caller
<1>3. ASSUME NEW c \in Calls, HandleRequest(c) PROVE S!Next
  BY <1>3 DEF HandleRequest, S!HandleRequest
<1>4. ASSUME NEW c \in Calls, MethodReturns(c) PROVE S!Next
  BY <1>4 DEF MethodReturns
<1>5. CASE Receive
  BY <1>5 DEF Receive
<1>6. ASSUME NEW ch \in Chans, Consume(ch) PROVE UNCHANGED serverVars
  BY <1>6 DEF Consume
<1>7. CASE Close \/ NetworkFails
  BY <1>7 DEF Close, NetworkFails
<1>8. CASE Connect \/ Pool \/ ReadGarbled
  BY <1>8 DEF Connect, Pool, ReadGarbled
<1>9. CASE ServeConn
  BY <1>9 DEF ServeConn, Read, S!ServeConn, S!Read
<1>10. CASE Quiescent \/ UNCHANGED vars
  BY <1>10 DEF Quiescent, vars
<1>11. QED
  BY <1>1, <1>2, <1>3, <1>4, <1>5, <1>6, <1>7, <1>8, <1>9, <1>10 DEF Next

\* The modules of the proofs read the components as Rpc does.
LEMMA SameClient ==
  /\ C!Init => CP!Init
  /\ C!Next => CP!Next
  /\ UNCHANGED clientVars => UNCHANGED CP!vars
<1>1. C!Init => CP!Init
  BY Zenon DEF C!Init, CP!Init, C!NoHeader, CP!NoHeader, C!FirstSeq, CP!FirstSeq
<1>2. C!Next => CP!Next
  BY Zenon DEF
  C!Invoke, C!AcquireSending, C!Register, C!Reject, C!Prepare, C!WriteHeader, C!Write,
  C!WriteFails, C!Unregister, C!Notify, C!Return, C!Cancel, C!ReadHeader,
  C!ReadHeaderFails, C!TakeCall, C!DiscardBody, C!ReadError, C!ReadReply,
  C!ReadReplyFails, C!Deliver, C!TerminateLockSending, C!TerminateShutdown,
  C!TerminateCall, C!TerminateReturn, C!Close, C!Consume, C!Answer, C!PeerClose,
  C!Send, C!Receive, C!Terminate, C!Peer, C!Finished, C!Quiescent, C!Next, C!Goto,
  C!MuFree, C!Unavailable, C!With, C!Without, C!Lookup, C!RemoveCall, C!AfterSend,
  C!HasRoom, C!Done, C!callVars, C!clientVars, C!netVars, C!recvVars, C!vars, C!Kinds,
  C!NoHeader, C!FirstSeq, CP!Invoke, CP!AcquireSending, CP!Register, CP!Reject,
  CP!Prepare, CP!WriteHeader, CP!Write, CP!WriteFails, CP!Unregister, CP!Notify,
  CP!Return, CP!Cancel, CP!ReadHeader, CP!ReadHeaderFails, CP!TakeCall, CP!DiscardBody,
  CP!ReadError, CP!ReadReply, CP!ReadReplyFails, CP!Deliver, CP!TerminateLockSending,
  CP!TerminateShutdown, CP!TerminateCall, CP!TerminateReturn, CP!Close, CP!Consume,
  CP!Answer, CP!PeerClose, CP!Send, CP!Receive, CP!Terminate, CP!Peer, CP!Finished,
  CP!Quiescent, CP!Next, CP!Goto, CP!MuFree, CP!Unavailable, CP!With, CP!Without,
  CP!Lookup, CP!RemoveCall, CP!AfterSend, CP!HasRoom, CP!Done, CP!callVars,
  CP!clientVars, CP!netVars, CP!recvVars, CP!vars, CP!Kinds, CP!NoHeader, CP!FirstSeq
<1>3. UNCHANGED clientVars => UNCHANGED CP!vars
  BY DEF clientVars, CP!vars, CP!callVars, CP!clientVars, CP!netVars, CP!recvVars
<1>4. QED
  BY <1>1, <1>2, <1>3

\* The same of the server.
LEMMA SameServer ==
  /\ S!Init => SP!Init
  /\ S!Next => SP!Next
  /\ UNCHANGED serverVars => UNCHANGED SP!vars
<1>1. S!Init => SP!Init
  BY Zenon DEF S!Init, SP!Init
<1>2. S!Next => SP!Next
  BY Zenon DEF Cardinality, S!Cardinality, SP!Cardinality,
  S!Dial, S!SendRequest, S!ClientCloses, S!AcceptConn, S!AddConn, S!TakeConn,
  S!TakeRequest, S!RefuseOption, S!ReadOption, S!NextRequest, S!ReadRequest,
  S!RefuseMethod, S!RefuseBody, S!AddRequest, S!ReadUnreadBody, S!ReadGarbled,
  S!ReadFails, S!FinishConn, S!MethodReturns, S!Called, S!HandlerTimeout, S!Answer,
  S!AnswerFails, S!Sent, S!Client, S!Accept, S!Work, S!Read, S!ServeConn,
  S!HandleRequest, S!Quiescent, S!Next, S!QueueHasRoom, S!PoolSize, S!Free, S!Respond,
  S!Return, S!GotoConn, S!GotoReq, S!GotoGor, S!netVars, S!poolVars, S!reqVars, S!vars,
  SP!Dial, SP!SendRequest, SP!ClientCloses, SP!AcceptConn, SP!AddConn, SP!TakeConn,
  SP!TakeRequest, SP!RefuseOption, SP!ReadOption, SP!NextRequest, SP!ReadRequest,
  SP!RefuseMethod, SP!RefuseBody, SP!AddRequest, SP!ReadUnreadBody, SP!ReadGarbled,
  SP!ReadFails, SP!FinishConn, SP!MethodReturns, SP!Called, SP!HandlerTimeout,
  SP!Answer, SP!AnswerFails, SP!Sent, SP!Client, SP!Accept, SP!Work, SP!Read,
  SP!ServeConn, SP!HandleRequest, SP!Quiescent, SP!Next, SP!QueueHasRoom, SP!PoolSize,
  SP!Free, SP!Respond, SP!Return, SP!GotoConn, SP!GotoReq, SP!GotoGor, SP!netVars,
  SP!poolVars, SP!reqVars, SP!vars
<1>3. UNCHANGED serverVars => UNCHANGED SP!vars
  BY DEF serverVars, SP!vars, SP!netVars, SP!poolVars, SP!reqVars
<1>4. QED
  BY <1>1, <1>2, <1>3

\* The client of the whole behaves as RpcClient says: what is shown of it there
\* for any peer holds here for the server.
THEOREM ClientImplemented == Spec => CP!Spec
<1>1. Init => CP!Init
  BY SameClient DEF Init
<1>2. [Next]_vars => [CP!Next]_CP!vars
  BY StepIsClient, SameClient
<1>3. QED
  BY <1>1, <1>2, PTL DEF Spec, CP!Spec

\* The server of the whole behaves as RpcServer says of any clients.
THEOREM ServerImplemented == Spec => SP!Spec
<1>1. Init => SP!Init
  BY SameServer DEF Init
<1>2. [Next]_vars => [SP!Next]_SP!vars
  BY StepIsServer, SameServer
<1>3. QED
  BY <1>1, <1>2, PTL DEF Spec, SP!Spec

\* So the inductive invariants of both hold.
LEMMA ComponentsInvariant == Spec => []CP!IInv /\ []SP!IInv
<1>1. CP!Spec => []CP!IInv
  BY CP!Invariance, RpcAssumption DEF CP!Sync
<1>2. SP!Spec => []SP!IInv
  BY SP!Invariance, ServerAssumed
<1>3. QED
  BY <1>1, <1>2, ClientImplemented, ServerImplemented, PTL

-----------------------------------------------------------------------------
(* What relates the two components *)

\* A request has been written before the server has it.
Unwritten == {"idle", "acquire", "register", "prepare", "write"}
SentInv == \A c \in Calls : rs[c] # "unsent" => pc[c] \notin Unwritten

\* The method has returned; every result on its way to a caller, or with it,
\* is that of such a method.
Back(c) == gor[c] \notin {"none", "calling"}
InboundInv == \A i \in DOMAIN inbound : inbound[i].kind = "reply" => Back(inbound[i].of[2])
HdrInv == rpc \in {"lookup", "body"} /\ hdr.kind = "reply" => Back(hdr.of[2])
ReplyInv == \A c \in Calls : reply[c] # None => Back(reply[c][2])

\* Client.Call returns, unless it gives up, with a call that was delivered.
ReturnedInv == \A c \in Calls \ Async : pc[c] = "returned" => ndone[c] > 0

Joint == SentInv /\ InboundInv /\ HdrInv /\ ReplyInv /\ ReturnedInv

Inv == CP!IInv /\ SP!IInv /\ Joint

\* A request the pool takes has waited for it.
LEMMA HeadWaits ==
  ASSUME SP!IInv, queue # <<>>, Head(queue) \in Calls
  PROVE  rs[Head(queue)] = "queued"
<1>1. Head(queue) = queue[1] /\ 1 \in 1 .. Len(queue)
  BY DEF SP!IInv, SP!TypeOK
<1>2. Head(queue) # Conn
  BY RpcAssumption
<1>3. QED
  BY <1>1, <1>2 DEF SP!IInv, SP!QueueInv, SP!Waits

\* A method that has returned stays so.
LEMMA BackStays ==
  ASSUME SP!IInv, S!Next \/ UNCHANGED serverVars
  PROVE  \A c \in Calls : Back(c) => gor'[c] \notin {"none", "calling"}
<1> SUFFICES ASSUME NEW c \in Calls, Back(c)
             PROVE  gor'[c] \notin {"none", "calling"}
  OBVIOUS
<1> USE DEF SP!IInv, SP!TypeOK, Back
<1>1. ASSUME NEW w \in Workers, S!TakeRequest(w) PROVE gor'[c] \notin {"none", "calling"}
  <2>1. gor[Head(queue)] = "none"
    BY <1>1, HeadWaits DEF S!TakeRequest, SP!RequestInv, SP!Waiting
  <2>2. QED
    BY <1>1, <2>1 DEF S!TakeRequest, S!GotoGor
<1>2. ASSUME NEW r \in Calls, S!HandleRequest(r) \/ S!MethodReturns(r)
      PROVE  gor'[c] \notin {"none", "calling"}
  BY <1>2 DEF S!HandleRequest, S!MethodReturns, S!Called, S!HandlerTimeout, S!Answer,
     S!AnswerFails, S!Sent, S!GotoGor
<1>3. CASE gor' = gor
  BY <1>3
<1>4. QED
  BY <1>1, <1>2, <1>3 DEF S!Next, S!Client, S!Dial, S!ClientCloses, S!SendRequest, S!Accept,
     S!AcceptConn, S!AddConn, S!Work, S!TakeConn, S!ServeConn, S!RefuseOption,
     S!ReadOption, S!Read, S!ReadRequest, S!RefuseMethod, S!RefuseBody, S!AddRequest,
     S!ReadUnreadBody, S!ReadGarbled, S!ReadFails, S!FinishConn, S!Quiescent,
     S!netVars, S!poolVars, S!reqVars, S!vars, serverVars

\* The steps of the server, and those of its client that send no request.
ServerOther ==
  \/ S!Dial(Conn) \/ S!ClientCloses(Conn)
  \/ S!Accept(Conn) \/ S!ServeConn(Conn) \/ S!ReadGarbled(Conn)
  \/ \E w \in Workers : S!Work(w)
  \/ \E r \in Calls : S!MethodReturns(r) \/ S!HandleRequest(r)
  \/ UNCHANGED serverVars

\* A request is sent when it is written, and at no other time.
LEMMA SentOnlyWritten ==
  ASSUME SP!IInv, ServerOther
  PROVE  \A r \in Calls : rs'[r] # "unsent" => rs[r] # "unsent"
<1> USE DEF SP!IInv, SP!TypeOK
<1>1. ASSUME NEW w \in Workers, S!TakeRequest(w)
      PROVE  \A r \in Calls : rs'[r] # "unsent" => rs[r] # "unsent"
  <2>1. rs[Head(queue)] = "queued"
    BY <1>1, HeadWaits DEF S!TakeRequest
  <2>2. QED
    BY <1>1, <2>1 DEF S!TakeRequest, S!GotoReq
<1>2. ASSUME NEW r \in Calls, S!HandleRequest(r) \/ S!MethodReturns(r)
      PROVE  \A q \in Calls : rs'[q] # "unsent" => rs[q] # "unsent"
  BY <1>2 DEF S!HandleRequest, S!MethodReturns, S!Called, S!HandlerTimeout, S!Answer,
     S!AnswerFails, S!Sent, S!GotoReq, S!Return, SP!RequestInv
<1>3. CASE S!ReadOption(Conn)
  <2> SUFFICES ASSUME NEW r \in Calls, rs[r] = "unsent"
               PROVE  rs'[r] = "unsent"
    BY <1>3
  <2>1. \A i \in 1 .. Len(inbox[Conn]) : inbox[Conn][i] # r
    BY DEF SP!StreamInv
  <2>2. \A k \in 0 .. Len(inbox[Conn]) : \A i \in 1 .. k : inbox[Conn][i] # r
    BY <2>1 DEF SP!IInv, SP!TypeOK
  <2>3. QED
    BY <1>3, <2>2 DEF S!ReadOption
<1>4. ASSUME NEW r \in Calls, S!ReadRequest(Conn, r) \/ S!RefuseMethod(Conn, r) \/ S!RefuseBody(Conn, r)
      PROVE  \A q \in Calls : rs'[q] # "unsent" => rs[q] # "unsent"
  <2>1. rs[r] = "sent"
    BY <1>4 DEF S!ReadRequest, S!RefuseMethod, S!RefuseBody, S!NextRequest, SP!StreamInv
  <2>2. QED
    BY <1>4, <2>1 DEF S!ReadRequest, S!RefuseMethod, S!RefuseBody, S!GotoReq
<1>5. ASSUME NEW r \in Calls, S!AddRequest(Conn, r)
      PROVE  \A q \in Calls : rs'[q] # "unsent" => rs[q] # "unsent"
  BY <1>5 DEF S!AddRequest, S!GotoReq
<1>6. CASE rs' = rs
  BY <1>6
<1>7. QED
  BY <1>1, <1>2, <1>3, <1>4, <1>5, <1>6 DEF ServerOther, S!Dial, S!ClientCloses, S!Accept,
     S!AcceptConn, S!AddConn, S!Work, S!TakeConn, S!ServeConn, S!RefuseOption,
     S!Read, S!ReadUnreadBody, S!ReadGarbled, S!ReadFails, S!FinishConn,
     S!netVars, S!poolVars, S!reqVars, serverVars

\* How a step of the client, other than the arrival of a response, moves what
\* Joint speaks of.
Moves ==
  /\ \A c \in Calls : pc'[c] \in Unwritten => pc[c] \in Unwritten
  /\ \A k \in DOMAIN inbound' : \E j \in DOMAIN inbound : inbound'[k] = inbound[j]
  /\ rpc' \in {"lookup", "body"} =>
       \/ rpc \in {"lookup", "body"} /\ hdr' = hdr
       \/ \E j \in DOMAIN inbound : hdr' = inbound[j]
  /\ \A c \in Calls : \/ reply'[c] = reply[c]
                      \/ rpc = "body" /\ hdr.kind = "reply" /\ reply'[c] = hdr.of
  /\ \A c \in Calls \ Async : pc'[c] = "returned" => pc[c] = "returned" \/ ndone[c] > 0
  /\ \A c \in Calls : ndone[c] > 0 => ndone'[c] > 0

\* Those steps.
ClientOther ==
  \/ \E c \in Calls : C!Invoke(c) \/ C!Send(c) \/ C!Return(c) \/ C!Cancel(c)
  \/ C!Receive \/ C!Terminate
  \/ C!Close \/ C!PeerClose
  \/ \E ch \in Chans : C!Consume(ch)
  \/ UNCHANGED clientVars

\* A step of the client, other than the arrival of a response, moves them so.
LEMMA ClientMoves ==
  ASSUME CP!IInv, ClientOther
  PROVE  Moves
<1> USE RpcAssumption DEF CP!IInv, CP!TypeOK, CP!CallTypes, CP!NetTypes, CP!RecvTypes, Moves,
      Unwritten, C!callVars, C!clientVars, C!netVars, C!recvVars
<1>1. ASSUME NEW c \in Calls, C!Invoke(c) PROVE Moves
  BY <1>1 DEF C!Invoke, C!Goto
<1>2. ASSUME NEW c \in Calls, C!AcquireSending(c) PROVE Moves
  BY <1>2 DEF C!AcquireSending, C!Goto
<1>3. ASSUME NEW c \in Calls, C!Register(c) PROVE Moves
  BY <1>3 DEF C!Register, C!Goto
<1>4. ASSUME NEW c \in Calls, C!Reject(c) PROVE Moves
  BY <1>4 DEF C!Reject, C!Goto
<1>5. ASSUME NEW c \in Calls, C!Prepare(c) PROVE Moves
  BY <1>5 DEF C!Prepare, C!Goto
<1>6. ASSUME NEW c \in Calls, C!WriteHeader(c) PROVE Moves
  BY <1>6 DEF C!WriteHeader, C!Goto
<1>7. ASSUME NEW c \in Calls, C!Write(c) PROVE Moves
  BY <1>7 DEF C!Write, C!Goto, C!AfterSend
<1>8. ASSUME NEW c \in Calls, C!WriteFails(c) PROVE Moves
  BY <1>8 DEF C!WriteFails, C!Goto
<1>9. ASSUME NEW c \in Calls, C!Unregister(c) PROVE Moves
  BY <1>9 DEF C!Unregister, C!Goto, C!AfterSend
<1>10. ASSUME NEW c \in Calls, C!Notify(c) PROVE Moves
  BY <1>10 DEF C!Notify, C!Goto, C!AfterSend, C!Done
<1>11. ASSUME NEW c \in Calls, C!Return(c) PROVE Moves
  <2>1. c \notin Async => ndone[c] > 0
    BY <1>11 DEF C!Return, CP!ChanInv, CP!Sync
  <2>2. QED
    BY <1>11, <2>1 DEF C!Return, C!Goto
<1>12. ASSUME NEW c \in Calls, C!Cancel(c) PROVE Moves
  BY <1>12 DEF C!Cancel, C!Goto
<1>13. CASE C!ReadHeader
  <2>1. hdr' = inbound[1] /\ 1 \in DOMAIN inbound
    BY <1>13 DEF C!ReadHeader
  <2>2. \A k \in DOMAIN inbound' : k + 1 \in DOMAIN inbound /\ inbound'[k] = inbound[k + 1]
    BY <1>13 DEF C!ReadHeader
  <2>3. QED
    BY <1>13, <2>1, <2>2 DEF C!ReadHeader
<1>14. CASE C!ReadHeaderFails
  BY <1>14 DEF C!ReadHeaderFails
<1>15. CASE C!TakeCall
  BY <1>15 DEF C!TakeCall
<1>16. CASE C!DiscardBody
  BY <1>16 DEF C!DiscardBody
<1>17. CASE C!ReadError
  BY <1>17 DEF C!ReadError
<1>18. CASE C!ReadReply
  BY <1>18 DEF C!ReadReply
<1>19. CASE C!ReadReplyFails
  BY <1>19 DEF C!ReadReplyFails
<1>20. CASE C!Deliver
  BY <1>20 DEF C!Deliver, C!Done
<1>21. CASE C!TerminateLockSending
  BY <1>21 DEF C!TerminateLockSending
<1>22. CASE C!TerminateShutdown
  BY <1>22 DEF C!TerminateShutdown
<1>23. ASSUME NEW s \in todo, C!TerminateCall(s) PROVE Moves
  BY <1>23 DEF C!TerminateCall, C!Done
<1>24. CASE C!TerminateReturn
  BY <1>24 DEF C!TerminateReturn
<1>25. CASE C!Close
  BY <1>25 DEF C!Close
<1>26. CASE C!PeerClose
  BY <1>26 DEF C!PeerClose
<1>27. ASSUME NEW ch \in Chans, C!Consume(ch) PROVE Moves
  BY <1>27 DEF C!Consume
<1>28. CASE UNCHANGED clientVars
  BY <1>28 DEF clientVars
<1>29. QED
  BY <1>1, <1>2, <1>3, <1>4, <1>5, <1>6, <1>7, <1>8, <1>9, <1>10, <1>11, <1>12, <1>13, <1>14, <1>15, <1>16, <1>17, <1>18, <1>19, <1>20, <1>21, <1>22, <1>23, <1>24, <1>25, <1>26, <1>27, <1>28 DEF ClientOther, C!Send, C!Receive,
     C!Terminate

\* A step of the client that receives no response keeps Joint ...
LEMMA MovesKeep ==
  ASSUME Inv, Moves, SentInv', \A c \in Calls : Back(c) => gor'[c] \notin {"none", "calling"}
  PROVE  Joint'
<1> USE DEF Inv, Joint, Moves
<1>1. \A j \in DOMAIN inbound : inbound[j].of[2] \in Calls
  BY DEF CP!IInv, CP!InboundInv, CP!Matches
<1>2. rpc \in {"lookup", "body"} => hdr.of[2] \in Calls
  BY DEF CP!IInv, CP!HdrInv, CP!Matches
<1>3. InboundInv'
  BY <1>1 DEF InboundInv, Back
<1>4. HdrInv'
  BY <1>1, <1>2 DEF InboundInv, HdrInv, Back
<1>5. \A c \in Calls : reply[c] # None => reply[c][2] \in Calls
  BY RpcAssumption DEF CP!IInv, CP!TypeOK, CP!CallTypes
<1>6. ReplyInv'
  BY <1>2, <1>5 DEF HdrInv, ReplyInv, Back
<1>7. ReturnedInv'
  BY DEF ReturnedInv
<1>8. QED
  BY <1>3, <1>4, <1>6, <1>7

\* ... and so does one that receives a response, if the method has returned.
LEMMA AnswerKeeps ==
  ASSUME Inv, NEW m \in requests, NEW kind \in {"reply", "error"}, C!Answer(m, kind), SentInv',
         \A c \in Calls : Back(c) => gor'[c] \notin {"none", "calling"},
         kind = "reply" => gor'[m.of[2]] \notin {"none", "calling"}
  PROVE  Joint'
<1> USE DEF Inv, Joint, C!Answer, C!callVars, C!clientVars, C!recvVars
<1>1. \A j \in DOMAIN inbound : inbound[j].of[2] \in Calls
  BY DEF CP!IInv, CP!InboundInv, CP!Matches
<1>2. inbound \in Seq(CP!Response)
  BY DEF CP!IInv, CP!TypeOK, CP!NetTypes
<1>3. /\ DOMAIN inbound' = DOMAIN inbound \cup {Len(inbound) + 1}
      /\ \A j \in DOMAIN inbound : inbound'[j] = inbound[j]
      /\ inbound'[Len(inbound) + 1] = [seq |-> m.seq, kind |-> kind, of |-> m.of]
  BY <1>2
<1>4. InboundInv'
  <2> SUFFICES ASSUME NEW j \in DOMAIN inbound', inbound'[j].kind = "reply"
               PROVE  gor'[inbound'[j].of[2]] \notin {"none", "calling"}
    BY DEF InboundInv, Back
  <2>1. CASE j \in DOMAIN inbound
    BY <1>1, <1>3, <2>1 DEF InboundInv
  <2>2. CASE j = Len(inbound) + 1
    BY <1>3, <2>2
  <2>3. QED
    BY <1>3, <2>1, <2>2
<1>5. rpc \in {"lookup", "body"} => hdr.of[2] \in Calls
  BY DEF CP!IInv, CP!HdrInv, CP!Matches
<1>6. HdrInv'
  BY <1>5 DEF HdrInv, Back
<1>7. \A c \in Calls : reply[c] # None => reply[c][2] \in Calls
  BY RpcAssumption DEF CP!IInv, CP!TypeOK, CP!CallTypes
<1>8. ReplyInv'
  BY <1>7 DEF ReplyInv, Back
<1>9. ReturnedInv'
  BY DEF ReturnedInv
<1>10. QED
  BY <1>4, <1>6, <1>8, <1>9

\* A step that neither writes a request nor brings a response keeps Joint.
LEMMA QuietKeeps ==
  ASSUME Inv, [Next]_vars, ClientOther, ServerOther
  PROVE  Joint'
<1>1. Moves
  BY ClientMoves DEF Inv
<1>2. \A c \in Calls : Back(c) => gor'[c] \notin {"none", "calling"}
  BY BackStays, StepIsServer DEF Inv
<1>3. SentInv'
  BY <1>1, SentOnlyWritten DEF Inv, Joint, SentInv, Moves
<1>4. QED
  BY <1>1, <1>2, <1>3, MovesKeep

\* What sendResponse writes: no result before the method has returned.
LEMMA RespondsKeeps ==
  ASSUME Inv, [Next]_vars, NEW c \in Calls, NEW kinds \in SUBSET {"reply", "error"},
         Responds(c, kinds), ServerOther,
         "reply" \in kinds => gor'[c] = "sent"
  PROVE  Joint'
<1>1. CASE UNCHANGED clientVars
  BY <1>1, QuietKeeps DEF ClientOther
<1>2. CASE \E m \in requests, kind \in kinds : m.of[2] = c /\ C!Answer(m, kind)
  <2>1. PICK m \in requests, kind \in kinds : m.of[2] = c /\ C!Answer(m, kind)
    BY <1>2
  <2>2. \A d \in Calls : Back(d) => gor'[d] \notin {"none", "calling"}
    BY BackStays, StepIsServer DEF Inv
  <2>3. pc' = pc
    BY <2>1 DEF C!Answer, C!callVars
  <2>4. SentInv'
    BY <2>3, SentOnlyWritten DEF Inv, Joint, SentInv
  <2>5. kind \in {"reply", "error"} /\ (kind = "reply" => gor'[m.of[2]] \notin {"none", "calling"})
    BY <2>1
  <2>6. QED
    BY <2>1, <2>2, <2>4, <2>5, AnswerKeeps
<1>3. QED
  BY <1>1, <1>2 DEF Responds, ClientStays

\* Writing a request: it may be the moment it is sent.
LEMMA WriteKeeps ==
  ASSUME Inv, [Next]_vars, NEW c \in Calls, C!WriteHeader(c),
         S!SendRequest(c) \/ UNCHANGED serverVars
  PROVE  Joint'
<1>1. Moves
  BY ClientMoves DEF Inv, ClientOther, C!Send
<1>2. \A d \in Calls : Back(d) => gor'[d] \notin {"none", "calling"}
  BY BackStays, StepIsServer DEF Inv
<1>3. pc' = [pc EXCEPT ![c] = "flush"]
  BY DEF C!WriteHeader, C!Goto
<1>4. \A d \in Calls \ {c} : rs'[d] = rs[d]
  BY DEF S!SendRequest, S!GotoReq, serverVars, Inv, SP!IInv, SP!TypeOK
<1>5. SentInv'
  BY <1>3, <1>4 DEF Inv, Joint, SentInv, Unwritten, CP!IInv, CP!TypeOK, CP!CallTypes,
     SP!IInv, SP!TypeOK
<1>6. QED
  BY <1>1, <1>2, <1>5, MovesKeep

\* Joint is an invariant of the whole.
LEMMA JointStep ==
  ASSUME Inv, [Next]_vars
  PROVE  Joint'
<1> USE DEF ServerStays, ClientStays, ServerLosesClient, ClientLosesServer
<1>1. ASSUME NEW c \in Calls, Send(c) PROVE Joint'
  <2>1. CASE C!WriteHeader(c) /\ (S!SendRequest(c) \/ UNCHANGED serverVars)
    BY <2>1, WriteKeeps
  <2>2. CASE C!Send(c) /\ (S!ClientCloses(Conn) \/ UNCHANGED serverVars)
    BY <2>2, QuietKeeps DEF ClientOther, ServerOther
  <2>3. QED
    BY <1>1, <2>1, <2>2 DEF Send, C!Send
<1>2. ASSUME NEW c \in Calls, Caller(c) PROVE Joint'
  BY <1>2, QuietKeeps DEF Caller, ClientOther, ServerOther
<1>3. ASSUME NEW c \in Calls, HandleRequest(c) PROVE Joint'
  <2>1. CASE S!HandlerTimeout(c) /\ Responds(c, {"error"})
    BY <2>1, RespondsKeeps DEF ServerOther, S!HandleRequest
  <2>2. CASE S!Answer(c) /\ Responds(c, {"reply", "error"})
    <3>1. gor'[c] = "sent"
      BY <2>2 DEF S!Answer, S!GotoGor, Inv, SP!IInv, SP!TypeOK
    <3>2. QED
      BY <2>2, <3>1, RespondsKeeps DEF ServerOther, S!HandleRequest
  <2>3. CASE S!HandleRequest(c) /\ (UNCHANGED clientVars \/ C!PeerClose)
    BY <2>3, QuietKeeps DEF ClientOther, ServerOther
  <2>4. QED
    BY <1>3, <2>1, <2>2, <2>3 DEF HandleRequest, S!HandleRequest
<1>4. ASSUME NEW c \in Calls, MethodReturns(c) PROVE Joint'
  BY <1>4, QuietKeeps DEF MethodReturns, ClientOther, ServerOther
<1>5. CASE Receive
  BY <1>5, QuietKeeps DEF Receive, ClientOther, ServerOther
<1>6. ASSUME NEW ch \in Chans, Consume(ch) PROVE Joint'
  BY <1>6, QuietKeeps DEF Consume, ClientOther, ServerOther
<1>7. CASE Close \/ NetworkFails
  BY <1>7, QuietKeeps DEF Close, NetworkFails, ClientOther, ServerOther
<1>8. CASE Connect \/ Pool \/ ReadGarbled
  BY <1>8, QuietKeeps DEF Connect, Pool, ReadGarbled, ClientOther, ServerOther
<1>9. CASE ServeConn
  <2>1. ASSUME NEW c \in Calls, S!Read(Conn) /\ Responds(c, {"error"}) PROVE Joint'
    BY <2>1, RespondsKeeps DEF ServerOther, S!ServeConn
  <2>2. CASE S!ServeConn(Conn) /\ (UNCHANGED clientVars \/ C!PeerClose)
    BY <2>2, QuietKeeps DEF ClientOther, ServerOther
  <2>3. QED
    BY <1>9, <2>1, <2>2 DEF ServeConn, Read, S!ServeConn, S!Read
<1>10. CASE Quiescent \/ UNCHANGED vars
  BY <1>10, QuietKeeps DEF Quiescent, vars, ClientOther, ServerOther
<1>11. QED
  BY <1>1, <1>2, <1>3, <1>4, <1>5, <1>6, <1>7, <1>8, <1>9, <1>10 DEF Next

\* The invariants of the components and what relates them hold together.
THEOREM RpcInvariance == Spec => []Inv
<1>1. Init => Joint
  BY DEF Init, C!Init, S!Init, Joint, SentInv, InboundInv, HdrInv, ReplyInv, ReturnedInv,
     Unwritten
<1>2. CP!IInv /\ SP!IInv /\ Joint /\ [Next]_vars => Joint'
  BY JointStep DEF Inv
<1>3. CP!IInv /\ SP!IInv /\ Joint => Inv
  BY DEF Inv
<1>4. QED
  BY <1>1, <1>2, <1>3, ComponentsInvariant, PTL DEF Spec

-----------------------------------------------------------------------------
(* The refinement *)

\* Nothing of the call c happens that RemoteCall sees.
Same(c) == Phase(c)' = Phase(c) /\ Run(c)' = Run(c) /\ Outcome(c)' = Outcome(c)

\* What the theorem ResultsAreFinal of the client says of a step.
Final ==
  \A c \in Calls : ndone[c] > 0 =>
    /\ error'[c] = error[c]
    /\ reply'[c] = reply[c]

\* The steps of RemoteCall, told from what happens to each call.
LEMMA AbstractStutter ==
  ASSUME \A c \in Calls : Same(c)
  PROVE  UNCHANGED R!vars
BY DEF Same, R!vars

\* A caller begins.
LEMMA AbstractBegin ==
  ASSUME NEW c \in Calls, \A d \in Calls \ {c} : Same(d),
         Phase(c) = "new", Phase(c)' = "begun", Run(c)' = Run(c), Outcome(c)' = Outcome(c)
  PROVE  R!Next
BY DEF Same, R!Next, R!Begin

\* A method starts.
LEMMA AbstractStarts ==
  ASSUME NEW c \in Calls, \A d \in Calls \ {c} : Same(d),
         Phase(c) # "new", Phase(c)' = Phase(c), Run(c) = "none", Run(c)' = "running",
         Outcome(c)' = Outcome(c)
  PROVE  R!Next
BY DEF Same, R!Next, R!MethodStarts

\* A method returns.
LEMMA AbstractReturns ==
  ASSUME NEW c \in Calls, \A d \in Calls \ {c} : Same(d),
         Phase(c)' = Phase(c), Run(c) = "running", Run(c)' = "returned", Outcome(c)' = Outcome(c)
  PROVE  R!Next
BY DEF Same, R!Next, R!MethodReturns

\* A caller has its result, or an error.
LEMMA AbstractEnd ==
  ASSUME NEW c \in Calls, \A d \in Calls \ {c} : Same(d), NEW x \in {"own", "error"},
         Phase(c) = "begun", Phase(c)' = "ended", Run(c)' = Run(c), Outcome(c)' = x,
         x = "own" => Run(c) = "returned"
  PROVE  R!Next
BY DEF Same, R!Next, R!End

\* A call nobody completes and whose caller goes on in send, or waits.
LEMMA CallSame ==
  ASSUME Inv, Final, NEW c \in Calls, gor'[c] = gor[c],
         pc'[c] = "idle" <=> pc[c] = "idle",
         c \in Async => ndone'[c] = ndone[c],
         pc'[c] = "cancelled" <=> pc[c] = "cancelled",
         c \notin Async => (pc'[c] = "returned" <=> pc[c] = "returned")
  PROVE  Same(c)
<1>1. Ended(c)' <=> Ended(c)
  BY DEF Ended
<1>2. Phase(c)' = Phase(c) /\ Run(c)' = Run(c)
  BY <1>1 DEF Phase, Run
<1>3. Ended(c) => ndone[c] > 0 \/ pc[c] = "cancelled"
  BY DEF Ended, Inv, Joint, ReturnedInv
<1>4. Outcome(c)' = Outcome(c)
  BY <1>1, <1>3 DEF Outcome, Final, Ended
<1>5. QED
  BY <1>2, <1>4 DEF Same

\* No call is completed, and no caller begins or ends.
LEMMA AllSame ==
  ASSUME Inv, Final, gor' = gor, ndone' = ndone,
         \A c \in Calls :
           /\ pc'[c] = "idle" <=> pc[c] = "idle"
           /\ pc'[c] = "cancelled" <=> pc[c] = "cancelled"
           /\ c \notin Async => (pc'[c] = "returned" <=> pc[c] = "returned")
  PROVE  UNCHANGED R!vars
<1>1. \A c \in Calls : Same(c)
  BY CallSame
<1>2. QED
  BY <1>1, AbstractStutter

\* Someone delivers the call c.
LEMMA DeliveryRefines ==
  ASSUME Inv, Final, gor' = gor, NEW c \in Calls,
         ndone' = [ndone EXCEPT ![c] = ndone[c] + 1], ndone[c] = 0,
         pc[c] # "idle",
         error'[c] = "nil" => reply'[c] = <<c, c>> /\ Back(c),
         \A d \in Calls :
           /\ pc'[d] = "idle" <=> pc[d] = "idle"
           /\ pc'[d] = "cancelled" <=> pc[d] = "cancelled"
           /\ d \notin Async => (pc'[d] = "returned" <=> pc[d] = "returned")
  PROVE  R!Next \/ UNCHANGED R!vars
<1> USE DEF Inv, CP!IInv, CP!TypeOK, CP!CallTypes
<1>1. \A d \in Calls \ {c} : Same(d)
  BY CallSame
<1>2. CASE c \notin Async
  <2>1. Same(c)
    BY <1>2, CallSame
  <2>2. QED
    BY <1>1, <2>1, AbstractStutter
<1>3. CASE c \in Async
  <2>1. Phase(c) = "begun" /\ Phase(c)' = "ended" /\ Run(c)' = Run(c)
    BY <1>3 DEF Phase, Ended, Run
  <2>2. CASE Outcome(c)' = "error"
    BY <1>1, <2>1, <2>2, AbstractEnd
  <2>3. CASE Outcome(c)' = "own" /\ Run(c) = "returned"
    BY <1>1, <2>1, <2>3, AbstractEnd
  <2>4. Outcome(c)' = "error" \/ (Outcome(c)' = "own" /\ Run(c) = "returned")
    BY <1>3 DEF Outcome, Ended, Run, Back
  <2>5. QED
    BY <2>2, <2>3, <2>4
<1>4. QED
  BY <1>2, <1>3

\* A call Client.Call gets back without an error has its own result, and its
\* method has returned.
LEMMA DeliveredIsOwn ==
  ASSUME Inv, NEW c \in Calls, ndone[c] > 0, error[c] = "nil"
  PROVE  reply[c] = <<c, c>> /\ Back(c)
<1>1. reply[c] = <<c, c>>
  BY DEF Inv, CP!IInv, CP!OutcomeInv, CP!OwnReply
<1>2. None # <<c, c>>
  BY RpcAssumption
<1>3. QED
  BY <1>1, <1>2 DEF Inv, Joint, ReplyInv

\* The calls the receive goroutine and terminateCalls complete have been begun
\* and not been completed.
LEMMA HandBegun ==
  ASSUME Inv, hand # None \/ rpc = "done"
  PROVE  hand \in Calls /\ ndone[hand] = 0 /\ pc[hand] # "idle"
<1>1. hand \in Calls /\ ndone[hand] = 0 /\ seqOf[hand] # 0
  BY DEF Inv, CP!IInv, CP!TypeOK, CP!RecvTypes, CP!HandInv
<1>2. QED
  BY <1>1 DEF Inv, CP!IInv, CP!SeqInv, CP!Fresh

\* The calls terminateCalls has yet to complete are such calls, too.
LEMMA TodoBegun ==
  ASSUME Inv, rpc = "drain", NEW s \in todo
  PROVE  pending[s] \in Calls /\ ndone[pending[s]] = 0 /\ pc[pending[s]] # "idle"
<1>1. s \in DOMAIN pending /\ ndone[pending[s]] = 0
  BY DEF Inv, CP!IInv, CP!DrainInv
<1>2. pending[s] \in Calls /\ seqOf[pending[s]] # 0
  BY <1>1 DEF Inv, CP!IInv, CP!TypeOK, CP!ClientTypes, CP!PendingInv
<1>3. QED
  BY <1>1, <1>2 DEF Inv, CP!IInv, CP!SeqInv, CP!Fresh

\* Each step of the client that brings no response is one of RemoteCall.
LEMMA ClientRefines ==
  ASSUME Inv, Inv', Final, ClientOther, gor' = gor
  PROVE  R!Next \/ UNCHANGED R!vars
<1> USE DEF CP!CallTypes, C!callVars, C!clientVars, C!netVars, C!recvVars
<1>0. CP!CallTypes
  BY DEF Inv, CP!IInv, CP!TypeOK
<1>1. ASSUME NEW c \in Calls, C!Invoke(c) PROVE R!Next
  <2>1. \A d \in Calls \ {c} : Same(d)
    BY <1>0, <1>1, CallSame DEF C!Invoke, C!Goto
  <2>2. ndone[c] = 0
    BY <1>1 DEF C!Invoke, CP!OnceInv, CP!Fresh, Inv, CP!IInv
  <2>3. /\ Phase(c) = "new" /\ Phase(c)' = "begun" /\ Run(c)' = Run(c)
        /\ Outcome(c)' = Outcome(c)
    BY <1>0, <1>1, <2>2 DEF C!Invoke, C!Goto, Phase, Run, Outcome, Ended
  <2>4. QED
    BY <2>1, <2>3, AbstractBegin
<1>2. ASSUME NEW c \in Calls, C!Return(c) \/ C!Cancel(c) PROVE R!Next \/ UNCHANGED R!vars
  <2>1. \A d \in Calls \ {c} : Same(d)
    BY <1>0, <1>2, CallSame DEF C!Return, C!Cancel, C!Goto
  <2>2. CASE c \in Async
    <3>1. Same(c)
      BY <1>0, <1>2, <2>2, CallSame, RpcAssumption DEF C!Return, C!Cancel, C!Goto
    <3>2. QED
      BY <2>1, <3>1, AbstractStutter
  <2>3. CASE c \notin Async
    <3>1. Phase(c) = "begun" /\ Phase(c)' = "ended" /\ Run(c)' = Run(c)
      BY <1>0, <1>2, <2>3 DEF C!Return, C!Cancel, C!Goto, Phase, Run, Ended
    <3>2. CASE C!Cancel(c) \/ error'[c] # "nil"
      <4>1. Outcome(c)' = "error"
        BY <1>0, <1>2, <2>3, <3>2 DEF C!Return, C!Cancel, C!Goto, Outcome, Ended
      <4>2. QED
        BY <2>1, <3>1, <4>1, AbstractEnd
    <3>3. CASE C!Return(c) /\ error'[c] = "nil"
      <4>1. ndone[c] > 0 /\ error[c] = "nil" /\ reply' = reply
        BY <1>0, <2>3, <3>3 DEF C!Return, Inv, CP!IInv, CP!ChanInv, CP!Sync
      <4>2. reply[c] = <<c, c>> /\ Back(c)
        BY <4>1, DeliveredIsOwn
      <4>3. Outcome(c)' = "own" /\ Run(c) = "returned"
        BY <1>0, <2>3, <3>3, <4>1, <4>2 DEF C!Return, C!Goto, Outcome, Ended, Run, Back
      <4>4. QED
        BY <2>1, <3>1, <4>3, AbstractEnd
    <3>4. QED
      BY <1>2, <3>2, <3>3
  <2>4. QED
    BY <2>2, <2>3
<1>3. ASSUME NEW c \in Calls, C!AcquireSending(c) PROVE UNCHANGED R!vars
  BY <1>0, <1>3, AllSame DEF C!AcquireSending, C!Goto
<1>4. ASSUME NEW c \in Calls, C!Register(c) PROVE UNCHANGED R!vars
  <2>1. PICK x \in {"prepare"} :
          /\ pc' = [pc EXCEPT ![c] = x]
    BY <1>4 DEF C!Register, C!Goto
  <2>2. pc[c] \notin {"idle", "cancelled", "returned"} /\ ndone' = ndone
    BY <1>4 DEF C!Register
  <2>3. \A d \in Calls :
          /\ pc'[d] = "idle" <=> pc[d] = "idle"
          /\ pc'[d] = "cancelled" <=> pc[d] = "cancelled"
          /\ d \notin Async => (pc'[d] = "returned" <=> pc[d] = "returned")
    BY <1>0, <2>1, <2>2
  <2>4. QED
    BY <2>2, <2>3, AllSame
<1>5. ASSUME NEW c \in Calls, C!Reject(c) PROVE UNCHANGED R!vars
  BY <1>0, <1>5, AllSame DEF C!Reject, C!Goto
<1>6. ASSUME NEW c \in Calls, C!Prepare(c) PROVE UNCHANGED R!vars
  BY <1>0, <1>6, AllSame DEF C!Prepare, C!Goto
<1>7. ASSUME NEW c \in Calls, C!WriteHeader(c) PROVE UNCHANGED R!vars
  BY <1>0, <1>7, AllSame DEF C!WriteHeader, C!Goto
<1>8. ASSUME NEW c \in Calls, C!Write(c) PROVE UNCHANGED R!vars
  <2>1. PICK x \in {"select", "returned"} :
          /\ pc' = [pc EXCEPT ![c] = x]
          /\ c \notin Async => x # "returned"
    BY <1>8 DEF C!Write, C!Goto, C!AfterSend
  <2>2. pc[c] \notin {"idle", "cancelled", "returned"} /\ ndone' = ndone
    BY <1>8 DEF C!Write
  <2>3. pc'[c] = x /\ \A d \in Calls \ {c} : pc'[d] = pc[d]
    BY <1>0, <2>1
  <2>4. x \notin {"idle", "cancelled"}
    OBVIOUS
  <2>5. \A d \in Calls :
          /\ pc'[d] = "idle" <=> pc[d] = "idle"
          /\ pc'[d] = "cancelled" <=> pc[d] = "cancelled"
          /\ d \notin Async => (pc'[d] = "returned" <=> pc[d] = "returned")
    BY <2>1, <2>2, <2>3, <2>4
  <2>6. QED
    BY <2>2, <2>5, AllSame
<1>9. ASSUME NEW c \in Calls, C!WriteFails(c) PROVE UNCHANGED R!vars
  BY <1>0, <1>9, AllSame DEF C!WriteFails, C!Goto
<1>10. ASSUME NEW c \in Calls, C!Unregister(c) PROVE UNCHANGED R!vars
  <2>1. PICK x \in {"select", "returned", "notify"} :
          /\ pc' = [pc EXCEPT ![c] = x]
          /\ c \notin Async => x # "returned"
    BY <1>10 DEF C!Unregister, C!Goto, C!AfterSend
  <2>2. pc[c] \notin {"idle", "cancelled", "returned"} /\ ndone' = ndone
    BY <1>10 DEF C!Unregister
  <2>3. pc'[c] = x /\ \A d \in Calls \ {c} : pc'[d] = pc[d]
    BY <1>0, <2>1
  <2>4. x \notin {"idle", "cancelled"}
    OBVIOUS
  <2>5. \A d \in Calls :
          /\ pc'[d] = "idle" <=> pc[d] = "idle"
          /\ pc'[d] = "cancelled" <=> pc[d] = "cancelled"
          /\ d \notin Async => (pc'[d] = "returned" <=> pc[d] = "returned")
    BY <2>1, <2>2, <2>3, <2>4
  <2>6. QED
    BY <2>2, <2>5, AllSame
<1>11. CASE C!ReadHeader
  BY <1>0, <1>11, AllSame DEF C!ReadHeader
<1>12. CASE C!ReadHeaderFails
  BY <1>0, <1>12, AllSame DEF C!ReadHeaderFails
<1>13. CASE C!TakeCall
  BY <1>0, <1>13, AllSame DEF C!TakeCall
<1>14. CASE C!DiscardBody
  BY <1>0, <1>14, AllSame DEF C!DiscardBody
<1>15. CASE C!ReadError
  BY <1>0, <1>15, AllSame DEF C!ReadError
<1>16. CASE C!ReadReply
  BY <1>0, <1>16, AllSame DEF C!ReadReply
<1>17. CASE C!ReadReplyFails
  BY <1>0, <1>17, AllSame DEF C!ReadReplyFails
<1>18. CASE C!TerminateLockSending
  BY <1>0, <1>18, AllSame DEF C!TerminateLockSending
<1>19. CASE C!TerminateShutdown
  BY <1>0, <1>19, AllSame DEF C!TerminateShutdown
<1>20. CASE C!TerminateReturn
  BY <1>0, <1>20, AllSame DEF C!TerminateReturn
<1>21. CASE C!Close
  BY <1>0, <1>21, AllSame DEF C!Close
<1>22. CASE C!PeerClose
  BY <1>0, <1>22, AllSame DEF C!PeerClose
<1>23. ASSUME NEW ch \in Chans, C!Consume(ch) PROVE UNCHANGED R!vars
  BY <1>0, <1>23, AllSame DEF C!Consume
<1>24. CASE UNCHANGED clientVars
  BY <1>0, <1>24, AllSame DEF clientVars
<1>25. ASSUME NEW c \in Calls, C!Notify(c) PROVE R!Next \/ UNCHANGED R!vars
  <2>1. ndone[c] = 0 /\ error'[c] # "nil"
    BY <1>25 DEF C!Notify, Inv, CP!IInv, CP!OnceInv, CP!OutcomeInv
  <2>2. \E x \in {"select", "returned"} :
          pc' = [pc EXCEPT ![c] = x] /\ (c \notin Async => x # "returned")
    BY <1>25 DEF C!Notify, C!Goto, C!AfterSend
  <2>3. pc[c] = "notify" /\ ndone' = [ndone EXCEPT ![c] = ndone[c] + 1]
    BY <1>25 DEF C!Notify, C!Done
  <2>4. QED
    BY <1>0, <2>1, <2>2, <2>3, DeliveryRefines
<1>26. CASE C!Deliver
  <2>1. hand \in Calls /\ ndone[hand] = 0 /\ pc[hand] # "idle"
    BY <1>26, HandBegun DEF C!Deliver
  <2>2. /\ ndone' = [ndone EXCEPT ![hand] = ndone[hand] + 1]
        /\ UNCHANGED <<pc, error, reply>>
    BY <1>26 DEF C!Deliver, C!Done
  <2>3. error[hand] = "nil" => reply[hand] = <<hand, hand>>
    BY <1>26 DEF C!Deliver, Inv, CP!IInv, CP!OutcomeInv
  <2>4. error[hand] = "nil" => Back(hand)
    <3>1. None # <<hand, hand>>
      BY <2>1, RpcAssumption
    <3>2. QED
      BY <2>1, <2>3, <3>1 DEF Inv, Joint, ReplyInv
  <2>5. QED
    BY <2>1, <2>2, <2>3, <2>4, DeliveryRefines
<1>27. ASSUME NEW s \in todo, C!TerminateCall(s) PROVE R!Next \/ UNCHANGED R!vars
  <2> DEFINE c == pending[s]
  <2>1. c \in Calls /\ ndone[c] = 0 /\ pc[c] # "idle"
    BY <1>27, TodoBegun DEF C!TerminateCall
  <2>2. /\ ndone' = [ndone EXCEPT ![c] = ndone[c] + 1]
        /\ error' = [error EXCEPT ![c] = "broken"]
        /\ pc' = pc
    BY <1>27 DEF C!TerminateCall, C!Done
  <2>3. error'[c] = "broken"
    BY <1>0, <2>1, <2>2
  <2>4. QED
    BY <2>1, <2>2, <2>3, DeliveryRefines
<1>28. QED
  BY <1>1, <1>2, <1>3, <1>4, <1>5, <1>6, <1>7, <1>8, <1>9, <1>10, <1>11, <1>12, <1>13, <1>14, <1>15, <1>16, <1>17, <1>18, <1>19, <1>20, <1>21, <1>22, <1>23, <1>24, <1>25, <1>26, <1>27
  DEF ClientOther, C!Send, C!Receive, C!Terminate

\* The client takes no part in a step of the server, or notices it only on its
\* connection.
Quiet == UNCHANGED <<pc, ndone, error, reply>>

\* The steps of the server between which the method neither starts nor returns.
LEMMA RunKept ==
  ASSUME SP!IInv, Quiet, NEW c \in Calls,
         gor'[c] = gor[c] \/ (gor[c] \notin {"none", "calling"} /\ gor'[c] \notin {"none", "calling"})
  PROVE  Same(c)
BY DEF Quiet, Same, Phase, Run, Outcome, Ended

\* Each step of the server is one of RemoteCall: the method is started by the
\* goroutine of the pool that takes the request, and returns.
LEMMA ServerRefines ==
  ASSUME Inv, Quiet, S!Next \/ UNCHANGED serverVars
  PROVE  R!Next \/ UNCHANGED R!vars
<1> USE DEF Inv, SP!IInv, SP!TypeOK
<1>1. ASSUME NEW w \in Workers, S!TakeRequest(w) PROVE R!Next
  <2>1. PICK c \in Calls : c = Head(queue) /\ rs[c] = "queued"
    BY <1>1, HeadWaits DEF S!TakeRequest
  <2>2. gor[c] = "none" /\ pc[c] # "idle"
    BY <2>1 DEF SP!RequestInv, SP!Waiting, Joint, SentInv, Unwritten
  <2>3. gor' = [gor EXCEPT ![c] = "calling"]
    BY <1>1, <2>1 DEF S!TakeRequest, S!GotoGor
  <2>4. \A d \in Calls \ {c} : Same(d)
    BY <2>3, RunKept
  <2>5. gor'[c] = "calling"
    BY <2>1, <2>3
  <2>6. /\ Phase(c) # "new" /\ Phase(c)' = Phase(c) /\ Outcome(c)' = Outcome(c)
        /\ Run(c) = "none" /\ Run(c)' = "running"
    BY <2>1, <2>2, <2>5 DEF Quiet, Phase, Outcome, Ended, Run
  <2>7. QED
    BY <2>1, <2>4, <2>6, AbstractStarts
<1>2. ASSUME NEW c \in Calls, S!MethodReturns(c) PROVE R!Next
  <2>1. gor[c] = "calling" /\ gor' = [gor EXCEPT ![c] = "called"]
    BY <1>2 DEF S!MethodReturns, S!GotoGor
  <2>2. \A d \in Calls \ {c} : Same(d)
    BY <2>1, RunKept
  <2>3. gor'[c] = "called"
    BY <2>1
  <2>4. /\ Phase(c)' = Phase(c) /\ Outcome(c)' = Outcome(c)
        /\ Run(c) = "running" /\ Run(c)' = "returned"
    BY <2>1, <2>3 DEF Quiet, Phase, Outcome, Ended, Run
  <2>5. QED
    BY <2>2, <2>4, AbstractReturns
<1>3. ASSUME NEW r \in Calls, S!HandleRequest(r) PROVE UNCHANGED R!vars
  <2>1. ASSUME NEW d \in Calls
        PROVE  gor'[d] = gor[d] \/ (gor[d] \notin {"none", "calling"} /\ gor'[d] \notin {"none", "calling"})
    BY <1>3, <2>1 DEF S!HandleRequest, S!Called, S!HandlerTimeout, S!Answer, S!AnswerFails, S!Sent,
       S!GotoGor
  <2>2. QED
    BY <2>1, RunKept, AbstractStutter
<1>4. CASE gor' = gor
  BY <1>4, RunKept, AbstractStutter
<1>5. QED
  BY <1>1, <1>2, <1>3, <1>4 DEF S!Next, S!Client, S!Dial, S!ClientCloses, S!SendRequest, S!Accept,
     S!AcceptConn, S!AddConn, S!Work, S!TakeConn, S!ServeConn, S!RefuseOption,
     S!ReadOption, S!Read, S!ReadRequest, S!RefuseMethod, S!RefuseBody, S!AddRequest,
     S!ReadUnreadBody, S!ReadGarbled, S!ReadFails, S!FinishConn, S!Quiescent,
     S!netVars, S!poolVars, S!reqVars, S!vars, serverVars

\* A step of the whole is one of RemoteCall, or none.
LEMMA StepRefines ==
  ASSUME Inv, Inv', Final, [Next]_vars
  PROVE  R!Next \/ UNCHANGED R!vars
<1> USE DEF ServerStays, ClientStays, ServerLosesClient, ClientLosesServer
<1>1. ASSUME ClientOther, UNCHANGED serverVars \/ S!ClientCloses(Conn) \/ \E r \in Calls : S!SendRequest(r)
      PROVE  R!Next \/ UNCHANGED R!vars
  <2>1. gor' = gor
    BY <1>1 DEF serverVars, S!ClientCloses, S!SendRequest, S!reqVars
  <2>2. QED
    BY <1>1, <2>1, ClientRefines
<1>2. ASSUME UNCHANGED clientVars \/ C!PeerClose \/ (\E m \in requests, kind \in C!Kinds : C!Answer(m, kind))
      PROVE  R!Next \/ UNCHANGED R!vars
  <2>1. Quiet
    BY <1>2 DEF Quiet, clientVars, C!PeerClose, C!Answer, C!callVars, C!clientVars, C!recvVars
  <2>2. QED
    BY <2>1, ServerRefines, StepIsServer
<1>3. ASSUME NEW c \in Calls, NEW kinds \in SUBSET C!Kinds, Responds(c, kinds)
      PROVE  R!Next \/ UNCHANGED R!vars
  BY <1>2, <1>3 DEF Responds
<1>4. ASSUME NEW c \in Calls, Send(c) \/ Caller(c) PROVE R!Next \/ UNCHANGED R!vars
  BY <1>1, <1>4 DEF Send, Caller, ClientOther, C!Send
<1>5. ASSUME NEW c \in Calls, HandleRequest(c) \/ MethodReturns(c) PROVE R!Next \/ UNCHANGED R!vars
  BY <1>2, <1>3, <1>5 DEF HandleRequest, MethodReturns, C!Kinds
<1>6. CASE Receive \/ Close \/ NetworkFails \/ \E ch \in Chans : Consume(ch)
  BY <1>1, <1>6 DEF Receive, Close, NetworkFails, Consume, ClientOther
<1>7. CASE Connect \/ Pool \/ ReadGarbled
  BY <1>2, <1>7 DEF Connect, Pool, ReadGarbled
<1>8. CASE ServeConn
  BY <1>2, <1>3, <1>8 DEF ServeConn, Read, C!Kinds
<1>9. CASE Quiescent \/ UNCHANGED vars
  BY <1>2, <1>9 DEF Quiescent, vars
<1>10. QED
  BY <1>4, <1>5, <1>6, <1>7, <1>8, <1>9 DEF Next

\* Client and server together implement RemoteCall: a method runs at most once
\* for a call, and a call that ends without an error, whatever was delayed,
\* lost, cancelled or timed out, has the result its own method returned
\* (client.go send and receive, server.go handleRequest).
THEOREM CallsAreRemote == Spec => IsRemoteCall
<1>1. Init => R!Init
  BY DEF Init, C!Init, S!Init, R!Init, Phase, Run, Outcome, Ended
<1>2. Inv /\ Inv' /\ [Final]_CP!vars /\ [Next]_vars => [R!Next]_R!vars
  <2>1. [Final]_CP!vars => Final
    BY DEF Final, CP!vars, CP!callVars
  <2>2. QED
    BY <2>1, StepRefines
<1>3. Spec => [][Final]_CP!vars
  <2>1. CP!Spec => CP!ResultFinal
    BY CP!ResultsAreFinal, RpcAssumption DEF CP!Sync
  <2>2. QED
    BY <2>1, ClientImplemented, PTL DEF CP!ResultFinal, Final
<1>4. QED
  BY <1>1, <1>2, <1>3, RpcInvariance, PTL DEF Spec, IsRemoteCall, R!Spec
=============================================================================
