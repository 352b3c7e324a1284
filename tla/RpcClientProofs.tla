-------------------------- MODULE RpcClientProofs --------------------------
(***************************************************************************)
(* The safety properties of RpcClient for any number of calls, any choice  *)
(* of asynchronous and cancelable ones and any channel capacities.         *)
(*                                                                         *)
(* IInv is the inductive strengthening: it says who may complete a call    *)
(* (the caller in send, the receiver that took it from pending, or         *)
(* terminateCalls), that these three exclude each other, and which message *)
(* belongs to which call.                                                  *)
(***************************************************************************)
EXTENDS RpcClient, TLAPS

\* Program points of send at which the lock sending is held ...
Holding == {"register", "prepare", "write", "flush", "failed", "notify"}
\* ... at which the request is being written ...
Writing == {"prepare", "write", "flush", "failed"}
\* ... and those before the call has a number.
Fresh == {"idle", "acquire", "register"}

\* The two locks, and the flag terminateCalls sets under them.
LockInv ==
  /\ sending = Receiver <=> rpc \in {"shutdown", "drain"}
  /\ \A c \in Calls : sending = c <=> pc[c] \in Holding
  /\ shutdown <=> rpc \in {"drain", "stopped"}
  /\ shutdown => \A c \in Calls : pc[c] \notin Writing

\* Sequence numbers are unique; 0 means "not registered".
SeqInv ==
  /\ \A c \in Calls : seqOf[c] < seq
  /\ \A c, d \in Calls : seqOf[c] = seqOf[d] /\ seqOf[c] # 0 => c = d
  /\ \A c \in Calls : pc[c] \in Fresh => seqOf[c] = 0
  /\ \A c \in Calls : pc[c] \in Writing => seqOf[c] # 0

\* What pending holds.
PendingInv ==
  \A s \in DOMAIN pending :
    /\ s # 0
    /\ seqOf[pending[s]] = s
    /\ pc[pending[s]] \notin {"notify", "cancelled"}
    /\ pending[s] # hand
    /\ rpc \notin {"drain", "stopped"} => ndone[pending[s]] = 0

\* The call in the receiver's hands.
HandInv ==
  /\ hand # None =>
       /\ rpc \in {"body", "done"}
       /\ seqOf[hand] # 0
       /\ ndone[hand] = 0
       /\ pc[hand] # "notify"
  /\ rpc = "done" => hand # None

\* What terminateCalls has done and has still to do.
DrainInv ==
  /\ rpc = "drain" =>
       /\ todo \subseteq DOMAIN pending
       /\ \A s \in todo : ndone[pending[s]] = 0
       /\ \A s \in DOMAIN pending \ todo : ndone[pending[s]] = 1
  /\ rpc = "stopped" => \A s \in DOMAIN pending : ndone[pending[s]] = 1

\* A call that has not been issued, or that its caller is about to complete,
\* has not been delivered; nobody is delivered twice.
OnceInv ==
  /\ \A c \in Calls : pc[c] \in Fresh \cup {"notify"} => ndone[c] = 0
  /\ AtMostOnce

\* An issued call has been delivered or somebody will deliver it.
ReachInv ==
  \A c \in Calls :
    pc[c] \in Writing \cup {"select", "returned"} =>
      ndone[c] = 1 \/ hand = c \/ seqOf[c] \in DOMAIN pending

\* Client.Call's channel is empty until its call is delivered.
ChanInv == \A c \in Sync : ndone[c] = 0 => chan[DoneChan[c]] = <<>>

\* A message carries the number of the call whose method and arguments it holds.
Matches(m) ==
  m.seq # 0 /\ \E d \in Calls : m.of = <<d, d>> /\ m.seq = seqOf[d]

HeaderInv == \A c \in Calls : pc[c] = "write" => header = [seq |-> seqOf[c], method |-> c]

RequestsInv == \A m \in requests : Matches(m)

InboundInv == \A i \in DOMAIN inbound : Matches(inbound[i])

HdrInv ==
  /\ rpc \in {"lookup", "body", "done"} => Matches(hdr)
  /\ hand # None => hdr.seq = seqOf[hand]

\* The outcome of a call that has been completed or is about to be.
OutcomeInv ==
  /\ \A c \in Calls : pc[c] = "notify" => error[c] # "nil"
  /\ rpc = "done" /\ error[hand] = "nil" => reply[hand] = <<hand, hand>>
  /\ OwnReply

IInv ==
  /\ TypeOK /\ LockInv /\ SeqInv /\ PendingInv /\ HandInv /\ DrainInv
  /\ OnceInv /\ ReachInv /\ ChanInv
  /\ HeaderInv /\ RequestsInv /\ InboundInv /\ HdrInv /\ OutcomeInv
-----------------------------------------------------------------------------
(* Facts about single steps *)

\* After a failed write the call is still pending and the caller completes it
\* ...
UnregisterTakes(c) ==
  /\ pc[c] = "failed"
  /\ rpc # "drain"
  /\ seqOf[c] \in DOMAIN pending
  /\ pending' = [k \in DOMAIN pending \ {seqOf[c]} |-> pending[k]]
  /\ pc' = [pc EXCEPT ![c] = "notify"]
  /\ error' = [error EXCEPT ![c] = "write"]
  /\ UNCHANGED <<seqOf, reply, ndone, chan, sending, header, seq, closing,
                 shutdown, netVars, recvVars>>

\* ... or the receiver has it and the caller leaves it alone.
UnregisterFinds(c) ==
  /\ pc[c] = "failed"
  /\ rpc # "drain"
  /\ seqOf[c] \notin DOMAIN pending
  /\ pending' = pending
  /\ pc' = [pc EXCEPT ![c] = AfterSend(c)]
  /\ AfterSend(c) \in {"returned", "select"}
  /\ sending' = None
  /\ UNCHANGED <<seqOf, error, reply, ndone, chan, header, seq, closing,
                 shutdown, netVars, recvVars>>

\* These are the two outcomes of removeCall in Client.send.
LEMMA UnregisterOutcome ==
  ASSUME ClientTypes, NEW c \in Calls, Unregister(c)
  PROVE  UnregisterTakes(c) \/ UnregisterFinds(c)
<1>1. CASE Lookup(seqOf[c]) = None
  <2>1. seqOf[c] \notin DOMAIN pending
    BY <1>1, ClientAssumption DEF Lookup, ClientTypes
  <2>2. pending' = pending
    BY <2>1 DEF Unregister, RemoveCall, Without, ClientTypes
  <2>3. QED
    BY <1>1, <2>1, <2>2 DEF Unregister, UnregisterFinds, MuFree, Goto, AfterSend
<1>2. CASE Lookup(seqOf[c]) # None
  <2>1. seqOf[c] \in DOMAIN pending
    BY <1>2 DEF Lookup
  <2>2. QED
    BY <1>2, <2>1 DEF Unregister, UnregisterTakes, MuFree, RemoveCall, Without, Goto
<1>3. QED
  BY <1>1, <1>2

\* call.done() keeps the channels and the history well typed.
LEMMA DoneOutcome ==
  ASSUME CallTypes, NEW c \in Calls, Done(c)
  PROVE  ndone' \in [Calls -> Nat] /\ chan' \in [Chans -> Seq(Calls)]
<1>1. DoneChan[c] \in Chans
  BY ClientAssumption
<1>2. Append(chan[DoneChan[c]], c) \in Seq(Calls)
  BY <1>1 DEF CallTypes
<1>3. QED
  BY <1>1, <1>2 DEF CallTypes, Done

\* Every step preserves the types of the calls and their channels.
LEMMA CallTypesStep ==
  ASSUME TypeOK, HandInv, DrainInv, HdrInv, [Next]_vars
  PROVE  CallTypes'
<1> USE ClientAssumption DEF TypeOK, CallTypes, ClientTypes, RecvTypes,
      callVars, clientVars, netVars, recvVars
<1>1. ASSUME NEW c \in Calls, Invoke(c) PROVE CallTypes'
  BY <1>1 DEF Invoke, Goto
<1>2. ASSUME NEW c \in Calls, AcquireSending(c) PROVE CallTypes'
  BY <1>2 DEF AcquireSending, Goto
<1>3. ASSUME NEW c \in Calls, Register(c) PROVE CallTypes'
  BY <1>3 DEF Register, Goto, With, Unavailable
<1>4. ASSUME NEW c \in Calls, Reject(c) PROVE CallTypes'
  BY <1>4 DEF Reject, Goto, Errors
<1>5. ASSUME NEW c \in Calls, Prepare(c) PROVE CallTypes'
  BY <1>5 DEF Prepare, Goto
<1>6. ASSUME NEW c \in Calls, WriteHeader(c) PROVE CallTypes'
  BY <1>6 DEF WriteHeader, Goto
<1>7. ASSUME NEW c \in Calls, Write(c) PROVE CallTypes'
  BY <1>7 DEF Write, Goto, AfterSend
<1>8. ASSUME NEW c \in Calls, WriteFails(c) PROVE CallTypes'
  BY <1>8 DEF WriteFails, Goto
<1>9. ASSUME NEW c \in Calls, Unregister(c) PROVE CallTypes'
  <2>1. CASE UnregisterTakes(c)
    BY <2>1 DEF UnregisterTakes, Errors
  <2>2. CASE UnregisterFinds(c)
    BY <2>2 DEF UnregisterFinds
  <2>3. QED
    BY <1>9, <2>1, <2>2, UnregisterOutcome
<1>10. ASSUME NEW c \in Calls, Notify(c) PROVE CallTypes'
  <2>1. ndone' \in [Calls -> Nat] /\ chan' \in [Chans -> Seq(Calls)]
    BY <1>10, DoneOutcome DEF Notify
  <2>2. QED
    BY <1>10, <2>1 DEF Notify, Goto, AfterSend
<1>11. ASSUME NEW c \in Calls, Return(c) PROVE CallTypes'
  <2>1. DoneChan[c] \in Chans /\ Tail(chan[DoneChan[c]]) \in Seq(Calls)
    BY <1>11 DEF Return
  <2>2. chan' \in [Chans -> Seq(Calls)]
    BY <1>11, <2>1 DEF Return
  <2>3. QED
    BY <1>11, <2>2 DEF Return, Goto
<1>12. ASSUME NEW c \in Calls, Cancel(c) PROVE CallTypes'
  BY <1>12 DEF Cancel, Goto, RemoveCall, Without
<1>13. CASE ReadError
  BY <1>13 DEF ReadError, Errors
<1>14. CASE ReadReply
  <2>1. Matches(hdr)
    BY <1>14 DEF ReadReply, HdrInv
  <2>2. hdr.of \in Calls \X Calls
    BY <2>1 DEF Matches
  <2>3. QED
    BY <1>14, <2>2 DEF ReadReply
<1>15. CASE ReadReplyFails
  BY <1>15 DEF ReadReplyFails, Errors
<1>16. CASE Deliver
  <2>1. ndone' \in [Calls -> Nat] /\ chan' \in [Chans -> Seq(Calls)]
    BY <1>16, DoneOutcome DEF Deliver, HandInv
  <2>2. QED
    BY <1>16, <2>1 DEF Deliver
<1>17. ASSUME NEW s \in todo, TerminateCall(s) PROVE CallTypes'
  <2>1. pending[s] \in Calls
    BY <1>17 DEF TerminateCall, DrainInv
  <2>2. ndone' \in [Calls -> Nat] /\ chan' \in [Chans -> Seq(Calls)]
    BY <1>17, <2>1, DoneOutcome DEF TerminateCall
  <2>3. QED
    BY <1>17, <2>1, <2>2 DEF TerminateCall, Errors
<1>18. ASSUME NEW ch \in Chans, Consume(ch) PROVE CallTypes'
  <2>1. Tail(chan[ch]) \in Seq(Calls)
    BY <1>18 DEF Consume
  <2>2. chan' \in [Chans -> Seq(Calls)]
    BY <1>18, <2>1 DEF Consume
  <2>3. QED
    BY <1>18, <2>2 DEF Consume
<1>19. CASE UNCHANGED <<pc, seqOf, error, reply, ndone, chan>>
  BY <1>19
<1>20. QED
  BY <1>1, <1>2, <1>3, <1>4, <1>5, <1>6, <1>7, <1>8, <1>9, <1>10, <1>11,
      <1>12, <1>13, <1>14, <1>15, <1>16, <1>17, <1>18, <1>19
    DEF Next, Send, Receive, Terminate, Peer, Quiescent, vars, ReadHeader,
      ReadHeaderFails, TakeCall, DiscardBody, TerminateLockSending,
      TerminateShutdown, TerminateReturn, Close, PeerClose, Answer, RemoveCall

\* Every step preserves the types of the client's fields.
LEMMA ClientTypesStep ==
  ASSUME TypeOK, [Next]_vars
  PROVE  ClientTypes'
<1> USE ClientAssumption DEF TypeOK, CallTypes, ClientTypes, callVars,
      clientVars, netVars, recvVars
<1>1. ASSUME NEW c \in Calls, AcquireSending(c) PROVE ClientTypes'
  BY <1>1 DEF AcquireSending, Goto
<1>2. ASSUME NEW c \in Calls, Register(c) PROVE ClientTypes'
  BY <1>2 DEF Register, Goto, With, Unavailable
<1>3. ASSUME NEW c \in Calls, Prepare(c) PROVE ClientTypes'
  BY <1>3 DEF Prepare, Goto
<1>4. ASSUME NEW c \in Calls, Write(c) PROVE ClientTypes'
  BY <1>4 DEF Write, Goto, AfterSend
<1>5. ASSUME NEW c \in Calls, Unregister(c) PROVE ClientTypes'
  <2>1. CASE UnregisterTakes(c)
    BY <2>1 DEF UnregisterTakes
  <2>2. CASE UnregisterFinds(c)
    BY <2>2 DEF UnregisterFinds
  <2>3. QED
    BY <1>5, <2>1, <2>2, UnregisterOutcome
<1>6. ASSUME NEW c \in Calls, Notify(c) PROVE ClientTypes'
  BY <1>6 DEF Notify, Goto, AfterSend, Done, HasRoom
<1>7. ASSUME NEW c \in Calls, Cancel(c) PROVE ClientTypes'
  BY <1>7 DEF Cancel, Goto, RemoveCall, Without
<1>8. CASE TakeCall
  BY <1>8 DEF TakeCall, RemoveCall, Without, Lookup
<1>9. CASE TerminateLockSending
  BY <1>9 DEF TerminateLockSending
<1>10. CASE TerminateShutdown
  BY <1>10 DEF TerminateShutdown
<1>11. CASE TerminateReturn
  BY <1>11 DEF TerminateReturn
<1>12. CASE Close
  BY <1>12 DEF Close
<1>13. CASE UNCHANGED <<sending, header, seq, pending, closing, shutdown>>
  BY <1>13
<1>14. QED
  BY <1>1, <1>2, <1>3, <1>4, <1>5, <1>6, <1>7, <1>8, <1>9, <1>10, <1>11,
      <1>12, <1>13
    DEF Next, Send, Receive, Terminate, Peer, Quiescent, vars, Invoke, Reject,
      WriteHeader, WriteFails, Return, ReadHeader, ReadHeaderFails,
      DiscardBody, ReadError, ReadReply, ReadReplyFails, Deliver,
      TerminateCall, PeerClose, Consume, Answer, Done, Goto, HasRoom

\* Every step preserves the types of the messages.
LEMMA NetTypesStep ==
  ASSUME TypeOK, HeaderInv, [Next]_vars
  PROVE  NetTypes'
<1> USE ClientAssumption DEF TypeOK, CallTypes, ClientTypes, NetTypes,
      callVars, clientVars, netVars, recvVars
<1>1. ASSUME NEW c \in Calls, WriteHeader(c) PROVE NetTypes'
  <2>1. [seq |-> header.seq, of |-> <<header.method, c>>] \in Request
    BY <1>1 DEF WriteHeader, HeaderInv, Request
  <2>2. QED
    BY <1>1, <2>1 DEF WriteHeader
<1>2. ASSUME NEW c \in Calls, WriteFails(c) PROVE NetTypes'
  BY <1>2 DEF WriteFails, Goto
<1>3. CASE ReadHeader
  BY <1>3 DEF ReadHeader
<1>4. CASE Close
  BY <1>4 DEF Close
<1>5. CASE PeerClose
  BY <1>5 DEF PeerClose
<1>6. ASSUME NEW m \in requests, NEW kind \in Kinds, Answer(m, kind) PROVE NetTypes'
  <2>1. [seq |-> m.seq, kind |-> kind, of |-> m.of] \in Response
    BY <1>6 DEF Answer, Request, Response
  <2>2. QED
    BY <1>6, <2>1 DEF Answer
<1>7. CASE UNCHANGED <<conn, requests, inbound>>
  BY <1>7
<1>8. QED
  BY <1>1, <1>2, <1>3, <1>4, <1>5, <1>6, <1>7
    DEF Next, Send, Receive, Terminate, Peer, Quiescent, vars, Invoke,
      AcquireSending, Register, Reject, Prepare, Write, Unregister, Notify,
      Return, Cancel, ReadHeaderFails, TakeCall, DiscardBody, ReadError,
      ReadReply, ReadReplyFails, Deliver, TerminateLockSending,
      TerminateShutdown, TerminateCall, TerminateReturn, Consume, Done, Goto,
      HasRoom, RemoveCall

\* Every step preserves the types of the receive goroutine.
LEMMA RecvTypesStep ==
  ASSUME TypeOK, [Next]_vars
  PROVE  RecvTypes'
<1> USE ClientAssumption DEF TypeOK, ClientTypes, NetTypes, RecvTypes,
      callVars, clientVars, netVars, recvVars
<1>1. CASE ReadHeader
  BY <1>1 DEF ReadHeader
<1>2. CASE ReadHeaderFails
  BY <1>2 DEF ReadHeaderFails
<1>3. CASE TakeCall
  BY <1>3 DEF TakeCall, RemoveCall, Without, Lookup
<1>4. CASE DiscardBody
  BY <1>4 DEF DiscardBody
<1>5. CASE ReadError
  BY <1>5 DEF ReadError
<1>6. CASE ReadReply
  BY <1>6 DEF ReadReply
<1>7. CASE ReadReplyFails
  BY <1>7 DEF ReadReplyFails
<1>8. CASE Deliver
  BY <1>8 DEF Deliver, Done, HasRoom
<1>9. CASE TerminateLockSending
  BY <1>9 DEF TerminateLockSending
<1>10. CASE TerminateShutdown
  BY <1>10 DEF TerminateShutdown
<1>11. ASSUME NEW s \in todo, TerminateCall(s) PROVE RecvTypes'
  BY <1>11 DEF TerminateCall, Done, HasRoom
<1>12. CASE TerminateReturn
  BY <1>12 DEF TerminateReturn
<1>13. CASE UNCHANGED <<rpc, hdr, hand, readErr, todo>>
  BY <1>13
<1>14. QED
  BY <1>1, <1>2, <1>3, <1>4, <1>5, <1>6, <1>7, <1>8, <1>9, <1>10, <1>11,
      <1>12, <1>13
    DEF Next, Send, Receive, Terminate, Peer, Quiescent, vars, Invoke,
      AcquireSending, Register, Reject, Prepare, WriteHeader, Write,
      WriteFails, Unregister, Notify, Return, Cancel, Close, PeerClose,
      Consume, Answer, Done, Goto, HasRoom, RemoveCall

\* The lock sending is held by at most one goroutine, and no request is being
\* written once terminateCalls has set the flag shutdown.
LEMMA LockStep ==
  ASSUME TypeOK, LockInv, [Next]_vars
  PROVE  LockInv'
<1> USE ClientAssumption DEF TypeOK, CallTypes, ClientTypes, NetTypes,
      RecvTypes, LockInv, Holding, Writing, callVars, clientVars, netVars,
      recvVars
<1>1. ASSUME NEW c \in Calls, Invoke(c) PROVE LockInv'
  BY <1>1 DEF Invoke, Goto
<1>2. ASSUME NEW c \in Calls, AcquireSending(c) PROVE LockInv'
  BY <1>2 DEF AcquireSending, Goto
<1>3. ASSUME NEW c \in Calls, Register(c) PROVE LockInv'
  BY <1>3 DEF Register, Goto, With, Unavailable
<1>4. ASSUME NEW c \in Calls, Reject(c) PROVE LockInv'
  BY <1>4 DEF Reject, Goto
<1>5. ASSUME NEW c \in Calls, Prepare(c) PROVE LockInv'
  BY <1>5 DEF Prepare, Goto
<1>6. ASSUME NEW c \in Calls, WriteHeader(c) PROVE LockInv'
  BY <1>6 DEF WriteHeader, Goto
<1>7. ASSUME NEW c \in Calls, Write(c) PROVE LockInv'
  BY <1>7 DEF Write, Goto, AfterSend
<1>8. ASSUME NEW c \in Calls, WriteFails(c) PROVE LockInv'
  BY <1>8 DEF WriteFails, Goto
<1>9. ASSUME NEW c \in Calls, Unregister(c) PROVE LockInv'
  <2>1. CASE UnregisterTakes(c)
    BY <2>1 DEF UnregisterTakes
  <2>2. CASE UnregisterFinds(c)
    BY <2>2 DEF UnregisterFinds
  <2>3. QED
    BY <1>9, <2>1, <2>2, UnregisterOutcome
<1>10. ASSUME NEW c \in Calls, Notify(c) PROVE LockInv'
  BY <1>10 DEF Notify, Goto, AfterSend, Done, HasRoom
<1>11. ASSUME NEW c \in Calls, Return(c) PROVE LockInv'
  BY <1>11 DEF Return, Goto
<1>12. ASSUME NEW c \in Calls, Cancel(c) PROVE LockInv'
  BY <1>12 DEF Cancel, Goto, RemoveCall, Without
<1>13. CASE ReadHeader
  BY <1>13 DEF ReadHeader
<1>14. CASE ReadHeaderFails
  BY <1>14 DEF ReadHeaderFails
<1>15. CASE TakeCall
  BY <1>15 DEF TakeCall, RemoveCall, Without, Lookup
<1>16. CASE DiscardBody
  BY <1>16 DEF DiscardBody
<1>17. CASE ReadError
  BY <1>17 DEF ReadError
<1>18. CASE ReadReply
  BY <1>18 DEF ReadReply
<1>19. CASE ReadReplyFails
  BY <1>19 DEF ReadReplyFails
<1>20. CASE Deliver
  BY <1>20 DEF Deliver, Done, HasRoom
<1>21. CASE TerminateLockSending
  BY <1>21 DEF TerminateLockSending
<1>22. CASE TerminateShutdown
  BY <1>22 DEF TerminateShutdown
<1>23. CASE TerminateReturn
  BY <1>23 DEF TerminateReturn
<1>24. CASE UNCHANGED <<pc, sending, shutdown, rpc>>
  BY <1>24
<1>25. QED
  BY <1>1, <1>2, <1>3, <1>4, <1>5, <1>6, <1>7, <1>8, <1>9, <1>10, <1>11,
      <1>12, <1>13, <1>14, <1>15, <1>16, <1>17, <1>18, <1>19, <1>20, <1>21,
      <1>22, <1>23, <1>24
    DEF Next, Send, Receive, Terminate, Peer, Quiescent, vars, TerminateCall,
      Close, PeerClose, Consume, Answer, Done, HasRoom

\* Sequence numbers are never used twice.
LEMMA SeqStep ==
  ASSUME TypeOK, SeqInv, [Next]_vars
  PROVE  SeqInv'
<1> USE ClientAssumption DEF TypeOK, CallTypes, ClientTypes, SeqInv, Fresh,
      Writing, callVars, clientVars, netVars, recvVars
<1>1. ASSUME NEW c \in Calls, Invoke(c) PROVE SeqInv'
  BY <1>1 DEF Invoke, Goto
<1>2. ASSUME NEW c \in Calls, AcquireSending(c) PROVE SeqInv'
  BY <1>2 DEF AcquireSending, Goto
<1>3. ASSUME NEW c \in Calls, Register(c) PROVE SeqInv'
  <2>1. seqOf' = [seqOf EXCEPT ![c] = seq] /\ seq' = seq + 1 /\ seq # 0
    BY <1>3 DEF Register
  <2>2. pc[c] = "register" /\ pc' = [pc EXCEPT ![c] = "prepare"]
    BY <1>3 DEF Register, Goto
  <2>3. \A d \in Calls : seqOf'[d] < seq'
    BY <2>1
  <2>4. \A d, e \in Calls : seqOf'[d] = seqOf'[e] /\ seqOf'[d] # 0 => d = e
    BY <2>1
  <2>5. QED
    BY <2>1, <2>2, <2>3, <2>4
<1>4. ASSUME NEW c \in Calls, Reject(c) PROVE SeqInv'
  BY <1>4 DEF Reject, Goto
<1>5. ASSUME NEW c \in Calls, Prepare(c) PROVE SeqInv'
  BY <1>5 DEF Prepare, Goto
<1>6. ASSUME NEW c \in Calls, WriteHeader(c) PROVE SeqInv'
  BY <1>6 DEF WriteHeader, Goto
<1>7. ASSUME NEW c \in Calls, Write(c) PROVE SeqInv'
  BY <1>7 DEF Write, Goto, AfterSend
<1>8. ASSUME NEW c \in Calls, WriteFails(c) PROVE SeqInv'
  BY <1>8 DEF WriteFails, Goto
<1>9. ASSUME NEW c \in Calls, Unregister(c) PROVE SeqInv'
  <2>1. CASE UnregisterTakes(c)
    BY <2>1 DEF UnregisterTakes
  <2>2. CASE UnregisterFinds(c)
    BY <2>2 DEF UnregisterFinds
  <2>3. QED
    BY <1>9, <2>1, <2>2, UnregisterOutcome
<1>10. ASSUME NEW c \in Calls, Notify(c) PROVE SeqInv'
  BY <1>10 DEF Notify, Goto, AfterSend, Done, HasRoom
<1>11. ASSUME NEW c \in Calls, Return(c) PROVE SeqInv'
  BY <1>11 DEF Return, Goto
<1>12. ASSUME NEW c \in Calls, Cancel(c) PROVE SeqInv'
  BY <1>12 DEF Cancel, Goto, RemoveCall, Without
<1>13. CASE UNCHANGED <<pc, seqOf, seq>>
  BY <1>13
<1>14. QED
  BY <1>1, <1>2, <1>3, <1>4, <1>5, <1>6, <1>7, <1>8, <1>9, <1>10, <1>11,
      <1>12, <1>13
    DEF Next, Send, Receive, Terminate, Peer, Quiescent, vars, ReadHeader,
      ReadHeaderFails, TakeCall, DiscardBody, ReadError, ReadReply,
      ReadReplyFails, Deliver, TerminateLockSending, TerminateShutdown,
      TerminateCall, TerminateReturn, Close, PeerClose, Consume, Answer, Done,
      HasRoom, RemoveCall

\* A call in pending is in nobody's hands and has not been delivered before
\* terminateCalls gets to it.
LEMMA PendingStep ==
  ASSUME TypeOK, TypeOK', LockInv, SeqInv, PendingInv, HandInv, DrainInv,
         OnceInv, [Next]_vars
  PROVE  PendingInv'
<1> USE ClientAssumption DEF TypeOK, CallTypes, ClientTypes, NetTypes,
      RecvTypes, LockInv, SeqInv, PendingInv, HandInv, DrainInv, OnceInv,
      Fresh, Writing, Holding, callVars, clientVars, netVars, recvVars
<1>1. ASSUME NEW c \in Calls, Invoke(c) PROVE PendingInv'
  BY <1>1 DEF Invoke, Goto
<1>2. ASSUME NEW c \in Calls, AcquireSending(c) PROVE PendingInv'
  BY <1>2 DEF AcquireSending, Goto
<1>3. ASSUME NEW c \in Calls, Register(c) PROVE PendingInv'
  BY <1>3 DEF Register, Goto, With, Unavailable
<1>4. ASSUME NEW c \in Calls, Reject(c) PROVE PendingInv'
  BY <1>4 DEF Reject, Goto
<1>5. ASSUME NEW c \in Calls, Prepare(c) PROVE PendingInv'
  BY <1>5 DEF Prepare, Goto
<1>6. ASSUME NEW c \in Calls, WriteHeader(c) PROVE PendingInv'
  BY <1>6 DEF WriteHeader, Goto
<1>7. ASSUME NEW c \in Calls, Write(c) PROVE PendingInv'
  BY <1>7 DEF Write, Goto, AfterSend
<1>8. ASSUME NEW c \in Calls, WriteFails(c) PROVE PendingInv'
  BY <1>8 DEF WriteFails, Goto
<1>9. ASSUME NEW c \in Calls, Unregister(c) PROVE PendingInv'
  <2>1. CASE UnregisterTakes(c)
    BY <2>1 DEF UnregisterTakes
  <2>2. CASE UnregisterFinds(c)
    BY <2>2 DEF UnregisterFinds
  <2>3. QED
    BY <1>9, <2>1, <2>2, UnregisterOutcome
<1>10. ASSUME NEW c \in Calls, Notify(c) PROVE PendingInv'
  BY <1>10 DEF Notify, Goto, AfterSend, Done, HasRoom
<1>11. ASSUME NEW c \in Calls, Return(c) PROVE PendingInv'
  BY <1>11 DEF Return, Goto
<1>12. ASSUME NEW c \in Calls, Cancel(c) PROVE PendingInv'
  BY <1>12 DEF Cancel, Goto, RemoveCall, Without
<1>13. CASE ReadHeader
  BY <1>13 DEF ReadHeader
<1>14. CASE ReadHeaderFails
  BY <1>14 DEF ReadHeaderFails
<1>15. CASE TakeCall
  BY <1>15 DEF TakeCall, RemoveCall, Without, Lookup
<1>16. CASE DiscardBody
  BY <1>16 DEF DiscardBody
<1>17. CASE ReadError
  BY <1>17 DEF ReadError
<1>18. CASE ReadReply
  BY <1>18 DEF ReadReply
<1>19. CASE ReadReplyFails
  BY <1>19 DEF ReadReplyFails
<1>20. CASE Deliver
  BY <1>20 DEF Deliver, Done, HasRoom
<1>21. CASE TerminateLockSending
  BY <1>21 DEF TerminateLockSending
<1>22. CASE TerminateShutdown
  BY <1>22 DEF TerminateShutdown
<1>23. ASSUME NEW s \in todo, TerminateCall(s) PROVE PendingInv'
  BY <1>23 DEF TerminateCall, Done, HasRoom
<1>24. CASE TerminateReturn
  BY <1>24 DEF TerminateReturn
<1>25. CASE UNCHANGED <<pc, seqOf, pending, hand, rpc, ndone>>
  BY <1>25
<1>26. QED
  BY <1>1, <1>2, <1>3, <1>4, <1>5, <1>6, <1>7, <1>8, <1>9, <1>10, <1>11,
      <1>12, <1>13, <1>14, <1>15, <1>16, <1>17, <1>18, <1>19, <1>20, <1>21,
      <1>22, <1>23, <1>24, <1>25
    DEF Next, Send, Receive, Terminate, Peer, Quiescent, vars, Close,
      PeerClose, Consume, Answer

\* The call the receiver holds is its own to deliver.
LEMMA HandStep ==
  ASSUME TypeOK, TypeOK', LockInv, SeqInv, PendingInv, HandInv, DrainInv,
         OnceInv, [Next]_vars
  PROVE  HandInv'
<1> USE ClientAssumption DEF TypeOK, CallTypes, ClientTypes, NetTypes,
      RecvTypes, LockInv, SeqInv, PendingInv, HandInv, DrainInv, OnceInv,
      Fresh, Writing, Holding, callVars, clientVars, netVars, recvVars
<1>1. ASSUME NEW c \in Calls, Invoke(c) PROVE HandInv'
  BY <1>1 DEF Invoke, Goto
<1>2. ASSUME NEW c \in Calls, AcquireSending(c) PROVE HandInv'
  BY <1>2 DEF AcquireSending, Goto
<1>3. ASSUME NEW c \in Calls, Register(c) PROVE HandInv'
  BY <1>3 DEF Register, Goto, With, Unavailable
<1>4. ASSUME NEW c \in Calls, Reject(c) PROVE HandInv'
  BY <1>4 DEF Reject, Goto
<1>5. ASSUME NEW c \in Calls, Prepare(c) PROVE HandInv'
  BY <1>5 DEF Prepare, Goto
<1>6. ASSUME NEW c \in Calls, WriteHeader(c) PROVE HandInv'
  BY <1>6 DEF WriteHeader, Goto
<1>7. ASSUME NEW c \in Calls, Write(c) PROVE HandInv'
  BY <1>7 DEF Write, Goto, AfterSend
<1>8. ASSUME NEW c \in Calls, WriteFails(c) PROVE HandInv'
  BY <1>8 DEF WriteFails, Goto
<1>9. ASSUME NEW c \in Calls, Unregister(c) PROVE HandInv'
  <2>1. CASE UnregisterTakes(c)
    BY <2>1 DEF UnregisterTakes
  <2>2. CASE UnregisterFinds(c)
    BY <2>2 DEF UnregisterFinds
  <2>3. QED
    BY <1>9, <2>1, <2>2, UnregisterOutcome
<1>10. ASSUME NEW c \in Calls, Notify(c) PROVE HandInv'
  BY <1>10 DEF Notify, Goto, AfterSend, Done, HasRoom
<1>11. ASSUME NEW c \in Calls, Return(c) PROVE HandInv'
  BY <1>11 DEF Return, Goto
<1>12. ASSUME NEW c \in Calls, Cancel(c) PROVE HandInv'
  BY <1>12 DEF Cancel, Goto, RemoveCall, Without
<1>13. CASE ReadHeader
  BY <1>13 DEF ReadHeader
<1>14. CASE ReadHeaderFails
  BY <1>14 DEF ReadHeaderFails
<1>15. CASE TakeCall
  BY <1>15 DEF TakeCall, RemoveCall, Without, Lookup
<1>16. CASE DiscardBody
  BY <1>16 DEF DiscardBody
<1>17. CASE ReadError
  BY <1>17 DEF ReadError
<1>18. CASE ReadReply
  BY <1>18 DEF ReadReply
<1>19. CASE ReadReplyFails
  BY <1>19 DEF ReadReplyFails
<1>20. CASE Deliver
  BY <1>20 DEF Deliver, Done, HasRoom
<1>21. CASE TerminateLockSending
  BY <1>21 DEF TerminateLockSending
<1>22. CASE TerminateShutdown
  BY <1>22 DEF TerminateShutdown
<1>23. ASSUME NEW s \in todo, TerminateCall(s) PROVE HandInv'
  BY <1>23 DEF TerminateCall, Done, HasRoom
<1>24. CASE TerminateReturn
  BY <1>24 DEF TerminateReturn
<1>25. CASE UNCHANGED <<pc, seqOf, hand, rpc, ndone>>
  BY <1>25
<1>26. QED
  BY <1>1, <1>2, <1>3, <1>4, <1>5, <1>6, <1>7, <1>8, <1>9, <1>10, <1>11,
      <1>12, <1>13, <1>14, <1>15, <1>16, <1>17, <1>18, <1>19, <1>20, <1>21,
      <1>22, <1>23, <1>24, <1>25
    DEF Next, Send, Receive, Terminate, Peer, Quiescent, vars, Close,
      PeerClose, Consume, Answer

\* terminateCalls delivers each pending call once, and nothing is added to
\* pending meanwhile.
LEMMA DrainStep ==
  ASSUME TypeOK, TypeOK', LockInv, SeqInv, PendingInv, HandInv, DrainInv,
         OnceInv, [Next]_vars
  PROVE  DrainInv'
<1> USE ClientAssumption DEF TypeOK, CallTypes, ClientTypes, NetTypes,
      RecvTypes, LockInv, SeqInv, PendingInv, HandInv, DrainInv, OnceInv,
      Fresh, Writing, Holding, MuFree, callVars, clientVars, netVars, recvVars
<1>1. ASSUME NEW c \in Calls, Register(c) PROVE DrainInv'
  BY <1>1 DEF Register, Goto, With, Unavailable
<1>2. ASSUME NEW c \in Calls, Unregister(c) PROVE DrainInv'
  <2>1. CASE UnregisterTakes(c)
    BY <2>1 DEF UnregisterTakes
  <2>2. CASE UnregisterFinds(c)
    BY <2>2 DEF UnregisterFinds
  <2>3. QED
    BY <1>2, <2>1, <2>2, UnregisterOutcome
<1>3. ASSUME NEW c \in Calls, Notify(c) PROVE DrainInv'
  BY <1>3 DEF Notify, Goto, AfterSend, Done, HasRoom
<1>4. ASSUME NEW c \in Calls, Cancel(c) PROVE DrainInv'
  BY <1>4 DEF Cancel, Goto, RemoveCall, Without
<1>5. CASE ReadHeader
  BY <1>5 DEF ReadHeader
<1>6. CASE ReadHeaderFails
  BY <1>6 DEF ReadHeaderFails
<1>7. CASE TakeCall
  BY <1>7 DEF TakeCall, RemoveCall, Without, Lookup
<1>8. CASE DiscardBody
  BY <1>8 DEF DiscardBody
<1>9. CASE ReadError
  BY <1>9 DEF ReadError
<1>10. CASE ReadReply
  BY <1>10 DEF ReadReply
<1>11. CASE ReadReplyFails
  BY <1>11 DEF ReadReplyFails
<1>12. CASE Deliver
  BY <1>12 DEF Deliver, Done, HasRoom
<1>13. CASE TerminateLockSending
  BY <1>13 DEF TerminateLockSending
<1>14. CASE TerminateShutdown
  BY <1>14 DEF TerminateShutdown
<1>15. ASSUME NEW s \in todo, TerminateCall(s) PROVE DrainInv'
  BY <1>15 DEF TerminateCall, Done, HasRoom
<1>16. CASE TerminateReturn
  BY <1>16 DEF TerminateReturn
<1>17. CASE UNCHANGED <<rpc, todo, pending, ndone>>
  BY <1>17
<1>18. QED
  BY <1>1, <1>2, <1>3, <1>4, <1>5, <1>6, <1>7, <1>8, <1>9, <1>10, <1>11,
      <1>12, <1>13, <1>14, <1>15, <1>16, <1>17
    DEF Next, Send, Receive, Terminate, Peer, Quiescent, vars, Invoke,
      AcquireSending, Reject, Prepare, WriteHeader, Write, WriteFails, Return,
      Close, PeerClose, Consume, Answer, Goto

\* Nobody delivers a call that has been delivered.
LEMMA OnceStep ==
  ASSUME TypeOK, TypeOK', LockInv, SeqInv, PendingInv, HandInv, DrainInv,
         OnceInv, [Next]_vars
  PROVE  OnceInv'
<1> USE ClientAssumption DEF TypeOK, CallTypes, ClientTypes, NetTypes,
      RecvTypes, LockInv, SeqInv, PendingInv, HandInv, DrainInv, OnceInv,
      Fresh, Writing, Holding, AtMostOnce, callVars, clientVars, netVars,
      recvVars
<1>1. ASSUME NEW c \in Calls, Invoke(c) PROVE OnceInv'
  BY <1>1 DEF Invoke, Goto
<1>2. ASSUME NEW c \in Calls, AcquireSending(c) PROVE OnceInv'
  BY <1>2 DEF AcquireSending, Goto
<1>3. ASSUME NEW c \in Calls, Register(c) PROVE OnceInv'
  BY <1>3 DEF Register, Goto, With, Unavailable
<1>4. ASSUME NEW c \in Calls, Reject(c) PROVE OnceInv'
  BY <1>4 DEF Reject, Goto
<1>5. ASSUME NEW c \in Calls, Prepare(c) PROVE OnceInv'
  BY <1>5 DEF Prepare, Goto
<1>6. ASSUME NEW c \in Calls, WriteHeader(c) PROVE OnceInv'
  BY <1>6 DEF WriteHeader, Goto
<1>7. ASSUME NEW c \in Calls, Write(c) PROVE OnceInv'
  BY <1>7 DEF Write, Goto, AfterSend
<1>8. ASSUME NEW c \in Calls, WriteFails(c) PROVE OnceInv'
  BY <1>8 DEF WriteFails, Goto
<1>9. ASSUME NEW c \in Calls, Unregister(c) PROVE OnceInv'
  <2>1. CASE UnregisterTakes(c)
    BY <2>1 DEF UnregisterTakes
  <2>2. CASE UnregisterFinds(c)
    BY <2>2 DEF UnregisterFinds
  <2>3. QED
    BY <1>9, <2>1, <2>2, UnregisterOutcome
<1>10. ASSUME NEW c \in Calls, Notify(c) PROVE OnceInv'
  BY <1>10 DEF Notify, Goto, AfterSend, Done, HasRoom
<1>11. ASSUME NEW c \in Calls, Return(c) PROVE OnceInv'
  <2>1. pc' = [pc EXCEPT ![c] = "returned"] /\ UNCHANGED <<seqOf, error, reply, ndone, pending, rpc, hand>>
    BY <1>11 DEF Return, Goto
  <2>2. pc[c] = "select"
    BY <1>11 DEF Return
  <2>3. QED
    BY <2>1, <2>2
<1>12. ASSUME NEW c \in Calls, Cancel(c) PROVE OnceInv'
  BY <1>12 DEF Cancel, Goto, RemoveCall, Without
<1>13. CASE Deliver
  BY <1>13 DEF Deliver, Done, HasRoom
<1>14. ASSUME NEW s \in todo, TerminateCall(s) PROVE OnceInv'
  BY <1>14 DEF TerminateCall, Done, HasRoom
<1>15. CASE UNCHANGED <<pc, ndone>>
  BY <1>15
<1>16. QED
  BY <1>1, <1>2, <1>3, <1>4, <1>5, <1>6, <1>7, <1>8, <1>9, <1>10, <1>11,
      <1>12, <1>13, <1>14, <1>15
    DEF Next, Send, Receive, Terminate, Peer, Quiescent, vars, ReadHeader,
      ReadHeaderFails, TakeCall, DiscardBody, ReadError, ReadReply,
      ReadReplyFails, TerminateLockSending, TerminateShutdown,
      TerminateReturn, Close, PeerClose, Consume, Answer, RemoveCall

\* An issued call is never forgotten.
LEMMA ReachStep ==
  ASSUME TypeOK, TypeOK', LockInv, SeqInv, PendingInv, HandInv, DrainInv,
         OnceInv, ReachInv, [Next]_vars
  PROVE  ReachInv'
<1> USE ClientAssumption DEF TypeOK, CallTypes, ClientTypes, NetTypes,
      RecvTypes, LockInv, SeqInv, PendingInv, HandInv, DrainInv, OnceInv,
      Fresh, Writing, Holding, ReachInv, callVars, clientVars, netVars,
      recvVars
<1>1. ASSUME NEW c \in Calls, Invoke(c) PROVE ReachInv'
  BY <1>1 DEF Invoke, Goto
<1>2. ASSUME NEW c \in Calls, AcquireSending(c) PROVE ReachInv'
  BY <1>2 DEF AcquireSending, Goto
<1>3. ASSUME NEW c \in Calls, Register(c) PROVE ReachInv'
  BY <1>3 DEF Register, Goto, With, Unavailable
<1>4. ASSUME NEW c \in Calls, Reject(c) PROVE ReachInv'
  BY <1>4 DEF Reject, Goto
<1>5. ASSUME NEW c \in Calls, Prepare(c) PROVE ReachInv'
  BY <1>5 DEF Prepare, Goto
<1>6. ASSUME NEW c \in Calls, WriteHeader(c) PROVE ReachInv'
  BY <1>6 DEF WriteHeader, Goto
<1>7. ASSUME NEW c \in Calls, Write(c) PROVE ReachInv'
  BY <1>7 DEF Write, Goto, AfterSend
<1>8. ASSUME NEW c \in Calls, WriteFails(c) PROVE ReachInv'
  BY <1>8 DEF WriteFails, Goto
<1>9. ASSUME NEW c \in Calls, Unregister(c) PROVE ReachInv'
  <2>1. CASE UnregisterTakes(c)
    BY <2>1 DEF UnregisterTakes
  <2>2. CASE UnregisterFinds(c)
    BY <2>2 DEF UnregisterFinds
  <2>3. QED
    BY <1>9, <2>1, <2>2, UnregisterOutcome
<1>10. ASSUME NEW c \in Calls, Notify(c) PROVE ReachInv'
  BY <1>10 DEF Notify, Goto, AfterSend, Done, HasRoom
<1>11. ASSUME NEW c \in Calls, Return(c) PROVE ReachInv'
  BY <1>11 DEF Return, Goto
<1>12. ASSUME NEW c \in Calls, Cancel(c) PROVE ReachInv'
  BY <1>12 DEF Cancel, Goto, RemoveCall, Without
<1>13. CASE TakeCall
  BY <1>13 DEF TakeCall, RemoveCall, Without, Lookup
<1>14. CASE Deliver
  BY <1>14 DEF Deliver, Done, HasRoom
<1>15. ASSUME NEW s \in todo, TerminateCall(s) PROVE ReachInv'
  BY <1>15 DEF TerminateCall, Done, HasRoom
<1>16. CASE UNCHANGED <<pc, seqOf, pending, hand, ndone>>
  BY <1>16
<1>17. QED
  BY <1>1, <1>2, <1>3, <1>4, <1>5, <1>6, <1>7, <1>8, <1>9, <1>10, <1>11,
      <1>12, <1>13, <1>14, <1>15, <1>16
    DEF Next, Send, Receive, Terminate, Peer, Quiescent, vars, ReadHeader,
      ReadHeaderFails, DiscardBody, ReadError, ReadReply, ReadReplyFails,
      TerminateLockSending, TerminateShutdown, TerminateReturn, Close,
      PeerClose, Consume, Answer

\* Only its own call is ever sent on Client.Call's channel.
LEMMA ChanStep ==
  ASSUME TypeOK, TypeOK', ChanInv, [Next]_vars
  PROVE  ChanInv'
<1> USE ClientAssumption DEF TypeOK, CallTypes, ClientTypes, NetTypes,
      RecvTypes, ChanInv, Sync, callVars, clientVars, netVars, recvVars
<1>1. ASSUME NEW c \in Calls, Notify(c) PROVE ChanInv'
  BY <1>1 DEF Notify, Goto, AfterSend, Done, HasRoom
<1>2. ASSUME NEW c \in Calls, Return(c) PROVE ChanInv'
  BY <1>2 DEF Return, Goto
<1>3. CASE Deliver
  BY <1>3 DEF Deliver, Done, HasRoom
<1>4. ASSUME NEW s \in todo, TerminateCall(s) PROVE ChanInv'
  BY <1>4 DEF TerminateCall, Done, HasRoom
<1>5. ASSUME NEW ch \in Chans, Consume(ch) PROVE ChanInv'
  BY <1>5 DEF Consume
<1>6. CASE UNCHANGED <<chan, ndone>>
  BY <1>6
<1>7. QED
  BY <1>1, <1>2, <1>3, <1>4, <1>5, <1>6
    DEF Next, Send, Receive, Terminate, Peer, Quiescent, vars, Invoke,
      AcquireSending, Register, Reject, Prepare, WriteHeader, Write,
      WriteFails, Unregister, Cancel, ReadHeader, ReadHeaderFails, TakeCall,
      DiscardBody, ReadError, ReadReply, ReadReplyFails, TerminateLockSending,
      TerminateShutdown, TerminateReturn, Close, PeerClose, Answer, Goto,
      RemoveCall

\* A call keeps its sequence number.
LEMMA SeqOfStable ==
  ASSUME TypeOK, SeqInv, [Next]_vars
  PROVE  \A c \in Calls : seqOf[c] # 0 => seqOf'[c] = seqOf[c]
<1>1. CASE \E c \in Calls : Register(c)
  BY <1>1 DEF Register, SeqInv, Fresh, TypeOK, CallTypes
<1>2. CASE UNCHANGED seqOf
  BY <1>2
<1>3. QED
  BY <1>1, <1>2
    DEF Next, Send, Receive, Terminate, Peer, Quiescent, vars, Invoke,
      AcquireSending, Reject, Prepare, WriteHeader, Write, WriteFails,
      Unregister, Notify, Return, Cancel, ReadHeader, ReadHeaderFails,
      TakeCall, DiscardBody, ReadError, ReadReply, ReadReplyFails, Deliver,
      TerminateLockSending, TerminateShutdown, TerminateCall, TerminateReturn,
      Close, PeerClose, Consume, Answer, callVars, clientVars, netVars,
      recvVars

\* Hence what a message belongs to does not change either.
LEMMA MatchesStable ==
  ASSUME TypeOK, SeqInv, [Next]_vars, NEW m, Matches(m)
  PROVE  Matches(m)'
BY SeqOfStable DEF Matches

\* The shared header is not touched while a caller writes it.
LEMMA HeaderStep ==
  ASSUME TypeOK, TypeOK', LockInv, SeqInv, HeaderInv, [Next]_vars
  PROVE  HeaderInv'
<1> USE ClientAssumption DEF TypeOK, CallTypes, ClientTypes, NetTypes,
      RecvTypes, LockInv, Holding, HeaderInv, callVars, clientVars, netVars,
      recvVars
<1>1. ASSUME NEW c \in Calls, Invoke(c) PROVE HeaderInv'
  BY <1>1 DEF Invoke, Goto
<1>2. ASSUME NEW c \in Calls, AcquireSending(c) PROVE HeaderInv'
  BY <1>2 DEF AcquireSending, Goto
<1>3. ASSUME NEW c \in Calls, Register(c) PROVE HeaderInv'
  BY <1>3 DEF Register, Goto, With, Unavailable
<1>4. ASSUME NEW c \in Calls, Reject(c) PROVE HeaderInv'
  BY <1>4 DEF Reject, Goto
<1>5. ASSUME NEW c \in Calls, Prepare(c) PROVE HeaderInv'
  BY <1>5 DEF Prepare, Goto
<1>6. ASSUME NEW c \in Calls, WriteHeader(c) PROVE HeaderInv'
  BY <1>6 DEF WriteHeader, Goto
<1>7. ASSUME NEW c \in Calls, Write(c) PROVE HeaderInv'
  BY <1>7 DEF Write, Goto, AfterSend
<1>8. ASSUME NEW c \in Calls, WriteFails(c) PROVE HeaderInv'
  BY <1>8 DEF WriteFails, Goto
<1>9. ASSUME NEW c \in Calls, Unregister(c) PROVE HeaderInv'
  <2>1. CASE UnregisterTakes(c)
    BY <2>1 DEF UnregisterTakes
  <2>2. CASE UnregisterFinds(c)
    BY <2>2 DEF UnregisterFinds
  <2>3. QED
    BY <1>9, <2>1, <2>2, UnregisterOutcome
<1>10. ASSUME NEW c \in Calls, Notify(c) PROVE HeaderInv'
  BY <1>10 DEF Notify, Goto, AfterSend, Done, HasRoom
<1>11. ASSUME NEW c \in Calls, Return(c) PROVE HeaderInv'
  BY <1>11 DEF Return, Goto
<1>12. ASSUME NEW c \in Calls, Cancel(c) PROVE HeaderInv'
  BY <1>12 DEF Cancel, Goto, RemoveCall, Without
<1>13. CASE UNCHANGED <<pc, header, seqOf>>
  BY <1>13
<1>14. QED
  BY <1>1, <1>2, <1>3, <1>4, <1>5, <1>6, <1>7, <1>8, <1>9, <1>10, <1>11,
      <1>12, <1>13
    DEF Next, Send, Receive, Terminate, Peer, Quiescent, vars, ReadHeader,
      ReadHeaderFails, TakeCall, DiscardBody, ReadError, ReadReply,
      ReadReplyFails, Deliver, TerminateLockSending, TerminateShutdown,
      TerminateCall, TerminateReturn, Close, PeerClose, Consume, Answer, Done,
      HasRoom, RemoveCall

\* Every request carries the number of its own call.
LEMMA RequestsStep ==
  ASSUME TypeOK, TypeOK', LockInv, SeqInv, HeaderInv, RequestsInv, [Next]_vars
  PROVE  RequestsInv'
<1> USE MatchesStable DEF RequestsInv, callVars, clientVars, netVars, recvVars
<1>1. ASSUME NEW c \in Calls, WriteHeader(c) PROVE RequestsInv'
  <2>1. seqOf[c] # 0 /\ header = [seq |-> seqOf[c], method |-> c]
    BY <1>1 DEF WriteHeader, HeaderInv, SeqInv, Writing
  <2>2. Matches([seq |-> header.seq, of |-> <<header.method, c>>])
    BY <2>1 DEF Matches
  <2>3. QED
    BY <1>1, <2>2 DEF WriteHeader
<1>2. ASSUME NEW m \in requests, NEW kind \in Kinds, Answer(m, kind) PROVE RequestsInv'
  BY <1>2 DEF Answer
<1>3. CASE UNCHANGED <<requests>>
  BY <1>3
<1>4. QED
  BY <1>1, <1>2, <1>3
    DEF Next, Send, Receive, Terminate, Peer, Quiescent, vars, Invoke,
      AcquireSending, Register, Reject, Prepare, Write, WriteFails,
      Unregister, Notify, Return, Cancel, ReadHeader, ReadHeaderFails,
      TakeCall, DiscardBody, ReadError, ReadReply, ReadReplyFails, Deliver,
      TerminateLockSending, TerminateShutdown, TerminateCall, TerminateReturn,
      Close, PeerClose, Consume, Done, Goto, HasRoom, RemoveCall

\* Every response in flight carries the number of its own call.
LEMMA InboundStep ==
  ASSUME TypeOK, TypeOK', LockInv, SeqInv, RequestsInv, InboundInv,
         [Next]_vars
  PROVE  InboundInv'
<1> USE MatchesStable DEF InboundInv, callVars, clientVars, netVars, recvVars
<1>1. CASE ReadHeader
  <2>1. inbound \in Seq(Response) /\ inbound' = Tail(inbound) /\ inbound # <<>>
    BY <1>1 DEF ReadHeader, TypeOK, NetTypes
  <2>2. \A i \in DOMAIN inbound' : i + 1 \in DOMAIN inbound /\ inbound'[i] = inbound[i + 1]
    BY <2>1
  <2>3. QED
    BY <2>2
<1>2. ASSUME NEW m \in requests, NEW kind \in Kinds, Answer(m, kind) PROVE InboundInv'
  <2> DEFINE r == [seq |-> m.seq, kind |-> kind, of |-> m.of]
  <2>1. Matches(r)
    BY <1>2 DEF RequestsInv, Matches
  <2>2. inbound \in Seq(Response) /\ inbound' = Append(inbound, r)
    BY <1>2 DEF Answer, TypeOK, NetTypes
  <2>3. \A i \in DOMAIN inbound' : inbound'[i] = r \/ (i \in DOMAIN inbound /\ inbound'[i] = inbound[i])
    BY <2>2
  <2>4. QED
    BY <2>1, <2>3
<1>3. CASE UNCHANGED <<inbound>>
  BY <1>3
<1>4. QED
  BY <1>1, <1>2, <1>3
    DEF Next, Send, Receive, Terminate, Peer, Quiescent, vars, Invoke,
      AcquireSending, Register, Reject, Prepare, WriteHeader, Write,
      WriteFails, Unregister, Notify, Return, Cancel, ReadHeaderFails,
      TakeCall, DiscardBody, ReadError, ReadReply, ReadReplyFails, Deliver,
      TerminateLockSending, TerminateShutdown, TerminateCall, TerminateReturn,
      Close, PeerClose, Consume, Done, Goto, HasRoom, RemoveCall

\* The response being processed belongs to the call in the receiver's hands.
LEMMA HdrStep ==
  ASSUME TypeOK, TypeOK', LockInv, SeqInv, PendingInv, HandInv, InboundInv,
         HdrInv, [Next]_vars
  PROVE  HdrInv'
<1> USE ClientAssumption, MatchesStable DEF TypeOK, CallTypes, ClientTypes,
      NetTypes, RecvTypes, HdrInv, SeqInv, HandInv, callVars, clientVars,
      netVars, recvVars
<1>1. ASSUME NEW c \in Calls, Register(c) PROVE HdrInv'
  <2>1. seqOf' = [seqOf EXCEPT ![c] = seq] /\ seqOf[c] = 0 /\ UNCHANGED <<rpc, hdr, hand>>
    BY <1>1 DEF Register, Fresh
  <2>2. QED
    BY <2>1
<1>2. CASE ReadHeader
  <2>1. inbound \in Seq(Response) /\ inbound # <<>> /\ hdr' = inbound[1]
    BY <1>2 DEF ReadHeader
  <2>2. Matches(inbound[1])
    BY <2>1 DEF InboundInv
  <2>3. Matches(hdr)'
    BY <2>1, <2>2, SeqOfStable DEF Matches
  <2>4. hand' = None
    BY <1>2 DEF ReadHeader, HandInv
  <2>5. QED
    BY <2>3, <2>4
<1>3. CASE ReadHeaderFails
  BY <1>3 DEF ReadHeaderFails
<1>4. CASE TakeCall
  <2>1. hdr' = hdr /\ seqOf' = seqOf /\ rpc = "lookup" /\ rpc' = "body"
    BY <1>4 DEF TakeCall
  <2>2. hand' # None => hdr.seq \in DOMAIN pending /\ hand' = pending[hdr.seq]
    BY <1>4 DEF TakeCall, Lookup
  <2>3. hand' # None => hdr'.seq = seqOf'[hand']
    BY <2>1, <2>2 DEF PendingInv
  <2>4. QED
    BY <2>1, <2>3
<1>5. CASE DiscardBody
  BY <1>5 DEF DiscardBody
<1>6. CASE ReadError
  BY <1>6 DEF ReadError
<1>7. CASE ReadReply
  BY <1>7 DEF ReadReply
<1>8. CASE ReadReplyFails
  BY <1>8 DEF ReadReplyFails
<1>9. CASE Deliver
  BY <1>9 DEF Deliver, Done, HasRoom
<1>10. CASE TerminateLockSending
  BY <1>10 DEF TerminateLockSending
<1>11. CASE TerminateShutdown
  BY <1>11 DEF TerminateShutdown
<1>12. CASE TerminateReturn
  BY <1>12 DEF TerminateReturn
<1>13. CASE UNCHANGED <<rpc, hdr, hand, seqOf>>
  BY <1>13
<1>14. QED
  BY <1>1, <1>2, <1>3, <1>4, <1>5, <1>6, <1>7, <1>8, <1>9, <1>10, <1>11,
      <1>12, <1>13
    DEF Next, Send, Receive, Terminate, Peer, Quiescent, vars, Invoke,
      AcquireSending, Reject, Prepare, WriteHeader, Write, WriteFails,
      Unregister, Notify, Return, Cancel, TerminateCall, Close, PeerClose,
      Consume, Answer, Done, Goto, HasRoom, RemoveCall

\* What a completed call holds.
LEMMA OutcomeStep ==
  ASSUME TypeOK, TypeOK', LockInv, SeqInv, PendingInv, HandInv, DrainInv,
         OnceInv, HdrInv, OutcomeInv, [Next]_vars
  PROVE  OutcomeInv'
<1> USE ClientAssumption DEF TypeOK, CallTypes, ClientTypes, NetTypes,
      RecvTypes, LockInv, SeqInv, PendingInv, HandInv, DrainInv, OnceInv,
      Fresh, Writing, Holding, HdrInv, OutcomeInv, OwnReply, callVars,
      clientVars, netVars, recvVars
<1>1. ASSUME NEW c \in Calls, Invoke(c) PROVE OutcomeInv'
  BY <1>1 DEF Invoke, Goto
<1>2. ASSUME NEW c \in Calls, AcquireSending(c) PROVE OutcomeInv'
  BY <1>2 DEF AcquireSending, Goto
<1>3. ASSUME NEW c \in Calls, Register(c) PROVE OutcomeInv'
  BY <1>3 DEF Register, Goto, With, Unavailable
<1>4. ASSUME NEW c \in Calls, Reject(c) PROVE OutcomeInv'
  BY <1>4 DEF Reject, Goto
<1>5. ASSUME NEW c \in Calls, Prepare(c) PROVE OutcomeInv'
  BY <1>5 DEF Prepare, Goto
<1>6. ASSUME NEW c \in Calls, WriteHeader(c) PROVE OutcomeInv'
  BY <1>6 DEF WriteHeader, Goto
<1>7. ASSUME NEW c \in Calls, Write(c) PROVE OutcomeInv'
  BY <1>7 DEF Write, Goto, AfterSend
<1>8. ASSUME NEW c \in Calls, WriteFails(c) PROVE OutcomeInv'
  BY <1>8 DEF WriteFails, Goto
<1>9. ASSUME NEW c \in Calls, Unregister(c) PROVE OutcomeInv'
  <2>1. CASE UnregisterTakes(c)
    BY <2>1 DEF UnregisterTakes
  <2>2. CASE UnregisterFinds(c)
    BY <2>2 DEF UnregisterFinds
  <2>3. QED
    BY <1>9, <2>1, <2>2, UnregisterOutcome
<1>10. ASSUME NEW c \in Calls, Notify(c) PROVE OutcomeInv'
  BY <1>10 DEF Notify, Goto, AfterSend, Done, HasRoom
<1>11. ASSUME NEW c \in Calls, Return(c) PROVE OutcomeInv'
  <2>1. pc' = [pc EXCEPT ![c] = "returned"] /\ UNCHANGED <<seqOf, error, reply, ndone, pending, rpc, hand>>
    BY <1>11 DEF Return, Goto
  <2>2. pc[c] = "select"
    BY <1>11 DEF Return
  <2>3. QED
    BY <2>1, <2>2
<1>12. ASSUME NEW c \in Calls, Cancel(c) PROVE OutcomeInv'
  BY <1>12 DEF Cancel, Goto, RemoveCall, Without
<1>13. CASE ReadHeader
  BY <1>13 DEF ReadHeader
<1>14. CASE ReadHeaderFails
  BY <1>14 DEF ReadHeaderFails
<1>15. CASE TakeCall
  BY <1>15 DEF TakeCall, RemoveCall, Without, Lookup
<1>16. CASE DiscardBody
  BY <1>16 DEF DiscardBody
<1>17. CASE ReadError
  BY <1>17 DEF ReadError
<1>18. CASE ReadReply
  <2>1. hand \in Calls /\ rpc = "body" /\ rpc' = "done"
    BY <1>18 DEF ReadReply
  <2>2. reply' = [reply EXCEPT ![hand] = hdr.of] /\ UNCHANGED <<pc, error, hand, ndone>>
    BY <1>18 DEF ReadReply
  <2>3. hdr.of = <<hand, hand>>
    <3>1. Matches(hdr) /\ hdr.seq = seqOf[hand]
      BY <2>1
    <3>2. QED
      BY <2>1, <3>1 DEF Matches
  <2>4. ndone[hand] = 0
    BY <2>1
  <2>5. QED
    BY <2>1, <2>2, <2>3, <2>4
<1>19. CASE ReadReplyFails
  BY <1>19 DEF ReadReplyFails
<1>20. CASE Deliver
  <2>1. hand \in Calls /\ rpc = "done"
    BY <1>20 DEF Deliver
  <2>2. ndone' = [ndone EXCEPT ![hand] = @ + 1] /\ hand' = None /\ UNCHANGED <<pc, error, reply>>
    BY <1>20 DEF Deliver, Done
  <2>3. rpc' # "done"
    BY <1>20 DEF Deliver
  <2>4. ASSUME NEW d \in Calls, ndone'[d] > 0, error'[d] = "nil"
        PROVE  reply'[d] = <<d, d>>
    <3>1. CASE d = hand
      BY <2>1, <2>2, <2>4, <3>1
    <3>2. CASE d # hand
      BY <2>1, <2>2, <2>4, <3>2
    <3>3. QED
      BY <3>1, <3>2
  <2>5. QED
    BY <2>2, <2>3, <2>4
<1>21. CASE TerminateLockSending
  BY <1>21 DEF TerminateLockSending
<1>22. CASE TerminateShutdown
  BY <1>22 DEF TerminateShutdown
<1>23. ASSUME NEW s \in todo, TerminateCall(s) PROVE OutcomeInv'
  BY <1>23 DEF TerminateCall, Done, HasRoom
<1>24. CASE TerminateReturn
  BY <1>24 DEF TerminateReturn
<1>25. CASE UNCHANGED <<pc, error, rpc, hand, reply, ndone>>
  BY <1>25
<1>26. QED
  BY <1>1, <1>2, <1>3, <1>4, <1>5, <1>6, <1>7, <1>8, <1>9, <1>10, <1>11,
      <1>12, <1>13, <1>14, <1>15, <1>16, <1>17, <1>18, <1>19, <1>20, <1>21,
      <1>22, <1>23, <1>24, <1>25
    DEF Next, Send, Receive, Terminate, Peer, Quiescent, vars, Close,
      PeerClose, Consume, Answer

-----------------------------------------------------------------------------
(* The invariant and the properties it implies *)

\* The inductive invariant holds initially ...
LEMMA IInvInit == Init => IInv
<1> SUFFICES ASSUME Init PROVE IInv
  OBVIOUS
<1> USE ClientAssumption DEF Init
<1>1. TypeOK
  <2>1. CallTypes
    BY DEF CallTypes, Errors
  <2>2. header \in [seq : Nat, method : Calls \cup {None}]
    BY DEF NoHeader
  <2>3. DOMAIN pending \subseteq Nat /\ pending \in [DOMAIN pending -> Calls]
    OBVIOUS
  <2>4. NetTypes
    BY DEF NetTypes
  <2>5. RecvTypes
    BY DEF RecvTypes
  <2>6. ClientTypes
    <3>1. sending \in Calls \cup {None, Receiver} /\ seq \in Nat \ {0}
      BY DEF FirstSeq
    <3>2. closing \in BOOLEAN /\ shutdown \in BOOLEAN
      OBVIOUS
    <3> HIDE DEF Init
    <3>3. QED
      BY <2>2, <2>3, <3>1, <3>2, Zenon DEF ClientTypes
  <2>7. QED
    BY <2>1, <2>4, <2>5, <2>6 DEF TypeOK
<1>2. LockInv /\ SeqInv /\ PendingInv /\ HandInv /\ DrainInv
  BY DEF LockInv, SeqInv, PendingInv, HandInv, DrainInv, FirstSeq, Holding, Writing
<1>3. OnceInv /\ ReachInv /\ ChanInv
  BY DEF OnceInv, AtMostOnce, ReachInv, ChanInv, Fresh, Writing, Sync
<1>4. HeaderInv /\ RequestsInv /\ InboundInv /\ HdrInv /\ OutcomeInv
  BY DEF HeaderInv, RequestsInv, InboundInv, HdrInv, OutcomeInv, OwnReply
<1>5. QED
  BY <1>1, <1>2, <1>3, <1>4 DEF IInv

\* ... and every step preserves it.
LEMMA IInvStep == IInv /\ [Next]_vars => IInv'
<1> SUFFICES ASSUME IInv, [Next]_vars PROVE IInv'
  OBVIOUS
<1>1. TypeOK'
  BY CallTypesStep, ClientTypesStep, NetTypesStep, RecvTypesStep DEF IInv, TypeOK
<1>2. LockInv' /\ SeqInv'
  BY LockStep, SeqStep DEF IInv
<1>3. PendingInv' /\ HandInv' /\ DrainInv' /\ OnceInv' /\ ReachInv'
  BY <1>1, PendingStep, HandStep, DrainStep, OnceStep, ReachStep DEF IInv
<1>4. ChanInv' /\ HeaderInv' /\ RequestsInv' /\ InboundInv'
  BY <1>1, ChanStep, HeaderStep, RequestsStep, InboundStep DEF IInv
<1>5. HdrInv' /\ OutcomeInv'
  BY <1>1, HdrStep, OutcomeStep DEF IInv
<1>6. QED
  BY <1>1, <1>2, <1>3, <1>4, <1>5 DEF IInv

\* The strengthening is an invariant of the client.
THEOREM Invariance == Spec => []IInv
BY IInvInit, IInvStep, PTL DEF Spec

\* The client's fields and the goroutines' program counters keep their types.
THEOREM TypeCorrect == Spec => []TypeOK
<1>1. IInv => TypeOK
  BY DEF IInv
<1>2. QED
  BY <1>1, Invariance, PTL

\* Whatever send, receive, terminateCalls and a cancelled context do, a call is
\* delivered on its Done channel at most once.
THEOREM DeliveredAtMostOnce == Spec => []AtMostOnce
<1>1. IInv => AtMostOnce
  BY DEF IInv, OnceInv
<1>2. QED
  BY <1>1, Invariance, PTL

\* The call that pending holds under the number of c is c.
LEMMA PendingIsOwn ==
  ASSUME IInv, NEW c \in Calls, seqOf[c] \in DOMAIN pending
  PROVE  pending[seqOf[c]] = c
BY DEF IInv, PendingInv, SeqInv, TypeOK, ClientTypes

\* When the receive goroutine has ended, no issued call is left undelivered.
THEOREM NothingLost == Spec => []NoCallLost
<1>1. ASSUME IInv PROVE NoCallLost
  <2> SUFFICES ASSUME rpc = "stopped", NEW c \in Calls, pc[c] \in {"select", "returned"}
               PROVE  ndone[c] = 1
    BY DEF NoCallLost
  <2>1. ndone[c] = 1 \/ hand = c \/ seqOf[c] \in DOMAIN pending
    BY <1>1 DEF IInv, ReachInv
  <2>2. hand # c
    BY <1>1, ClientAssumption DEF IInv, HandInv
  <2>3. CASE seqOf[c] \in DOMAIN pending
    BY <1>1, <2>3, PendingIsOwn DEF IInv, DrainInv
  <2>4. QED
    BY <2>1, <2>2, <2>3
<1>2. QED
  BY <1>1, Invariance, PTL

\* A caller that waits can still be served.
THEOREM WaitersReachable == Spec => []WaitingIsReachable
<1>1. ASSUME IInv PROVE WaitingIsReachable
  <2> SUFFICES ASSUME NEW c \in Sync, pc[c] = "select", ndone[c] = 0
               PROVE  hand = c \/ \E s \in DOMAIN pending : pending[s] = c
    BY DEF WaitingIsReachable
  <2>1. hand = c \/ seqOf[c] \in DOMAIN pending
    BY <1>1 DEF IInv, ReachInv, Sync
  <2>2. CASE seqOf[c] \in DOMAIN pending
    BY <1>1, <2>2, PendingIsOwn DEF Sync
  <2>3. QED
    BY <2>1, <2>2
<1>2. QED
  BY <1>1, Invariance, PTL

\* A call that ends without error holds its own result.
THEOREM RepliesMatch == Spec => []OwnReply
<1>1. IInv => OwnReply
  BY DEF IInv, OutcomeInv
<1>2. QED
  BY <1>1, Invariance, PTL

\* Whoever delivers a call has not delivered it yet.
LEMMA DeliveringUndelivered ==
  ASSUME IInv, NEW c \in Calls, Delivering(c)
  PROVE  ndone[c] = 0
<1>1. CASE pc[c] = "notify"
  BY <1>1 DEF IInv, OnceInv
<1>2. CASE rpc = "done" /\ hand = c
  BY <1>2, ClientAssumption DEF IInv, HandInv
<1>3. CASE rpc = "drain" /\ c \in {pending[s] : s \in todo}
  BY <1>3 DEF IInv, DrainInv
<1>4. QED
  BY <1>1, <1>2, <1>3 DEF Delivering

\* Delivering a call of Client.Call never blocks, even for a caller that gave up.
THEOREM SyncNeverBlocks == Spec => []SyncDeliveryNeverBlocks
<1>1. ASSUME IInv PROVE SyncDeliveryNeverBlocks
  <2> SUFFICES ASSUME NEW c \in Sync, Delivering(c) PROVE HasRoom(c)
    BY DEF SyncDeliveryNeverBlocks
  <2>1. ndone[c] = 0
    BY <1>1, DeliveringUndelivered DEF Sync
  <2>2. chan[DoneChan[c]] = <<>>
    BY <1>1, <2>1 DEF IInv, ChanInv
  <2>3. Cap[DoneChan[c]] \in Nat \ {0}
    BY ClientAssumption DEF Sync
  <2>4. QED
    BY <2>2, <2>3 DEF HasRoom
<1>2. QED
  BY <1>1, Invariance, PTL

\* A delivered call is not written again.
THEOREM ResultsAreFinal == Spec => ResultFinal
<1> DEFINE Final == \A c \in Calls : ndone[c] > 0 =>
                      /\ error'[c] = error[c]
                      /\ reply'[c] = reply[c]
<1>1. ASSUME IInv, [Next]_vars PROVE Final
  <2> USE <1>1, ClientAssumption DEF IInv, TypeOK, CallTypes, RecvTypes
  <2>1. ASSUME NEW c \in Calls, Reject(c) PROVE Final
    BY <2>1 DEF Reject, OnceInv, Fresh
  <2>2. ASSUME NEW c \in Calls, Unregister(c) PROVE Final
    <3>1. CASE UnregisterTakes(c)
      <4>1. pending[seqOf[c]] = c
        BY <3>1, PendingIsOwn DEF UnregisterTakes
      <4>2. ndone[c] = 0
        BY <3>1, <4>1 DEF UnregisterTakes, PendingInv, LockInv, Writing
      <4>3. QED
        BY <3>1, <4>2 DEF UnregisterTakes
    <3>2. CASE UnregisterFinds(c)
      BY <3>2 DEF UnregisterFinds
    <3>3. QED
      BY <2>2, <3>1, <3>2, UnregisterOutcome
  <2>3. CASE ReadError \/ ReadReply \/ ReadReplyFails
    <3>1. hand \in Calls /\ ndone[hand] = 0
      BY <2>3 DEF ReadError, ReadReply, ReadReplyFails, HandInv
    <3>2. \A c \in Calls : c # hand => error'[c] = error[c] /\ reply'[c] = reply[c]
      BY <2>3 DEF ReadError, ReadReply, ReadReplyFails
    <3>3. QED
      BY <3>1, <3>2
  <2>4. ASSUME NEW s \in todo, TerminateCall(s) PROVE Final
    <3>1. pending[s] \in Calls /\ ndone[pending[s]] = 0
      BY <2>4 DEF TerminateCall, DrainInv, ClientTypes
    <3>2. error' = [error EXCEPT ![pending[s]] = "broken"] /\ reply' = reply
      BY <2>4 DEF TerminateCall
    <3>3. QED
      BY <3>1, <3>2
  <2>5. CASE UNCHANGED <<error, reply>>
    BY <2>5
  <2>6. QED
    BY <2>1, <2>2, <2>3, <2>4, <2>5
      DEF Next, Send, Receive, Terminate, Peer, Quiescent, vars, Invoke, AcquireSending,
      Register, Prepare, WriteHeader, Write, WriteFails, Notify, Return, Cancel, ReadHeader,
      ReadHeaderFails, TakeCall, DiscardBody, Deliver, TerminateLockSending, TerminateShutdown,
      TerminateReturn, Close, PeerClose, Consume, Answer, callVars, clientVars, netVars, recvVars
<1>2. QED
  BY <1>1, Invariance, PTL DEF Spec, ResultFinal

\* A call whose caller gave up is not picked up by the receiver afterwards.
THEOREM CancelledCallsDetached == Spec => CancelDetaches
<1> DEFINE Detached == \A c \in Calls : pc[c] = "cancelled" /\ hand' = c => hand = c
<1>1. ASSUME IInv, [Next]_vars PROVE Detached
  <2>1. CASE TakeCall
    BY <1>1, <2>1, ClientAssumption DEF TakeCall, Lookup, IInv, PendingInv
  <2>2. CASE Deliver
    BY <2>2, ClientAssumption DEF Deliver
  <2>3. CASE UNCHANGED hand
    BY <2>3
  <2>4. QED
    BY <1>1, <2>1, <2>2, <2>3
      DEF Next, Send, Receive, Terminate, Peer, Quiescent, vars, Invoke, AcquireSending,
      Register, Reject, Prepare, WriteHeader, Write, WriteFails, Unregister, Notify, Return, Cancel,
      ReadHeader, ReadHeaderFails, DiscardBody, ReadError, ReadReply, ReadReplyFails,
      TerminateLockSending, TerminateShutdown, TerminateCall, TerminateReturn, Close, PeerClose,
      Consume, Answer, callVars, clientVars, netVars, recvVars
<1>2. QED
  BY <1>1, Invariance, PTL DEF Spec, CancelDetaches
=============================================================================
