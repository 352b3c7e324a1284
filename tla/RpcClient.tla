----------------------------- MODULE RpcClient -----------------------------
(***************************************************************************)
(* rpcProject/client.go: one Client, i.e. one connection to an RPC server, *)
(* shared by many goroutines.                                              *)
(*                                                                         *)
(* Three kinds of goroutine meet in it: the callers (Client.Call waits,    *)
(* Client.Go does not), which write requests one at a time under the lock  *)
(* "sending"; the receive goroutine, which matches responses to calls by   *)
(* sequence number and, when the connection fails, terminates every call   *)
(* left; and whoever calls Close.  The lock "mu" protects pending, seq,    *)
(* closing and shutdown.  A section under mu is one step here, except the  *)
(* loop of terminateCalls, which can block on a full Done channel while it *)
(* holds mu (and sending): mu is held across steps exactly then.           *)
(*                                                                         *)
(* The peer is a server that answers each request it read at most once, in *)
(* any order, and may drop the connection at any time.                     *)
(***************************************************************************)
EXTENDS Naturals, Sequences, FiniteSets

CONSTANTS
  Calls,      \* one Call record each, and the goroutine that issues it
  Async,      \* the calls issued with Client.Go; the others use Client.Call
  Cancelable, \* the Client.Call calls whose ctx may become done
  BadArgs,    \* calls whose Args the codec cannot encode
  Chans,      \* the Done channels
  DoneChan,   \* DoneChan[c] is the channel of call c
  Cap,        \* Cap[ch] is the buffer size of channel ch
  None,       \* nil *Call, and "no goroutine holds the lock"
  Receiver    \* the goroutine that runs Client.receive

Sync == Calls \ Async

\* Client.Call makes a channel of its own, of capacity 1; Client.Go refuses
\* an unbuffered channel.
ASSUME ClientAssumption ==
  /\ Async \subseteq Calls
  /\ Cancelable \subseteq Sync
  /\ BadArgs \subseteq Calls
  /\ None \notin Calls \cup {Receiver}
  /\ Receiver \notin Calls
  /\ DoneChan \in [Calls -> Chans]
  /\ Cap \in [Chans -> Nat \ {0}]
  /\ \A c \in Sync, d \in Calls : DoneChan[c] = DoneChan[d] => c = d

VARIABLES
  pc,        \* where each caller is in Client.Call / Client.Go / Client.send
  seqOf,     \* call.Seq
  error,     \* call.Error
  reply,     \* *call.Reply: the <<method, args>> it was computed from
  ndone,     \* how often call.done() delivered the call (history)
  chan,      \* contents of the Done channels
  sending,   \* holder of the lock client.sending
  header,    \* client.header, the request header shared by all callers
  seq,       \* client.seq
  pending,   \* client.pending
  closing,   \* client.closing
  shutdown,  \* client.shutdown
  conn,      \* "up", or "broken": closed by either side, or reset
  requests,  \* requests the peer has been sent and has not answered
  inbound,   \* responses on their way to the client
  rpc,       \* where the receive goroutine is
  hdr,       \* the header it has read
  hand,      \* the call it removed from pending and has not delivered
  readErr,   \* whether its last ReadBody failed
  todo       \* sequence numbers terminateCalls has still to visit

callVars == <<pc, seqOf, error, reply, ndone, chan>>
clientVars == <<sending, header, seq, pending, closing, shutdown>>
netVars == <<conn, requests, inbound>>
recvVars == <<rpc, hdr, hand, readErr, todo>>
vars == <<callVars, clientVars, netVars, recvVars>>

Request == [seq : Nat, of : Calls \X Calls]
Kinds == {"reply", "error", "badreply"}
Response == [seq : Nat, kind : Kinds, of : Calls \X Calls]
Errors == {"nil", "shutdown", "write", "remote", "body", "broken"}
NoHeader == [seq |-> 0, method |-> None]

CallTypes ==
  /\ pc \in [Calls -> {"idle", "acquire", "register", "prepare", "write",
                       "flush", "failed", "notify", "select", "returned",
                       "cancelled"}]
  /\ seqOf \in [Calls -> Nat]
  /\ error \in [Calls -> Errors]
  /\ reply \in [Calls -> (Calls \X Calls) \cup {None}]
  /\ ndone \in [Calls -> Nat]
  /\ chan \in [Chans -> Seq(Calls)]

ClientTypes ==
  /\ sending \in Calls \cup {None, Receiver}
  /\ header \in [seq : Nat, method : Calls \cup {None}]
  /\ seq \in Nat \ {0}
  /\ DOMAIN pending \subseteq Nat
  /\ pending \in [DOMAIN pending -> Calls]
  /\ closing \in BOOLEAN
  /\ shutdown \in BOOLEAN

NetTypes ==
  /\ conn \in {"up", "broken"}
  /\ requests \subseteq Request
  /\ inbound \in Seq(Response)

RecvTypes ==
  /\ rpc \in {"header", "lookup", "body", "done", "terminate", "shutdown",
              "drain", "stopped"}
  /\ hdr \in Response \cup {None}
  /\ hand \in Calls \cup {None}
  /\ readErr \in BOOLEAN
  /\ todo \subseteq Nat

TypeOK == CallTypes /\ ClientTypes /\ NetTypes /\ RecvTypes

-----------------------------------------------------------------------------
(* Helpers *)

\* The lock mu is free: only the loop of terminateCalls spans several steps.
MuFree == rpc # "drain"

Unavailable == closing \/ shutdown

\* client.pending as a Go map: lookup of an absent key is nil, deletion of one
\* does nothing.
Lookup(s) == IF s \in DOMAIN pending THEN pending[s] ELSE None
Without(s) == [k \in DOMAIN pending \ {s} |-> pending[k]]
With(s, c) == [k \in DOMAIN pending \cup {s} |-> IF k = s THEN c ELSE pending[k]]

\* Client.removeCall
RemoveCall(s) == pending' = Without(s)

\* Where the caller continues when send returns and releases the lock sending.
AfterSend(c) == IF c \in Async THEN "returned" ELSE "select"

HasRoom(c) == Len(chan[DoneChan[c]]) < Cap[DoneChan[c]]

\* call.done(): blocks until the channel has room.
Done(c) ==
  /\ HasRoom(c)
  /\ chan' = [chan EXCEPT ![DoneChan[c]] = Append(@, c)]
  /\ ndone' = [ndone EXCEPT ![c] = @ + 1]

Goto(c, label) == pc' = [pc EXCEPT ![c] = label]

-----------------------------------------------------------------------------
(* The callers: Client.Call, Client.Go and Client.send *)

Invoke(c) ==
  /\ pc[c] = "idle"
  /\ Goto(c, "acquire")
  /\ UNCHANGED <<seqOf, error, reply, ndone, chan, clientVars, netVars, recvVars>>

AcquireSending(c) ==
  /\ pc[c] = "acquire"
  /\ sending = None
  /\ sending' = c
  /\ Goto(c, "register")
  /\ UNCHANGED <<seqOf, error, reply, ndone, chan, header, seq, pending,
                 closing, shutdown, netVars, recvVars>>

\* Injected bugs: registration without the availability check, and a sequence
\* number used twice.
RegisterUnchecked(c) ==
  /\ pc[c] = "register"
  /\ MuFree
  /\ seqOf' = [seqOf EXCEPT ![c] = seq]
  /\ pending' = With(seq, c)
  /\ seq' = seq + 1
  /\ Goto(c, "prepare")
  /\ UNCHANGED <<error, reply, ndone, chan, sending, header, closing, shutdown,
                 netVars, recvVars>>

RegisterSameSeq(c) ==
  /\ pc[c] = "register"
  /\ MuFree
  /\ ~Unavailable
  /\ seqOf' = [seqOf EXCEPT ![c] = seq]
  /\ pending' = With(seq, c)
  /\ Goto(c, "prepare")
  /\ UNCHANGED <<error, reply, ndone, chan, sending, header, seq, closing,
                 shutdown, netVars, recvVars>>

\* registerCall succeeds.
Register(c) ==
  /\ pc[c] = "register"
  /\ MuFree
  /\ ~Unavailable
  /\ seqOf' = [seqOf EXCEPT ![c] = seq]
  /\ pending' = With(seq, c)
  /\ seq' = seq + 1
  /\ Goto(c, "prepare")
  /\ UNCHANGED <<error, reply, ndone, chan, sending, header, closing, shutdown,
                 netVars, recvVars>>

\* registerCall returns ErrShutdown.
Reject(c) ==
  /\ pc[c] = "register"
  /\ MuFree
  /\ Unavailable
  /\ error' = [error EXCEPT ![c] = "shutdown"]
  /\ Goto(c, "notify")
  /\ UNCHANGED <<seqOf, reply, ndone, chan, clientVars, netVars, recvVars>>

\* The assignments to client.header.
Prepare(c) ==
  /\ pc[c] = "prepare"
  /\ header' = [seq |-> seqOf[c], method |-> c]
  /\ Goto(c, "write")
  /\ UNCHANGED <<seqOf, error, reply, ndone, chan, sending, seq, pending,
                 closing, shutdown, netVars, recvVars>>

\* cc.Write(&client.header, call.Args) begins: the header and some of the body
\* may be on their way before it ends.  Nothing passes a broken connection.
WriteHeader(c) ==
  /\ pc[c] = "write"
  /\ requests' = IF conn = "up"
                 THEN requests \cup {[seq |-> header.seq, of |-> <<header.method, c>>]}
                 ELSE requests
  /\ Goto(c, "flush")
  /\ UNCHANGED <<seqOf, error, reply, ndone, chan, clientVars, conn, inbound, recvVars>>

\* cc.Write returns nil.  GobCodec.Write ignores the error of Flush, so on a
\* broken connection the request is lost silently.
Write(c) ==
  /\ pc[c] = "flush"
  /\ c \notin BadArgs
  /\ sending' = None
  /\ Goto(c, AfterSend(c))
  /\ UNCHANGED <<seqOf, error, reply, ndone, chan, header, seq, pending,
                 closing, shutdown, netVars, recvVars>>

\* cc.Write returns an error: the arguments cannot be encoded, or the buffer
\* holds the write error of a broken connection.  The codec closes the
\* connection.
WriteFails(c) ==
  /\ pc[c] = "flush"
  /\ c \in BadArgs \/ conn = "broken"
  /\ conn' = "broken"
  /\ Goto(c, "failed")
  /\ UNCHANGED <<seqOf, error, reply, ndone, chan, clientVars, requests,
                 inbound, recvVars>>

\* Injected bug: the caller reports its failed write without looking whether
\* the receiver has taken the call meanwhile.
UnregisterBlindly(c) ==
  /\ pc[c] = "failed"
  /\ MuFree
  /\ RemoveCall(seqOf[c])
  /\ error' = [error EXCEPT ![c] = "write"]
  /\ Goto(c, "notify")
  /\ UNCHANGED <<seqOf, reply, ndone, chan, sending, header, seq, closing,
                 shutdown, netVars, recvVars>>

\* removeCall after a failed write; somebody else may have taken the call.
Unregister(c) ==
  /\ pc[c] = "failed"
  /\ MuFree
  /\ RemoveCall(seqOf[c])
  /\ IF Lookup(seqOf[c]) = None
     THEN /\ sending' = None
          /\ Goto(c, AfterSend(c))
          /\ UNCHANGED error
     ELSE /\ error' = [error EXCEPT ![c] = "write"]
          /\ Goto(c, "notify")
          /\ UNCHANGED sending
  /\ UNCHANGED <<seqOf, reply, ndone, chan, header, seq, closing, shutdown,
                 netVars, recvVars>>

\* call.done() and the return of send, after an error of send itself.
Notify(c) ==
  /\ pc[c] = "notify"
  /\ Done(c)
  /\ sending' = None
  /\ Goto(c, AfterSend(c))
  /\ UNCHANGED <<seqOf, error, reply, header, seq, pending, closing, shutdown,
                 netVars, recvVars>>

\* Client.Call: <-call.Done
Return(c) ==
  /\ pc[c] = "select"
  /\ chan[DoneChan[c]] # <<>>
  /\ chan' = [chan EXCEPT ![DoneChan[c]] = Tail(@)]
  /\ Goto(c, "returned")
  /\ UNCHANGED <<seqOf, error, reply, ndone, clientVars, netVars, recvVars>>

\* Injected bug: Client.Call returns on ctx.Done() and leaves the call pending.
CancelKeepsCall(c) ==
  /\ pc[c] = "select"
  /\ c \in Cancelable
  /\ MuFree
  /\ Goto(c, "cancelled")
  /\ UNCHANGED <<seqOf, error, reply, ndone, chan, clientVars, netVars, recvVars>>

\* Client.Call: <-ctx.Done(), which select may prefer to a delivered call.
Cancel(c) ==
  /\ pc[c] = "select"
  /\ c \in Cancelable
  /\ MuFree
  /\ RemoveCall(seqOf[c])
  /\ Goto(c, "cancelled")
  /\ UNCHANGED <<seqOf, error, reply, ndone, chan, sending, header, seq,
                 closing, shutdown, netVars, recvVars>>

-----------------------------------------------------------------------------
(* The receive goroutine: Client.receive and Client.terminateCalls *)

\* ReadHeader returns the next response.
ReadHeader ==
  /\ rpc = "header"
  /\ inbound # <<>>
  /\ hdr' = Head(inbound)
  /\ inbound' = Tail(inbound)
  /\ rpc' = "lookup"
  /\ UNCHANGED <<callVars, clientVars, conn, requests, hand, readErr, todo>>

\* ReadHeader fails; responses that had already arrived may be lost.
ReadHeaderFails ==
  /\ rpc = "header"
  /\ conn = "broken"
  /\ rpc' = "terminate"
  /\ UNCHANGED <<callVars, clientVars, netVars, hdr, hand, readErr, todo>>

\* call := client.removeCall(h.Seq)
TakeCall ==
  /\ rpc = "lookup"
  /\ MuFree
  /\ hand' = Lookup(hdr.seq)
  /\ RemoveCall(hdr.seq)
  /\ rpc' = "body"
  /\ UNCHANGED <<callVars, sending, header, seq, closing, shutdown, netVars,
                 hdr, readErr, todo>>

\* ReadBody(nil) for a call nobody waits for any more.
DiscardBody ==
  /\ rpc = "body"
  /\ hand = None
  /\ \/ rpc' = "header"
     \/ conn = "broken" /\ rpc' = "terminate"
  /\ UNCHANGED <<callVars, clientVars, netVars, hdr, hand, readErr, todo>>

\* case h.Error != ""
ReadError ==
  /\ rpc = "body"
  /\ hand # None
  /\ hdr.kind = "error"
  /\ error' = [error EXCEPT ![hand] = "remote"]
  /\ readErr' \in {FALSE, conn = "broken"}
  /\ rpc' = "done"
  /\ UNCHANGED <<pc, seqOf, reply, ndone, chan, clientVars, netVars, hdr, hand, todo>>

\* default: the body is decoded into call.Reply.
ReadReply ==
  /\ rpc = "body"
  /\ hand # None
  /\ hdr.kind = "reply"
  /\ reply' = [reply EXCEPT ![hand] = hdr.of]
  /\ readErr' = FALSE
  /\ rpc' = "done"
  /\ UNCHANGED <<pc, seqOf, error, ndone, chan, clientVars, netVars, hdr, hand, todo>>

\* default: the body does not fit call.Reply, or the connection fails.
ReadReplyFails ==
  /\ rpc = "body"
  /\ hand # None
  /\ hdr.kind = "badreply" \/ (hdr.kind = "reply" /\ conn = "broken")
  /\ error' = [error EXCEPT ![hand] = "body"]
  /\ readErr' = TRUE
  /\ rpc' = "done"
  /\ UNCHANGED <<pc, seqOf, reply, ndone, chan, clientVars, netVars, hdr, hand, todo>>

\* call.done(); the loop ends if ReadBody failed.
Deliver ==
  /\ rpc = "done"
  /\ Done(hand)
  /\ hand' = None
  /\ rpc' = IF readErr THEN "terminate" ELSE "header"
  /\ UNCHANGED <<pc, seqOf, error, reply, clientVars, netVars, hdr, readErr, todo>>

\* Injected bug: terminateCalls does not wait for the caller that is sending.
TerminateWithoutSending ==
  /\ rpc = "terminate"
  /\ rpc' = "shutdown"
  /\ UNCHANGED <<callVars, clientVars, netVars, hdr, hand, readErr, todo>>

\* terminateCalls: client.sending.Lock()
TerminateLockSending ==
  /\ rpc = "terminate"
  /\ sending = None
  /\ sending' = Receiver
  /\ rpc' = "shutdown"
  /\ UNCHANGED <<callVars, header, seq, pending, closing, shutdown, netVars,
                 hdr, hand, readErr, todo>>

\* terminateCalls: client.mu.Lock(), client.shutdown = true
TerminateShutdown ==
  /\ rpc = "shutdown"
  /\ shutdown' = TRUE
  /\ todo' = DOMAIN pending
  /\ rpc' = "drain"
  /\ UNCHANGED <<callVars, sending, header, seq, pending, closing, netVars,
                 hdr, hand, readErr>>

\* One iteration of the loop over client.pending, in the map's random order.
\* The calls stay in the map.
TerminateCall(s) ==
  /\ rpc = "drain"
  /\ s \in todo
  /\ error' = [error EXCEPT ![pending[s]] = "broken"]
  /\ Done(pending[s])
  /\ todo' = todo \ {s}
  /\ UNCHANGED <<pc, seqOf, reply, clientVars, netVars, rpc, hdr, hand, readErr>>

\* terminateCalls returns and releases both locks; receive ends.
TerminateReturn ==
  /\ rpc = "drain"
  /\ todo = {}
  /\ sending' = None
  /\ rpc' = "stopped"
  /\ UNCHANGED <<callVars, header, seq, pending, closing, shutdown, netVars,
                 hdr, hand, readErr, todo>>

-----------------------------------------------------------------------------
(* Close, the consumer of a shared Done channel, and the peer *)

Close ==
  /\ MuFree
  /\ ~closing
  /\ closing' = TRUE
  /\ conn' = "broken"
  /\ UNCHANGED <<callVars, sending, header, seq, pending, shutdown, requests,
                 inbound, recvVars>>

\* The user of Client.Go receives from its Done channel.
Consume(ch) ==
  /\ \E c \in Async : DoneChan[c] = ch
  /\ chan[ch] # <<>>
  /\ chan' = [chan EXCEPT ![ch] = Tail(@)]
  /\ UNCHANGED <<pc, seqOf, error, reply, ndone, clientVars, netVars, recvVars>>

\* The server answers a request it holds: with the result of the method named
\* in the header on the arguments of the body, an error, or a body the
\* client's Reply cannot take.  An unknown method is an error it reports before
\* it has the body, and thus perhaps before Write returns.
Answer(m, kind) ==
  /\ m \in requests
  /\ kind # "error" => pc[m.of[2]] # "flush"
  /\ conn = "up"
  /\ requests' = requests \ {m}
  /\ inbound' = Append(inbound, [seq |-> m.seq, kind |-> kind, of |-> m.of])
  /\ UNCHANGED <<callVars, clientVars, conn, recvVars>>

\* The server closes the connection, or the network fails.
PeerClose ==
  /\ conn = "up"
  /\ conn' = "broken"
  /\ UNCHANGED <<callVars, clientVars, requests, inbound, recvVars>>

-----------------------------------------------------------------------------
(* newClientCodec, and the whole client *)

\* The number 0 is left to a Call that was never registered.
FirstSeq == 1

Init ==
  /\ pc = [c \in Calls |-> "idle"]
  /\ seqOf = [c \in Calls |-> 0]
  /\ error = [c \in Calls |-> "nil"]
  /\ reply = [c \in Calls |-> None]
  /\ ndone = [c \in Calls |-> 0]
  /\ chan = [ch \in Chans |-> <<>>]
  /\ sending = None
  /\ header = NoHeader
  /\ seq = FirstSeq
  /\ pending = [s \in {} |-> None]
  /\ closing = FALSE
  /\ shutdown = FALSE
  /\ conn = "up"
  /\ requests = {}
  /\ inbound = <<>>
  /\ rpc = "header"
  /\ hdr = None
  /\ hand = None
  /\ readErr = FALSE
  /\ todo = {}

Send(c) ==
  \/ AcquireSending(c) \/ Register(c) \/ Reject(c) \/ Prepare(c)
  \/ WriteHeader(c) \/ Write(c) \/ WriteFails(c) \/ Unregister(c) \/ Notify(c)

Receive ==
  \/ ReadHeader \/ ReadHeaderFails \/ TakeCall
  \/ DiscardBody \/ ReadError \/ ReadReply \/ ReadReplyFails \/ Deliver

Terminate ==
  \/ TerminateLockSending \/ TerminateShutdown
  \/ \E s \in todo : TerminateCall(s)
  \/ TerminateReturn

Peer ==
  \/ \E m \in requests, kind \in Kinds : Answer(m, kind)
  \/ PeerClose

Finished(c) == pc[c] \in {"returned", "cancelled"}

\* Nothing is left to do: every other state has a successor, so a deadlock of
\* the locks and channels is an error.
Quiescent ==
  /\ rpc = "stopped"
  /\ \A c \in Calls : Finished(c)
  /\ UNCHANGED vars

Next ==
  \/ \E c \in Calls : Invoke(c) \/ Send(c) \/ Return(c) \/ Cancel(c)
  \/ Receive
  \/ Terminate
  \/ Close
  \/ \E ch \in Chans : Consume(ch)
  \/ Peer
  \/ Quiescent

Spec == Init /\ [][Next]_vars

\* Goroutines that can run do run, and whoever passes a channel to Go reads
\* from it.  Nothing is assumed of the peer, of Close or of ctx.
Fairness ==
  /\ \A c \in Calls : WF_vars(Send(c)) /\ WF_vars(Return(c))
  /\ WF_vars(Receive)
  /\ WF_vars(Terminate)
  /\ \A ch \in Chans : WF_vars(Consume(ch))

FairSpec == Spec /\ Fairness

-----------------------------------------------------------------------------
(* Properties *)

\* A call is delivered on its Done channel at most once, whichever of send,
\* receive and terminateCalls completes it: each removes the call from pending
\* first, and terminateCalls, which does not, excludes the others.
AtMostOnce == \A c \in Calls : ndone[c] <= 1

\* The goroutine about to deliver a call.
Delivering(c) ==
  \/ pc[c] = "notify"
  \/ rpc = "done" /\ hand = c
  \/ rpc = "drain" /\ c \in {pending[s] : s \in todo}

\* Client.Call's channel of one slot always has room when its call is
\* delivered: the receive goroutine never blocks on a caller that gave up, nor
\* does terminateCalls while it holds both locks.
SyncDeliveryNeverBlocks == \A c \in Sync : Delivering(c) => HasRoom(c)

\* When the receive goroutine has ended nobody is left to complete a call, so
\* every call whose send has returned has been delivered, unless its caller
\* gave up: no caller of Client.Call waits for ever.
NoCallLost ==
  rpc = "stopped" =>
    \A c \in Calls : pc[c] \in {"select", "returned"} => ndone[c] = 1

\* A caller that waits and has not been served can still be: its call is in
\* pending or in the receiver's hands.
WaitingIsReachable ==
  \A c \in Sync :
    pc[c] = "select" /\ ndone[c] = 0 =>
      hand = c \/ \E s \in DOMAIN pending : pending[s] = c

\* A call completed without error holds the result of its own method on its
\* own arguments, however responses were ordered and callers interleaved.
OwnReply ==
  \A c \in Calls : ndone[c] > 0 /\ error[c] = "nil" => reply[c] = <<c, c>>

\* A delivered Call record belongs to the user: nobody writes it again.
ResultFinal ==
  [][\A c \in Calls : ndone[c] > 0 =>
       /\ error'[c] = error[c]
       /\ reply'[c] = reply[c]]_vars

\* After ctx.Done() the receiver cannot pick the call up any more; it may only
\* finish one it had already taken.
CancelDetaches ==
  [][\A c \in Calls : pc[c] = "cancelled" /\ hand' = c => hand = c]_vars

\* When the connection is gone every call that was begun ends, without any
\* help from the peer: delivered, or given up by its caller.
BrokenReleases ==
  \A c \in Calls :
    (conn = "broken" /\ pc[c] # "idle") ~>
      (pc[c] = "cancelled" \/ (pc[c] = "returned" /\ ndone[c] = 1))
=============================================================================
