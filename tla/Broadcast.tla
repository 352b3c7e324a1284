----------------------------- MODULE Broadcast -----------------------------
(***************************************************************************)
(* rpcProject/dclient/dicovery.go: XClient.Broadcast, which calls every    *)
(* server Discovery.GetAll gives, one goroutine per server, and merges     *)
(* their results under the lock mu, the first failure cancelling the calls *)
(* that are not finished.                                                  *)
(*                                                                         *)
(* Its goroutines are callers of module XClient, each named like its       *)
(* server, beside others that use the same XClient: they share the pool of *)
(* connections and the lock of dial, which no context cancels.             *)
(* Client.Call then returns an answer or, once the context is done, gives  *)
(* up; where both are ready Go chooses either, so that a call may succeed  *)
(* after the others were cancelled.  One Broadcast is modelled.            *)
(***************************************************************************)
EXTENDS XClient

CONSTANT WantReply \* the caller passes a reply

ASSUME BroadcastAssumption ==
  /\ Addrs \subseteq Callers
  /\ None \notin {"failed", "cancelled"}
  /\ WantReply \in BOOLEAN

VARIABLES
  list,       \* the servers GetAll returned
  stage,      \* of each goroutine: "none" before it is started, "call", "merge", "done"
  err,        \* what its call returned: None, "failed" or "cancelled" (the context was done)
  e,          \* the error Broadcast will return
  cancelled,  \* cancel() was called
  callerDone, \* the caller's own context is done
  replyDone,
  reply,      \* the server whose answer was copied to *reply
  returned    \* Broadcast has returned

ownVars == <<list, stage, err, e, cancelled, callerDone, replyDone, reply, returned>>
allVars == <<vars, ownVars>>

Errors == {None, "failed", "cancelled"}

OwnTypeOK ==
  /\ list \subseteq Addrs
  /\ stage \in [Addrs -> {"none", "call", "merge", "done"}]
  /\ err \in [Addrs -> Errors]
  /\ e \in Errors
  /\ cancelled \in BOOLEAN
  /\ callerDone \in BOOLEAN
  /\ replyDone \in BOOLEAN
  /\ reply \in Addrs \cup {None}
  /\ returned \in BOOLEAN

-----------------------------------------------------------------------------
(* The goroutine of a server *)

\* The loop over the servers starts a goroutine, which goes to xc.call.
Spawn(s) ==
  /\ s \in list
  /\ stage[s] = "none"
  /\ stage' = [stage EXCEPT ![s] = "call"]
  /\ Start(s, s)
  /\ UNCHANGED <<list, err, e, cancelled, callerDone, replyDone, reply, returned>>

\* xc.call ends with x, and the goroutine goes on to the lock mu.
CallEnds(s, x) ==
  /\ stage' = [stage EXCEPT ![s] = "merge"]
  /\ err' = [err EXCEPT ![s] = x]
  /\ UNCHANGED <<list, e, cancelled, callerDone, replyDone, reply, returned>>

\* xc.dial, up to the connection or the error ...
DialGoesOn(s) == (Dial(s) \/ Opened(s) \/ Connected(s)) /\ UNCHANGED ownVars
DialFails(s) == (ConnectFails(s) \/ NewClientFails(s)) /\ CallEnds(s, "failed")

\* Injected bug: a goroutine cancels the others before it takes the lock.
CallFailsCancels(s) ==
  /\ CallReturns(s)
  /\ stage' = [stage EXCEPT ![s] = "merge"]
  /\ err' = [err EXCEPT ![s] = "failed"]
  /\ cancelled' = TRUE
  /\ UNCHANGED <<list, e, callerDone, replyDone, reply, returned>>

\* ... and client.Call.
CallSucceeds(s) == CallReturns(s) /\ CallEnds(s, None)
CallFails(s) == CallReturns(s) /\ CallEnds(s, "failed")

\* Client.Call sees that the context is done.
CallGivesUp(s) ==
  /\ cancelled \/ callerDone
  /\ CallReturns(s)
  /\ CallEnds(s, "cancelled")

\* The reply is copied if it is the first.
CopyReply(s) ==
  IF err[s] = None /\ ~replyDone
    THEN reply' = s /\ replyDone' = TRUE
    ELSE UNCHANGED <<reply, replyDone>>

\* Injected bugs: the error of the last call is kept; no call is cancelled.
MergeKeepsLast(s) ==
  /\ stage[s] = "merge"
  /\ stage' = [stage EXCEPT ![s] = "done"]
  /\ e' = err[s]
  /\ cancelled' = (cancelled \/ err[s] # None)
  /\ CopyReply(s)
  /\ UNCHANGED <<vars, list, err, callerDone, returned>>

MergeWithoutCancel(s) ==
  /\ stage[s] = "merge"
  /\ stage' = [stage EXCEPT ![s] = "done"]
  /\ e' = IF e = None THEN err[s] ELSE e
  /\ CopyReply(s)
  /\ UNCHANGED <<vars, list, err, cancelled, callerDone, returned>>

\* The critical section under mu, and wg.Done.
Merge(s) ==
  /\ stage[s] = "merge"
  /\ stage' = [stage EXCEPT ![s] = "done"]
  /\ e' = IF e = None THEN err[s] ELSE e
  /\ cancelled' = (cancelled \/ (e = None /\ err[s] # None))
  /\ CopyReply(s)
  /\ UNCHANGED <<vars, list, err, callerDone, returned>>

-----------------------------------------------------------------------------
(* Broadcast and its caller *)

\* Injected bug: Broadcast returns as soon as a call has failed.
ReturnsAtFailure ==
  /\ ~returned
  /\ e # None \/ \A s \in list : stage[s] = "done"
  /\ returned' = TRUE
  /\ UNCHANGED <<vars, list, stage, err, e, cancelled, callerDone, replyDone, reply>>

\* wg.Wait returns, and Broadcast with it.
Returns ==
  /\ ~returned
  /\ \A s \in list : stage[s] = "done"
  /\ returned' = TRUE
  /\ UNCHANGED <<vars, list, stage, err, e, cancelled, callerDone, replyDone, reply>>

\* The caller cancels its context, or the deadline of it passes.
CallerGivesUp ==
  /\ ~callerDone
  /\ callerDone' = TRUE
  /\ UNCHANGED <<vars, list, stage, err, e, cancelled, replyDone, reply, returned>>

-----------------------------------------------------------------------------
\* GetAll has returned a list, which may be empty.
BroadcastInit ==
  /\ Init
  /\ list \in SUBSET Addrs
  /\ stage = [s \in Addrs |-> "none"]
  /\ err = [s \in Addrs |-> None]
  /\ e = None
  /\ cancelled = FALSE
  /\ callerDone = FALSE
  /\ replyDone = ~WantReply
  /\ reply = None
  /\ returned = FALSE

Call(s) == CallSucceeds(s) \/ CallFails(s) \/ CallGivesUp(s)

Goroutine(s) == Spawn(s) \/ DialGoesOn(s) \/ DialFails(s) \/ Call(s) \/ Merge(s)

\* A goroutine that is not Broadcast's calls the service through XClient.Call.
Others == Callers \ Addrs
Other(g) ==
  /\ (\E a \in Addrs : Start(g, a)) \/ Dial(g) \/ Connect(g) \/ CallReturns(g)
  /\ UNCHANGED ownVars

\* XClient.Close, and the connections.
Pool ==
  /\ Close \/ \E k \in Conns : Break(k) \/ Shutdown(k)
  /\ UNCHANGED ownVars

BroadcastNext ==
  \/ \E s \in Addrs : Goroutine(s)
  \/ Returns
  \/ CallerGivesUp
  \/ \E g \in Others : Other(g)
  \/ Pool

BroadcastSpec == BroadcastInit /\ [][BroadcastNext]_allVars

\* The goroutines run, and one that waits gets the lock, since a sync.Mutex
\* serves one that has waited for long first; net.DialTimeout and dialTimeout
\* end; and a call whose context is done returns.  Nothing says that a server
\* answers, or that the context of a caller ever ends.
BroadcastFairness ==
  /\ \A s \in Addrs :
       /\ WF_allVars(Spawn(s))
       /\ SF_allVars(Dial(s) /\ UNCHANGED ownVars)
       /\ WF_allVars((Opened(s) /\ UNCHANGED ownVars) \/ DialFails(s))
       /\ WF_allVars((Connected(s) /\ UNCHANGED ownVars) \/ DialFails(s))
       /\ WF_allVars(CallGivesUp(s))
       /\ WF_allVars(Merge(s))
  /\ WF_allVars(Returns)
  /\ \A g \in Others :
       /\ SF_allVars(Dial(g) /\ UNCHANGED ownVars)
       /\ WF_allVars(Connect(g) /\ UNCHANGED ownVars)

FairBroadcast == BroadcastSpec /\ BroadcastFairness

-----------------------------------------------------------------------------
(* Properties *)

\* The error returned is the reason the calls were cancelled, never that they
\* were: "cancelled" is returned only where the caller's own context was done.
RootCause == e = "cancelled" => callerDone

\* Without an error every server has answered, and the reply is one of the
\* answers if there was a server to give one.
NilMeansAll ==
  returned /\ e = None =>
    /\ \A s \in list : stage[s] = "done" /\ err[s] = None
    /\ WantReply /\ list # {} => reply \in list

\* After Broadcast has returned no goroutine writes to the caller's reply.
ReplyIsFinal == [][returned => reply' = reply]_allVars

\* Once a call has failed Broadcast returns, whether the other servers answer
\* or not, and whoever else uses the pool.
FailsFast == e # None ~> returned
=============================================================================
