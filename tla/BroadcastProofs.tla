-------------------------- MODULE BroadcastProofs --------------------------
(***************************************************************************)
(* Theorems about XClient and Broadcast, for any servers, callers and      *)
(* connections.                                                            *)
(*                                                                         *)
(* XClient: the goroutine that connects holds the lock, so nobody else     *)
(* changes the pool meanwhile, and the entry of the server it connects to  *)
(* is empty.  The connections of the pool are open and stand for one       *)
(* server each, so that a connection which dial closes, or opens, stands   *)
(* nowhere else.                                                           *)
(*                                                                         *)
(* Broadcast: the context is cancelled in the same critical section that   *)
(* records the first error, so that a call which was given up while no     *)
(* error is recorded was given up by the caller.                           *)
(***************************************************************************)
EXTENDS Broadcast, TLAPS

-----------------------------------------------------------------------------
(* XClient *)

\* Whoever is past the first step of a call knows the server.
TargetKnown == \A g \in Callers : pc[g] # "idle" => target[g] \in Addrs

\* The goroutine that connects holds xc.mu, to a server that has no entry.
ConnectsAlone ==
  /\ \A g \in Callers : pc[g] \in {"connect", "newclient"} =>
       mutex = g /\ clients[target[g]] = None
  /\ mutex # None => pc[mutex] \in {"connect", "newclient"}

\* It has the connection that dialTimeout has opened; before that a goroutine
\* has none.
HasOpened ==
  \A g \in Callers :
    /\ pc[g] \in {"idle", "dial", "connect"} => client[g] = None
    /\ pc[g] = "newclient" => client[g] \in Conns /\ conn[client[g]] = "opening"

\* A connection in the pool is open and stands for one server.
PooledIsOpen ==
  /\ \A a \in Addrs : clients[a] # None => conn[clients[a]] \in {"up", "down", "broken"}
  /\ \A a, b \in Addrs : clients[a] = clients[b] /\ clients[a] # None => a = b

IInv ==
  /\ TypeOK
  /\ TargetKnown
  /\ ConnectsAlone
  /\ HasOpened
  /\ PooledIsOpen
  /\ OpenIsPooled

-----------------------------------------------------------------------------
LEMMA InitIInv == Init => IInv
BY XClientAssumption
   DEF Init, IInv, TypeOK, TargetKnown, ConnectsAlone, HasOpened, PooledIsOpen, OpenIsPooled

\* Steps keep the types.
LEMMA StepTypeOK ==
  ASSUME IInv, [Next]_vars
  PROVE  TypeOK'
<1> USE XClientAssumption DEF IInv, TypeOK, TargetKnown
<1>1. ASSUME NEW g \in Callers, NEW a \in Addrs, Start(g, a) PROVE TypeOK'
  BY <1>1 DEF Start, Goto
<1>2. ASSUME NEW g \in Callers, Dial(g) PROVE TypeOK'
  BY <1>2 DEF Dial, DialPooled, DialEvicts, DialNew, Goto
<1>3. ASSUME NEW g \in Callers, Opened(g) \/ Connected(g) PROVE TypeOK'
  BY <1>3 DEF Opened, Connected, HasOpened, Goto
<1>4. ASSUME NEW g \in Callers, ConnectFails(g) \/ NewClientFails(g) PROVE TypeOK'
  BY <1>4 DEF ConnectFails, NewClientFails, HasOpened, Return
<1>5. ASSUME NEW g \in Callers, CallReturns(g) PROVE TypeOK'
  BY <1>5 DEF CallReturns, Return
<1>6. ASSUME NEW k \in Conns, Break(k) \/ Shutdown(k) PROVE TypeOK'
  BY <1>6 DEF Break, Shutdown
<1>7. CASE Close
  BY <1>7 DEF Close
<1>8. CASE UNCHANGED vars
  BY <1>8 DEF vars
<1> QED
  BY <1>1, <1>2, <1>3, <1>4, <1>5, <1>6, <1>7, <1>8 DEF Next, Connect

\* Steps keep the server of a call, and the lock with the goroutine that connects.
LEMMA StepCallers ==
  ASSUME IInv, [Next]_vars
  PROVE  TargetKnown' /\ ConnectsAlone'
<1> USE XClientAssumption DEF IInv, TypeOK, TargetKnown, ConnectsAlone, HasOpened
<1>1. ASSUME NEW g \in Callers, NEW a \in Addrs, Start(g, a) PROVE TargetKnown' /\ ConnectsAlone'
  BY <1>1 DEF Start, Goto
<1>2. ASSUME NEW g \in Callers, DialPooled(g) PROVE TargetKnown' /\ ConnectsAlone'
  BY <1>2 DEF DialPooled, Goto, IsAvailable
<1>3. ASSUME NEW g \in Callers, DialEvicts(g) PROVE TargetKnown' /\ ConnectsAlone'
  BY <1>3 DEF DialEvicts, Goto, Unlocked, IsAvailable
<1>4. ASSUME NEW g \in Callers, DialNew(g) PROVE TargetKnown' /\ ConnectsAlone'
  BY <1>4 DEF DialNew, Goto, Unlocked
<1>5. ASSUME NEW g \in Callers, Opened(g) PROVE TargetKnown' /\ ConnectsAlone'
  BY <1>5 DEF Opened, NextConn, Unused, Goto
<1>6. ASSUME NEW g \in Callers, Connected(g) PROVE TargetKnown' /\ ConnectsAlone'
  BY <1>6 DEF Connected, Goto
<1>7. ASSUME NEW g \in Callers, ConnectFails(g) PROVE TargetKnown' /\ ConnectsAlone'
  BY <1>7 DEF ConnectFails, Return
<1>8. ASSUME NEW g \in Callers, NewClientFails(g) PROVE TargetKnown' /\ ConnectsAlone'
  BY <1>8 DEF NewClientFails, Return
<1>9. ASSUME NEW g \in Callers, CallReturns(g) PROVE TargetKnown' /\ ConnectsAlone'
  BY <1>9 DEF CallReturns, Return
<1>10. ASSUME NEW k \in Conns, Break(k) \/ Shutdown(k) PROVE TargetKnown' /\ ConnectsAlone'
  BY <1>10 DEF Break, Shutdown
<1>11. CASE Close
  BY <1>11 DEF Close, Unlocked
<1>12. CASE UNCHANGED vars
  BY <1>12 DEF vars
<1> QED
  BY <1>1, <1>2, <1>3, <1>4, <1>5, <1>6, <1>7, <1>8, <1>9, <1>10, <1>11, <1>12 DEF Next, Dial, Connect

\* Steps keep the connection with the goroutine that has opened it.
LEMMA StepOpened ==
  ASSUME IInv, [Next]_vars
  PROVE  HasOpened'
<1> USE XClientAssumption DEF IInv, TypeOK, TargetKnown, ConnectsAlone, HasOpened, PooledIsOpen, OpenIsPooled
<1>1. ASSUME NEW g \in Callers, NEW a \in Addrs, Start(g, a) PROVE HasOpened'
  BY <1>1 DEF Start, Goto
<1>2. ASSUME NEW g \in Callers, DialPooled(g) PROVE HasOpened'
  BY <1>2 DEF DialPooled, Goto, IsAvailable
<1>3. ASSUME NEW g \in Callers, DialEvicts(g) PROVE HasOpened'
  BY <1>3 DEF DialEvicts, Goto, Unlocked, IsAvailable
<1>4. ASSUME NEW g \in Callers, DialNew(g) PROVE HasOpened'
  BY <1>4 DEF DialNew, Goto, Unlocked
<1>5. ASSUME NEW g \in Callers, Opened(g) PROVE HasOpened'
  BY <1>5 DEF Opened, NextConn, Unused, Goto
<1>6. ASSUME NEW g \in Callers, Connected(g) PROVE HasOpened'
  BY <1>6 DEF Connected, Goto
<1>7. ASSUME NEW g \in Callers, ConnectFails(g) PROVE HasOpened'
  BY <1>7 DEF ConnectFails, Return
<1>8. ASSUME NEW g \in Callers, NewClientFails(g) PROVE HasOpened'
  BY <1>8 DEF NewClientFails, Return
<1>9. ASSUME NEW g \in Callers, CallReturns(g) PROVE HasOpened'
  BY <1>9 DEF CallReturns, Return
<1>10. ASSUME NEW k \in Conns, Break(k) \/ Shutdown(k) PROVE HasOpened'
  <2>1. PICK x \in {"down", "broken"} :
          conn[k] \in {"up", "down"} /\ conn' = [conn EXCEPT ![k] = x]
    BY <1>10 DEF Break, Shutdown
  <2>2. UNCHANGED <<pc, client, mutex, clients>>
    BY <1>10 DEF Break, Shutdown
  <2> QED
    BY <2>1, <2>2
<1>11. CASE Close
  <2>1. \A g \in Callers : pc[g] # "newclient"
    BY <1>11 DEF Close, Unlocked
  <2>2. UNCHANGED <<pc, client>>
    BY <1>11 DEF Close
  <2> QED
    BY <2>1, <2>2
<1>12. CASE UNCHANGED vars
  BY <1>12 DEF vars
<1> QED
  BY <1>1, <1>2, <1>3, <1>4, <1>5, <1>6, <1>7, <1>8, <1>9, <1>10, <1>11, <1>12 DEF Next, Dial, Connect

\* Steps keep the pool and the open connections the same.
LEMMA StepPool ==
  ASSUME IInv, [Next]_vars
  PROVE  PooledIsOpen' /\ OpenIsPooled'
<1> USE XClientAssumption DEF IInv, TypeOK, TargetKnown, ConnectsAlone, HasOpened, PooledIsOpen, OpenIsPooled
<1>1. ASSUME NEW g \in Callers, NEW a \in Addrs, Start(g, a) PROVE PooledIsOpen' /\ OpenIsPooled'
  BY <1>1 DEF Start, Goto
<1>2. ASSUME NEW g \in Callers, DialPooled(g) PROVE PooledIsOpen' /\ OpenIsPooled'
  BY <1>2 DEF DialPooled, Goto, IsAvailable
<1>3. ASSUME NEW g \in Callers, DialEvicts(g) PROVE PooledIsOpen' /\ OpenIsPooled'
  BY <1>3 DEF DialEvicts, Goto, Unlocked, IsAvailable
<1>4. ASSUME NEW g \in Callers, DialNew(g) PROVE PooledIsOpen' /\ OpenIsPooled'
  BY <1>4 DEF DialNew, Goto, Unlocked
<1>5. ASSUME NEW g \in Callers, Opened(g) PROVE PooledIsOpen' /\ OpenIsPooled'
  BY <1>5 DEF Opened, NextConn, Unused, Goto
<1>6. ASSUME NEW g \in Callers, Connected(g) PROVE PooledIsOpen' /\ OpenIsPooled'
  <2> DEFINE k == client[g]
  <2>1. k \in Conns /\ conn[k] = "opening" /\ mutex = g /\ target[g] \in Addrs
    BY <1>6 DEF Connected
  <2>2. \A a \in Addrs : clients[a] # k
    BY <2>1
  <2>3. /\ conn' = [conn EXCEPT ![k] = "up"] /\ clients' = [clients EXCEPT ![target[g]] = k]
        /\ clients[target[g]] = None
    BY <1>6 DEF Connected
  <2>4. \A j \in Conns : conn[j] = "opening" => j = k
    BY <2>1
  <2> HIDE DEF k
  <2>5. PooledIsOpen'
    BY <2>1, <2>2, <2>3
  <2>6. OpenIsPooled'
    BY <2>1, <2>2, <2>3, <2>4
  <2> QED
    BY <2>5, <2>6
<1>7. ASSUME NEW g \in Callers, ConnectFails(g) PROVE PooledIsOpen' /\ OpenIsPooled'
  BY <1>7 DEF ConnectFails, Return
<1>8. ASSUME NEW g \in Callers, NewClientFails(g) PROVE PooledIsOpen' /\ OpenIsPooled'
  BY <1>8 DEF NewClientFails, Return
<1>9. ASSUME NEW g \in Callers, CallReturns(g) PROVE PooledIsOpen' /\ OpenIsPooled'
  BY <1>9 DEF CallReturns, Return
<1>10. ASSUME NEW k \in Conns, Break(k) \/ Shutdown(k) PROVE PooledIsOpen' /\ OpenIsPooled'
  <2>1. PICK x \in {"down", "broken"} :
          conn[k] \in {"up", "down"} /\ conn' = [conn EXCEPT ![k] = x]
    BY <1>10 DEF Break, Shutdown
  <2>2. UNCHANGED <<pc, client, mutex, clients>>
    BY <1>10 DEF Break, Shutdown
  <2> QED
    BY <2>1, <2>2
<1>11. CASE Close
  BY <1>11 DEF Close, Unlocked
<1>12. CASE UNCHANGED vars
  BY <1>12 DEF vars
<1> QED
  BY <1>1, <1>2, <1>3, <1>4, <1>5, <1>6, <1>7, <1>8, <1>9, <1>10, <1>11, <1>12 DEF Next, Dial, Connect

-----------------------------------------------------------------------------
(* Theorems *)

\* The inductive invariant of the pool of clients.
THEOREM Invariance == Spec => []IInv
<1>1. IInv /\ [Next]_vars => IInv'
  BY StepTypeOK, StepCallers, StepOpened, StepPool DEF IInv
<1> QED
  BY InitIInv, <1>1, PTL DEF Spec

\* Every state is well-typed.
THEOREM TypeCorrect == Spec => []TypeOK
<1>1. IInv => TypeOK
  BY DEF IInv
<1> QED
  BY <1>1, Invariance, PTL

\* No connection is leaked: one that is open is in the pool under its server.
THEOREM NoLeak == Spec => []OpenIsPooled
<1>1. IInv => OpenIsPooled
  BY DEF IInv
<1> QED
  BY <1>1, Invariance, PTL

\* Only Close closes a connection that works.
THEOREM WorkingKept == Spec => WorkingIsKept
<1> DEFINE Kept == \A k \in Conns : conn[k] = "up" /\ conn'[k] = "closed" =>
                     \A a \in Addrs : clients'[a] = None
<1>1. ASSUME IInv, [Next]_vars PROVE Kept
  <2> USE <1>1 DEF IInv, TypeOK
  <2>1. CASE Close
    BY <2>1 DEF Close
  <2>2. ASSUME NEW g \in Callers, DialEvicts(g) PROVE Kept
    BY <2>2, XClientAssumption DEF DialEvicts, IsAvailable
  <2>3. ASSUME NEW g \in Callers, Opened(g) \/ Connected(g) \/ NewClientFails(g) PROVE Kept
    BY <2>3 DEF Opened, Connected, NewClientFails, HasOpened
  <2>4. ASSUME NEW k \in Conns, Break(k) \/ Shutdown(k) PROVE Kept
    BY <2>4 DEF Break, Shutdown
  <2>5. CASE UNCHANGED conn
    BY <2>5
  <2> QED
    BY <2>1, <2>2, <2>3, <2>4, <2>5
    DEF Next, vars, Start, Dial, DialPooled, DialNew, Connect, ConnectFails, CallReturns
<1>2. IInv /\ [Next]_vars => [Kept]_vars
  BY <1>1
<1> QED
  BY <1>2, Invariance, PTL DEF Spec, WorkingIsKept

-----------------------------------------------------------------------------
(* Broadcast *)

\* Broadcast's goroutines use the XClient as its other callers do.
LEMMA StepIsXClient ==
  ASSUME [BroadcastNext]_allVars
  PROVE  [Next]_vars
<1> USE BroadcastAssumption
<1>1. ASSUME NEW s \in Addrs, Spawn(s) PROVE Next
  BY <1>1 DEF Spawn, Next
<1>2. ASSUME NEW s \in Addrs, DialGoesOn(s) \/ DialFails(s) \/ Call(s) PROVE Next
  BY <1>2 DEF DialGoesOn, DialFails, Call, CallSucceeds, CallFails, CallGivesUp, Connect, Next
<1>3. ASSUME NEW g \in Others, Other(g) PROVE Next
  BY <1>3 DEF Other, Others, Next
<1>4. CASE Pool
  BY <1>4 DEF Pool, Next
<1>5. ASSUME NEW s \in Addrs, Merge(s) PROVE UNCHANGED vars
  BY <1>5 DEF Merge
<1>6. CASE Returns \/ CallerGivesUp \/ UNCHANGED allVars
  BY <1>6 DEF Returns, CallerGivesUp, allVars
<1>7. QED
  BY <1>1, <1>2, <1>3, <1>4, <1>5, <1>6 DEF BroadcastNext, Goroutine

\* A Broadcast leaves the XClient what it is: all that is shown above of
\* the pool holds with a Broadcast under way (dicovery.go:231, 272).
THEOREM PoolImplemented == BroadcastSpec => Spec
<1>1. BroadcastInit => Init
  BY DEF BroadcastInit
<1>2. QED
  BY <1>1, StepIsXClient, PTL DEF BroadcastSpec, Spec

-----------------------------------------------------------------------------
\* The context is cancelled exactly when there is an error to return.
CancelledWithError == cancelled <=> e # None

\* A call was given up because of one or the other.
GivenUp == \A s \in Addrs : err[s] = "cancelled" => cancelled \/ callerDone

\* What the goroutines that have merged their result have left behind.
Merged ==
  \A s \in Addrs : stage[s] = "done" =>
    /\ err[s] # None => e # None
    /\ err[s] = None => replyDone

\* Where the reply stands.
ReplyState ==
  /\ reply # None => reply \in list
  /\ WantReply /\ replyDone => reply # None

\* Nothing is left to do once Broadcast has returned.
ReturnedIsDone == returned => \A s \in list : stage[s] = "done"

\* Only servers of the list have a goroutine, and it is in xc.call when
\* XClient has it there.
Started ==
  \A s \in Addrs :
    /\ stage[s] # "none" => s \in list
    /\ pc[s] # "idle" => stage[s] = "call"

BInv ==
  /\ IInv
  /\ OwnTypeOK
  /\ CancelledWithError
  /\ GivenUp
  /\ Merged
  /\ ReplyState
  /\ ReturnedIsDone
  /\ Started
  /\ RootCause

-----------------------------------------------------------------------------
\* The initial states satisfy the invariant.
LEMMA InitBInv == BroadcastInit => BInv
<1> SUFFICES ASSUME BroadcastInit PROVE BInv
  OBVIOUS
<1> USE BroadcastAssumption, XClientAssumption DEF BroadcastInit
<1>1. IInv
  BY InitIInv
<1>2. OwnTypeOK
  BY DEF OwnTypeOK, Errors
<1>3. CancelledWithError /\ GivenUp /\ Merged /\ RootCause
  BY DEF CancelledWithError, GivenUp, Merged, RootCause
<1>4. ReplyState /\ ReturnedIsDone /\ Started
  BY DEF ReplyState, ReturnedIsDone, Started, Init
<1>5. QED
  BY <1>1, <1>2, <1>3, <1>4 DEF BInv

\* A goroutine of Broadcast is in the XClient only during its call, whatever
\* the other callers do.
LEMMA OthersApart ==
  ASSUME TypeOK, NEW g \in Others, Other(g)
  PROVE  \A s \in Addrs : pc'[s] = pc[s]
<1> USE BroadcastAssumption DEF TypeOK, Others
<1>1. \E x : pc' = [pc EXCEPT ![g] = x]
  BY DEF Other, Start, Dial, DialPooled, DialEvicts, DialNew, Connect, Opened, Connected,
     ConnectFails, NewClientFails, CallReturns, Goto, Return
<1>2. QED
  BY <1>1

\* A goroutine of Broadcast goes on in xc.call.
LEMMA GoesOn ==
  ASSUME TypeOK, NEW s \in Addrs, Dial(s) \/ Opened(s) \/ Connected(s)
  PROVE  pc[s] # "idle" /\ \A u \in Addrs \ {s} : pc'[u] = pc[u]
BY BroadcastAssumption DEF TypeOK, Dial, DialPooled, DialEvicts, DialNew, Opened, Connected, Goto

\* It returns from there.
LEMMA ComesBack ==
  ASSUME TypeOK, NEW s \in Addrs, ConnectFails(s) \/ NewClientFails(s) \/ CallReturns(s)
  PROVE  pc[s] # "idle" /\ pc'[s] = "idle" /\ \A u \in Addrs \ {s} : pc'[u] = pc[u]
BY BroadcastAssumption DEF TypeOK, ConnectFails, NewClientFails, CallReturns, Return

\* Every step keeps what the invariant says of Broadcast's own variables.
LEMMA NextBInv ==
  ASSUME BInv, [BroadcastNext]_allVars
  PROVE  BInv'
<1>i. IInv'
  BY StepIsXClient, StepTypeOK, StepCallers, StepOpened, StepPool DEF BInv, IInv
<1>t. TypeOK
  BY DEF BInv, IInv
<1> USE BroadcastAssumption, <1>i, <1>t
    DEF BInv, OwnTypeOK, Errors, CancelledWithError, GivenUp, Merged, ReplyState,
        ReturnedIsDone, Started, RootCause
<1>1. ASSUME NEW s \in Addrs, Spawn(s) PROVE BInv'
  <2>1. pc' = [pc EXCEPT ![s] = "dial"]
    BY <1>1 DEF Spawn, Start, Goto
  <2>2. \A u \in Addrs \ {s} : pc'[u] = pc[u]
    BY <2>1 DEF TypeOK
  <2>3. QED
    BY <1>1, <2>2 DEF Spawn
<1>2. ASSUME NEW s \in Addrs, DialGoesOn(s) PROVE BInv'
  BY <1>2, GoesOn DEF DialGoesOn, ownVars
<1>3. ASSUME NEW s \in Addrs, DialFails(s) \/ Call(s) PROVE BInv'
  <2>1. /\ pc[s] # "idle" /\ pc'[s] = "idle"
        /\ \A u \in Addrs \ {s} : pc'[u] = pc[u]
    BY <1>3, ComesBack DEF DialFails, Call, CallSucceeds, CallFails, CallGivesUp
  <2>2. PICK x \in Errors : CallEnds(s, x) /\ (x = "cancelled" => cancelled \/ callerDone)
    BY <1>3 DEF DialFails, Call, CallSucceeds, CallFails, CallGivesUp
  <2>3. QED
    BY <2>1, <2>2 DEF CallEnds
<1>4. ASSUME NEW s \in Addrs, Merge(s) PROVE BInv'
  <2> USE <1>4 DEF Merge, CopyReply, vars
  <2>1. OwnTypeOK' /\ CancelledWithError' /\ GivenUp' /\ RootCause'
    OBVIOUS
  <2>2. Merged'
    <3>1. stage' = [stage EXCEPT ![s] = "done"] /\ UNCHANGED err
      OBVIOUS
    <3>2. err[s] # None => e' # None
      OBVIOUS
    <3>3. err[s] = None => replyDone'
      OBVIOUS
    <3>4. (e # None => e' # None) /\ (replyDone => replyDone')
      OBVIOUS
    <3>5. QED
      BY <3>1, <3>2, <3>3, <3>4
  <2>3. ReplyState'
    <3>1. s \in list
      OBVIOUS
    <3>2. (reply' = s /\ replyDone' = TRUE) \/ UNCHANGED <<reply, replyDone>>
      OBVIOUS
    <3>3. s # None /\ UNCHANGED list
      BY XClientAssumption
    <3>4. QED
      BY <3>1, <3>2, <3>3
  <2>4. Started' /\ ReturnedIsDone'
    <3>1. stage' = [stage EXCEPT ![s] = "done"] /\ UNCHANGED <<pc, list, returned>>
      OBVIOUS
    <3>2. s \in list /\ pc[s] = "idle"
      OBVIOUS
    <3>3. QED
      BY <3>1, <3>2
  <2>5. QED
    BY <2>1, <2>2, <2>3, <2>4
<1>5. CASE Returns
  BY <1>5 DEF Returns, vars
<1>6. CASE CallerGivesUp
  BY <1>6 DEF CallerGivesUp, vars
<1>7. ASSUME NEW g \in Others, Other(g) PROVE BInv'
  BY <1>7, OthersApart DEF Other, ownVars
<1>8. CASE Pool
  BY <1>8 DEF Pool, ownVars, Close, Break, Shutdown
<1>9. CASE UNCHANGED allVars
  BY <1>9 DEF allVars, vars, ownVars
<1>10. QED
  BY <1>1, <1>2, <1>3, <1>4, <1>5, <1>6, <1>7, <1>8, <1>9 DEF BroadcastNext, Goroutine

\* The inductive invariant holds.
THEOREM BroadcastInvariance == BroadcastSpec => []BInv
<1>1. BInv /\ [BroadcastNext]_allVars => BInv'
  BY NextBInv
<1>2. QED
  BY InitBInv, <1>1, PTL DEF BroadcastSpec

\* No connection is leaked while a Broadcast and other callers share the pool.
THEOREM BroadcastLeaksNone == BroadcastSpec => []OpenIsPooled
BY PoolImplemented, NoLeak, PTL

\* Broadcast returns "cancelled" only to a caller whose own context was done
\* (dicovery.go:272-277).
THEOREM ErrorIsRootCause == BroadcastSpec => []RootCause
<1>1. BInv => RootCause
  BY DEF BInv
<1>2. QED
  BY <1>1, BroadcastInvariance, PTL

\* No error means that all servers have answered (dicovery.go:288-289).
THEOREM NoErrorMeansAll == BroadcastSpec => []NilMeansAll
<1>1. BInv => NilMeansAll
  BY DEF BInv, OwnTypeOK, Merged, ReplyState, ReturnedIsDone, NilMeansAll
<1>2. QED
  BY <1>1, BroadcastInvariance, PTL

\* The caller's reply is not written after Broadcast has returned
\* (dicovery.go:264, 288).
THEOREM ReplyWrittenBefore == BroadcastSpec => ReplyIsFinal
<1>1. BInv /\ [BroadcastNext]_allVars => [returned => reply' = reply]_allVars
  <2> SUFFICES ASSUME BInv, BroadcastNext, returned PROVE reply' = reply
    BY DEF allVars, ownVars
  <2>1. \A s \in Addrs : stage[s] # "merge"
    BY DEF BInv, ReturnedIsDone, Started
  <2>2. ASSUME NEW s \in Addrs, Spawn(s) \/ DialGoesOn(s) \/ DialFails(s) \/ Call(s)
        PROVE  reply' = reply
    BY <2>2 DEF Spawn, DialGoesOn, DialFails, Call, CallSucceeds, CallFails, CallGivesUp,
       CallEnds, ownVars
  <2>3. ASSUME NEW s \in Addrs PROVE ~Merge(s)
    BY <2>1 DEF Merge
  <2>4. CASE Returns \/ CallerGivesUp \/ Pool \/ \E g \in Others : Other(g)
    BY <2>4 DEF Returns, CallerGivesUp, Pool, Other, ownVars
  <2>5. QED
    BY <2>2, <2>3, <2>4 DEF BroadcastNext, Goroutine
<1>2. QED
  BY <1>1, BroadcastInvariance, PTL DEF BroadcastSpec, ReplyIsFinal
=============================================================================
