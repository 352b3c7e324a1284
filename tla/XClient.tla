------------------------------ MODULE XClient ------------------------------
(***************************************************************************)
(* rpcProject/dclient/dicovery.go: XClient, which keeps one connection per *)
(* server and shares it between the goroutines that call the service, and  *)
(* Dial of rpcProject/client.go, which makes one.                          *)
(*                                                                         *)
(* Which server a goroutine calls is the business of module Discovery, how *)
(* a connection serves calls that of module RpcClient: here it is opening  *)
(* (no Client yet), up, down without the client knowing, broken (the       *)
(* client's shutdown is set) or closed.  dial holds xc.mu in Dial.         *)
(***************************************************************************)
EXTENDS Naturals

CONSTANTS
  Callers, \* the goroutines that use the XClient
  Addrs,   \* the addresses of the servers
  Conns,   \* bound: connections that exist at the same time, numbered
  None     \* no connection; no goroutine holds the lock

ASSUME XClientAssumption ==
  /\ None \notin Callers
  /\ Conns \subseteq Nat /\ None \notin Conns
  /\ None \notin Addrs

VARIABLES
  pc,      \* where a caller is: "idle", "dial", "connect" (in net.DialTimeout),
           \* "newclient" (in dialTimeout's select), "call"
  target,  \* the server it calls
  client,  \* the connection it uses
  mutex,   \* the caller that holds xc.mu across steps
  clients, \* xc.clients
  conn     \* the state of a connection

vars == <<pc, target, client, mutex, clients, conn>>

TypeOK ==
  /\ pc \in [Callers -> {"idle", "dial", "connect", "newclient", "call"}]
  /\ target \in [Callers -> Addrs \cup {None}]
  /\ client \in [Callers -> Conns \cup {None}]
  /\ mutex \in Callers \cup {None}
  /\ clients \in [Addrs -> Conns \cup {None}]
  /\ conn \in [Conns -> {"opening", "up", "down", "broken", "closed"}]

-----------------------------------------------------------------------------
(* Helpers *)

Unlocked == mutex = None
Goto(g, label) == pc' = [pc EXCEPT ![g] = label]

\* Client.IsAvailable
IsAvailable(k) == conn[k] \in {"up", "down"}

\* xc.call returns.
Return(g) ==
  /\ pc' = [pc EXCEPT ![g] = "idle"]
  /\ target' = [target EXCEPT ![g] = None]
  /\ client' = [client EXCEPT ![g] = None]

\* The connection to make next: not the name of one that somebody still refers to.
Unused(k) == conn[k] = "closed" /\ \A g \in Callers : client[g] # k
NextConn(k) == Unused(k) /\ \A j \in Conns : Unused(j) => k <= j

-----------------------------------------------------------------------------
(* XClient.call and dial *)

\* A goroutine calls the service at address a.
Start(g, a) ==
  /\ pc[g] = "idle"
  /\ Goto(g, "dial")
  /\ target' = [target EXCEPT ![g] = a]
  /\ UNCHANGED <<client, mutex, clients, conn>>

\* dial finds an available connection.
DialPooled(g) ==
  LET k == clients[target[g]] IN
  /\ pc[g] = "dial"
  /\ Unlocked
  /\ k # None
  /\ IsAvailable(k)
  /\ client' = [client EXCEPT ![g] = k]
  /\ Goto(g, "call")
  /\ UNCHANGED <<target, mutex, clients, conn>>

\* Injected bug: an available connection is evicted as well.
DialEvictsAny(g) ==
  LET k == clients[target[g]] IN
  /\ pc[g] = "dial"
  /\ Unlocked
  /\ k # None
  /\ conn' = [conn EXCEPT ![k] = "closed"]
  /\ clients' = [clients EXCEPT ![target[g]] = None]
  /\ mutex' = g
  /\ Goto(g, "connect")
  /\ UNCHANGED <<target, client>>

\* dial finds one that is not, closes it and connects, holding the lock.
DialEvicts(g) ==
  LET k == clients[target[g]] IN
  /\ pc[g] = "dial"
  /\ Unlocked
  /\ k # None
  /\ ~IsAvailable(k)
  /\ conn' = [conn EXCEPT ![k] = "closed"]
  /\ clients' = [clients EXCEPT ![target[g]] = None]
  /\ mutex' = g
  /\ Goto(g, "connect")
  /\ UNCHANGED <<target, client>>

\* dial finds none and connects, holding the lock.
DialNew(g) ==
  /\ pc[g] = "dial"
  /\ Unlocked
  /\ clients[target[g]] = None
  /\ mutex' = g
  /\ Goto(g, "connect")
  /\ UNCHANGED <<target, client, clients, conn>>

-----------------------------------------------------------------------------
(* rpcProject.Dial: dialTimeout and NewClient, under the lock *)

\* net.DialTimeout succeeds, and NewClient runs in a goroutine of its own.
Opened(g) ==
  /\ pc[g] = "connect"
  /\ \E k \in Conns :
       /\ NextConn(k)
       /\ conn' = [conn EXCEPT ![k] = "opening"]
       /\ client' = [client EXCEPT ![g] = k]
  /\ Goto(g, "newclient")
  /\ UNCHANGED <<target, mutex, clients>>

\* result := <-ch brings a Client.
Connected(g) ==
  /\ pc[g] = "newclient"
  /\ conn' = [conn EXCEPT ![client[g]] = "up"]
  /\ clients' = [clients EXCEPT ![target[g]] = client[g]]
  /\ mutex' = None
  /\ Goto(g, "call")
  /\ UNCHANGED <<target, client>>

\* Injected bug: the connection is tried again until it succeeds.
ConnectFailsRetries(g) ==
  /\ pc[g] = "connect"
  /\ mutex' = None
  /\ Goto(g, "dial")
  /\ UNCHANGED <<target, client, clients, conn>>

\* The Options are refused, or net.DialTimeout fails or times out.
ConnectFails(g) ==
  /\ pc[g] = "connect"
  /\ mutex' = None
  /\ Return(g)
  /\ UNCHANGED <<clients, conn>>

\* Injected bug: dialTimeout returns without closing the connection.
NewClientFailsOpen(g) ==
  /\ pc[g] = "newclient"
  /\ mutex' = None
  /\ Return(g)
  /\ UNCHANGED <<clients, conn>>

\* NewClient fails, or the timer is first: the deferred function closes the
\* connection.  In the second case the goroutine of NewClient is left behind,
\* and blocks for ever in ch <-.
NewClientFails(g) ==
  /\ pc[g] = "newclient"
  /\ conn' = [conn EXCEPT ![client[g]] = "closed"]
  /\ mutex' = None
  /\ Return(g)
  /\ UNCHANGED clients

-----------------------------------------------------------------------------
(* The call on the connection *)

\* client.Call returns: with the result or an error.  A caller that does not
\* know the connection is down may wait until the client knows.
CallReturns(g) ==
  /\ pc[g] = "call"
  /\ Return(g)
  /\ UNCHANGED <<mutex, clients, conn>>

-----------------------------------------------------------------------------
(* XClient.Close, and the connections *)

Close ==
  /\ Unlocked
  /\ conn' = [k \in Conns |-> IF \E a \in Addrs : clients[a] = k THEN "closed" ELSE conn[k]]
  /\ clients' = [a \in Addrs |-> None]
  /\ UNCHANGED <<pc, target, client, mutex>>

\* The connection fails ...
Break(k) ==
  /\ conn[k] = "up"
  /\ conn' = [conn EXCEPT ![k] = "down"]
  /\ UNCHANGED <<pc, target, client, mutex, clients>>

\* ... and the client's receive goroutine sets shutdown.
Shutdown(k) ==
  /\ conn[k] = "down"
  /\ conn' = [conn EXCEPT ![k] = "broken"]
  /\ UNCHANGED <<pc, target, client, mutex, clients>>

-----------------------------------------------------------------------------
Init ==
  /\ pc = [g \in Callers |-> "idle"]
  /\ target = [g \in Callers |-> None]
  /\ client = [g \in Callers |-> None]
  /\ mutex = None
  /\ clients = [a \in Addrs |-> None]
  /\ conn = [k \in Conns |-> "closed"]

Dial(g) == DialPooled(g) \/ DialEvicts(g) \/ DialNew(g)

Connect(g) == Opened(g) \/ Connected(g) \/ ConnectFails(g) \/ NewClientFails(g)

Next ==
  \/ \E g \in Callers, a \in Addrs : Start(g, a)
  \/ \E g \in Callers : Dial(g) \/ Connect(g) \/ CallReturns(g)
  \/ \E k \in Conns : Break(k) \/ Shutdown(k)
  \/ Close

Spec == Init /\ [][Next]_vars

-----------------------------------------------------------------------------
(* Properties *)

\* An open connection is in the pool, or being made by the goroutine that holds
\* the lock: none is leaked when a connection is replaced, when two goroutines
\* call the same server at once, or when Dial gives up on one.
OpenIsPooled ==
  \A k \in Conns :
    /\ conn[k] \in {"up", "down", "broken"} => \E a \in Addrs : clients[a] = k
    /\ conn[k] = "opening" => mutex # None /\ client[mutex] = k

\* Only Close closes a connection that works, and then all of them: replacing a
\* broken connection never fails the calls of others.
WorkingIsKept ==
  [][\A k \in Conns : conn[k] = "up" /\ conn'[k] = "closed" =>
       \A a \in Addrs : clients'[a] = None]_vars

\* A goroutine is not kept waiting for ever: neither for the lock, nor for the
\* connection, nor because the pool has a connection that is broken.
CallersGoOn == \A g \in Callers : pc[g] = "dial" ~> pc[g] \in {"idle", "call"}
=============================================================================
