----------------------------- MODULE Discovery -----------------------------
(***************************************************************************)
(* rpcProject/dclient/dicovery.go: a KRegistryDiscovery and the goroutines *)
(* of one process that ask it for servers, beside the registry and the     *)
(* servers of module Registry.                                             *)
(*                                                                         *)
(* Get and GetAll first Refresh: under the lock d.mu, which is held during *)
(* the HTTP request, the list is fetched from the registry if the last one *)
(* is older than d.timeout.  They lock d.mu again to use the list.  (Update*)
(* has no caller and is left out.)                                         *)
(*                                                                         *)
(* The request has no timeout: the registry may let any time pass before   *)
(* it answers, or never answer.  Only the way of an answer to the caller,  *)
(* on which the list in it grows old, is bounded by MaxDelay.              *)
(***************************************************************************)
EXTENDS Registry, Sequences, SequencesExt

CONSTANTS
  Goroutines,    \* the callers of Get and GetAll
  RefreshPeriod, \* KRegistryDiscovery.timeout
  Sorted,        \* the addresses in the order of sort.Strings
  FirstIndex,    \* the values of index at the start (random in the code)
  None           \* no goroutine holds d.mu

ASSUME DiscoveryAssumption ==
  /\ RefreshPeriod \in Nat \ {0}
  /\ Sorted \in Seq(Servers)
  /\ ToSet(Sorted) = Servers
  /\ IsInjective(Sorted)
  /\ FirstIndex \subseteq Nat
  /\ None \notin Goroutines
  /\ Timeout + 2 * MaxDelay + RefreshPeriod <= MaxSilence

VARIABLES
  pc,       \* where a goroutine is in Get or GetAll
  mutex,    \* the goroutine that holds d.mu across steps, in Refresh
  list,     \* d.servers
  index,    \* d.index
  updated,  \* time since d.lastUpdate, up to RefreshPeriod
  response, \* the list in the registry's HTTP response, while it is read
  fetching, \* how long the registry's answer has been on its way
  got,      \* the servers the last Get or GetAll returned
  failed,   \* whether it returned an error
  turn      \* the servers RoundRobinSelect has chosen from this list (history)

dvars == <<pc, mutex, list, index, updated, response, fetching, got, failed, turn>>
vars == <<registryVars, dvars>>

TypeOK ==
  /\ RegistryTypeOK
  /\ pc \in [Goroutines -> {"idle", "refresh", "get", "received", "select"}]
  /\ mutex \in Goroutines \cup {None}
  /\ list \in Seq(Servers)
  /\ index \in Nat
  /\ updated \in 0 .. RefreshPeriod
  /\ response \subseteq Servers
  /\ fetching \in 0 .. MaxDelay
  /\ got \in [Goroutines -> SUBSET Servers]
  /\ failed \in [Goroutines -> BOOLEAN]
  /\ turn \in Seq(Servers)

-----------------------------------------------------------------------------
(* Helpers *)

Unlocked == mutex = None

\* lastUpdate.Add(timeout) is after now.
Fresh == updated < RefreshPeriod

\* The addresses in the header Mini-Servers, joined and split again: S in order.
Listing(S) ==
  LET first[n \in 0 .. Len(Sorted)] ==
        IF n = 0 THEN <<>>
        ELSE IF Sorted[n] \in S THEN Append(first[n - 1], Sorted[n])
        ELSE first[n - 1]
  IN  first[Len(Sorted)]

Goto(g, label) == pc' = [pc EXCEPT ![g] = label]

\* Get or GetAll returns S, or an error.
Return(g, S, err) ==
  /\ Goto(g, "idle")
  /\ got' = [got EXCEPT ![g] = S]
  /\ failed' = [failed EXCEPT ![g] = err]

-----------------------------------------------------------------------------
(* KRegistryDiscovery.Refresh *)

\* Get or GetAll is called.
Call(g) ==
  /\ pc[g] = "idle"
  /\ Goto(g, "refresh")
  /\ got' = [got EXCEPT ![g] = {}]
  /\ failed' = [failed EXCEPT ![g] = FALSE]
  /\ UNCHANGED <<registryVars, mutex, list, index, updated, response, fetching, turn>>

\* The list is recent enough.
RefreshNotDue(g) ==
  /\ pc[g] = "refresh"
  /\ Unlocked
  /\ Fresh
  /\ Goto(g, "select")
  /\ UNCHANGED <<registryVars, mutex, list, index, updated, response, fetching,
                 got, failed, turn>>

\* http.Get is sent, with the lock held.
RefreshDue(g) ==
  /\ pc[g] = "refresh"
  /\ Unlocked
  /\ ~Fresh
  /\ mutex' = g
  /\ Goto(g, "get")
  /\ UNCHANGED <<registryVars, list, index, updated, response, fetching, got, failed, turn>>

\* The registry answers.
ServeList(g) ==
  /\ pc[g] = "get"
  /\ response' = AliveServers
  /\ GetServers
  /\ fetching' = 0
  /\ Goto(g, "received")
  /\ UNCHANGED <<mutex, list, index, updated, got, failed, turn>>

\* Injected bug: on an error the old list is used.
RefreshFailsUsesList(g) ==
  /\ pc[g] \in {"get", "received"}
  /\ mutex' = None
  /\ response' = {}
  /\ Goto(g, "select")
  /\ UNCHANGED <<registryVars, list, index, updated, fetching, got, failed, turn>>

\* Injected bug: the error is returned with the lock held.
RefreshFailsKeepsLock(g) ==
  /\ pc[g] \in {"get", "received"}
  /\ response' = {}
  /\ Return(g, {}, TRUE)
  /\ UNCHANGED <<registryVars, mutex, list, index, updated, fetching, turn>>

\* The registry is down or the connection breaks: the error is returned, though
\* there may be an old list.
RefreshFails(g) ==
  /\ pc[g] \in {"get", "received"}
  /\ mutex' = None
  /\ response' = {}
  /\ Return(g, {}, TRUE)
  /\ UNCHANGED <<registryVars, list, index, updated, fetching, turn>>

\* Injected bug: the time of the refresh is recorded, the list is not.
StoreListForgets(g) ==
  /\ pc[g] = "received"
  /\ updated' = 0
  /\ mutex' = None
  /\ response' = {}
  /\ Goto(g, "select")
  /\ UNCHANGED <<registryVars, list, index, fetching, got, failed, turn>>

\* The response is stored.
StoreList(g) ==
  /\ pc[g] = "received"
  /\ list' = Listing(response)
  /\ turn' = IF list' = list THEN turn ELSE <<>>
  /\ updated' = 0
  /\ mutex' = None
  /\ response' = {}
  /\ Goto(g, "select")
  /\ UNCHANGED <<registryVars, index, fetching, got, failed>>

-----------------------------------------------------------------------------
(* MultiServersDiscovery.Get and GetAll *)

\* No server is available.
GetNone(g) ==
  /\ pc[g] = "select"
  /\ Unlocked
  /\ list = <<>>
  /\ Return(g, {}, TRUE)
  /\ UNCHANGED <<registryVars, mutex, list, index, updated, response, fetching, turn>>

Nth(i) == list[(i % Len(list)) + 1]

\* Injected bug: the position is advanced by two, as when it is read and
\* written again without the lock.
GetRoundRobinSkips(g) ==
  /\ pc[g] = "select"
  /\ Unlocked
  /\ list # <<>>
  /\ Return(g, {Nth(index)}, FALSE)
  /\ index' = (index + 2) % Len(list)
  /\ turn' = Append(IF Len(turn) = Len(list) THEN <<>> ELSE turn, Nth(index))
  /\ UNCHANGED <<registryVars, mutex, list, updated, response, fetching>>

\* case RoundRobinSelect
GetRoundRobin(g) ==
  /\ pc[g] = "select"
  /\ Unlocked
  /\ list # <<>>
  /\ Return(g, {Nth(index)}, FALSE)
  /\ index' = (index + 1) % Len(list)
  /\ turn' = Append(IF Len(turn) = Len(list) THEN <<>> ELSE turn, Nth(index))
  /\ UNCHANGED <<registryVars, mutex, list, updated, response, fetching>>

\* case RandomSelect
GetRandom(g) ==
  /\ pc[g] = "select"
  /\ Unlocked
  /\ \E s \in ToSet(list) : Return(g, {s}, FALSE)
  /\ UNCHANGED <<registryVars, mutex, list, index, updated, response, fetching, turn>>

\* GetAll, which may return an empty list.
GetAll(g) ==
  /\ pc[g] = "select"
  /\ Unlocked
  /\ Return(g, ToSet(list), FALSE)
  /\ UNCHANGED <<registryVars, mutex, list, index, updated, response, fetching, turn>>

-----------------------------------------------------------------------------
(* Time *)

Receiving == \E g \in Goroutines : pc[g] = "received"

\* A goroutine that can run does, and no answer is overdue.
Prompt ==
  /\ \A g \in Goroutines : Unlocked => pc[g] # "select"
  /\ Receiving => fetching < MaxDelay

TimePasses ==
  /\ Tick
  /\ Prompt
  /\ updated' = Elapse(updated, RefreshPeriod)
  /\ fetching' = IF Receiving THEN fetching + 1 ELSE fetching
  /\ UNCHANGED <<pc, mutex, list, index, response, got, failed, turn>>

-----------------------------------------------------------------------------
Init ==
  /\ RegistryInit
  /\ pc = [g \in Goroutines |-> "idle"]
  /\ mutex = None
  /\ list = <<>>
  /\ index \in FirstIndex
  /\ updated = RefreshPeriod
  /\ response = {}
  /\ fetching = 0
  /\ got = [g \in Goroutines |-> {}]
  /\ failed = [g \in Goroutines |-> FALSE]
  /\ turn = <<>>

Refresh(g) == RefreshNotDue(g) \/ RefreshDue(g) \/ ServeList(g) \/ StoreList(g)

Select(g) == GetNone(g) \/ GetRoundRobin(g) \/ GetRandom(g) \/ GetAll(g)

Next ==
  \/ RegistryStep /\ UNCHANGED dvars
  \/ \E g \in Goroutines : Call(g) \/ Refresh(g) \/ RefreshFails(g) \/ Select(g)
  \/ TimePasses

Spec == Init /\ [][Next]_vars

\* Time does not stop, servers run, and requests keep coming.  A goroutine that
\* waits for d.mu gets it although others lock it again and again: a sync.Mutex
\* serves one that has waited for long first.  No HTTP request need be answered:
\* there is no fairness for the registry and the network.
Fairness ==
  /\ SF_vars(TimePasses)
  /\ \A s \in Servers : WF_vars(TickerFires(s) /\ UNCHANGED dvars)
  /\ \A g \in Goroutines :
       /\ WF_vars(Call(g))
       /\ SF_vars(RefreshNotDue(g) \/ RefreshDue(g) \/ Select(g))

FairSpec == Spec /\ Fairness

-----------------------------------------------------------------------------
(* Properties *)

\* Neither the registry's list nor the cached one outlives a server for long: a
\* caller is only given servers that have sent a heartbeat within the two
\* timeouts and the time of two requests.
GivenIsRecent ==
  [][\A g \in Goroutines : \A s \in got'[g] \ got[g] :
       silent[s] < Timeout + 2 * MaxDelay + RefreshPeriod]_vars

\* While the list stays the same, RoundRobinSelect gives every server its turn
\* before it repeats one, whichever goroutines ask.
TurnsAreFair ==
  /\ Len(turn) <= Len(list)
  /\ \A i, j \in DOMAIN turn : turn[i] = turn[j] => i = j

\* Refresh waits for the answer to its HTTP request, with d.mu locked.
InRequest(g) == pc[g] \in {"get", "received"}

\* A goroutine that asks is not kept waiting for ever by the refreshes of others:
\* only a request to the registry that is never answered blocks it, and then
\* everybody who asks.
AskersReturn ==
  \/ \A g \in Goroutines : pc[g] = "refresh" ~> pc[g] = "idle"
  \/ \E g \in Goroutines : <>[]InRequest(g)

\* A server whose heartbeats continue is found by a client that keeps asking,
\* unless the registry or the connection to it fails, or some request, be it for
\* the list or a heartbeat, is never answered.
ServersFound ==
  \/ \A s \in Servers : Beating(s) /\ running ~>
       \/ s \in ToSet(list)
       \/ ~Beating(s)
       \/ ~running
       \/ \E g \in Goroutines : failed[g]
  \/ \E g \in Goroutines : <>[]InRequest(g)
  \/ \E s \in Servers : <>[](post[s] # "none")
=============================================================================
