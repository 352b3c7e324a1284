------------------------------ MODULE Registry ------------------------------
(***************************************************************************)
(* rpcProject/registry/registry.go: the registry and the heartbeats of the *)
(* servers that register with it.                                          *)
(*                                                                         *)
(* The registry keeps in memory, for each server of a service, the time of *)
(* its last heartbeat, and lists the servers heard of within timeout.  A   *)
(* server sends a heartbeat when it starts and then whenever a ticker      *)
(* fires, until one of them fails.  It listens on a random free port, so a *)
(* restarted server is another server.  The services of a registry do not  *)
(* share entries: this is one of them.                                     *)
(*                                                                         *)
(* Time passes in Tick.  Every time the code computes with is kept as the  *)
(* time elapsed since then.  An HTTP request takes at most MaxDelay, and a *)
(* goroutine that can run does so before time passes.                      *)
(***************************************************************************)
EXTENDS Naturals

CONSTANTS
  Servers,    \* the addresses of the servers
  Timeout,    \* kRegistry.timeout
  Period,     \* duration of the heartbeat ticker
  MaxDelay,   \* how long a heartbeat, or an answer of the registry, takes at most
  MaxSilence, \* bound: longer silences of a server are not told apart
  Absent      \* no entry in kRegistry.servers

\* The first ticker starts when the first heartbeat has been answered: an entry
\* can be a period and two requests old before it is refreshed.
ASSUME RegistryAssumption ==
  /\ Timeout \in Nat \ {0}
  /\ Period \in Nat \ {0}
  /\ MaxDelay \in Nat
  /\ MaxDelay < Period
  /\ Period + 2 * MaxDelay < Timeout
  /\ MaxSilence \in Nat
  /\ Timeout + MaxDelay <= MaxSilence
  /\ Absent \notin Nat

VARIABLES
  running,  \* whether the registry process is up
  entry,    \* time since ServerItem.start of a server, up to Timeout
  stage,    \* where a server is in Heartbeat
  ticker,   \* time since its ticker was started or fired
  post,     \* its POST request: "none", "sent", or "stored" by the registry
  silent,   \* time since it sent its last heartbeat (history)
  forgotten \* servers whose entry was lost when the registry stopped (history)

registryVars == <<running, entry, stage, ticker, post, silent, forgotten>>

RegistryTypeOK ==
  /\ running \in BOOLEAN
  /\ entry \in [Servers -> 0 .. Timeout \cup {Absent}]
  /\ stage \in [Servers -> {"new", "first", "waiting", "sending", "ended", "down"}]
  /\ ticker \in [Servers -> 0 .. Period]
  /\ post \in [Servers -> {"none", "sent", "stored"}]
  /\ silent \in [Servers -> 0 .. MaxSilence]
  /\ forgotten \subseteq Servers

-----------------------------------------------------------------------------
(* Helpers *)

\* Injected bug: nothing expires.
ExpiredNever(s) == FALSE

\* start.Add(timeout) is not after now.
Expired(s) == entry[s] # Absent /\ entry[s] >= Timeout

Listed(s) == entry[s] # Absent /\ ~Expired(s)

\* kRegistry.aliveServers: expired entries are removed.
AliveServers == {s \in Servers : Listed(s)}
Prune == entry' = [s \in Servers |-> IF Listed(s) THEN entry[s] ELSE Absent]

GotoStage(s, label) == stage' = [stage EXCEPT ![s] = label]

\* sendHeartbeat begins.
Post(s) ==
  /\ post' = [post EXCEPT ![s] = "sent"]
  /\ silent' = [silent EXCEPT ![s] = 0]

-----------------------------------------------------------------------------
(* The servers: Heartbeat *)

\* A server starts and sends its first heartbeat.
StartServer(s) ==
  /\ stage[s] = "new"
  /\ GotoStage(s, "first")
  /\ Post(s)
  /\ UNCHANGED <<running, entry, ticker, forgotten>>

\* The response to a heartbeat arrives.  The first one starts the ticker.
HeartbeatOk(s) ==
  /\ stage[s] \in {"first", "sending"}
  /\ post[s] = "stored"
  /\ post' = [post EXCEPT ![s] = "none"]
  /\ ticker' = [ticker EXCEPT ![s] = IF stage[s] = "first" THEN 0 ELSE @]
  /\ GotoStage(s, "waiting")
  /\ UNCHANGED <<running, entry, silent, forgotten>>

\* The registry is down, or the connection breaks before or after the registry
\* has stored the heartbeat: the loop ends, for ever.
HeartbeatFails(s) ==
  /\ stage[s] \in {"first", "sending"}
  /\ post' = [post EXCEPT ![s] = "none"]
  /\ GotoStage(s, "ended")
  /\ UNCHANGED <<running, entry, ticker, silent, forgotten>>

\* The ticker fires and the next heartbeat is sent.
TickerFires(s) ==
  /\ stage[s] = "waiting"
  /\ ticker[s] = Period
  /\ ticker' = [ticker EXCEPT ![s] = 0]
  /\ GotoStage(s, "sending")
  /\ Post(s)
  /\ UNCHANGED <<running, entry, forgotten>>

\* The server's process ends.  A request it has sent may still arrive.
StopServer(s) ==
  /\ stage[s] \notin {"new", "down"}
  /\ GotoStage(s, "down")
  /\ post' = [post EXCEPT ![s] = IF @ = "sent" THEN "sent" ELSE "none"]
  /\ UNCHANGED <<running, entry, ticker, silent, forgotten>>

-----------------------------------------------------------------------------
(* The registry: ServeHTTP *)

\* Injected bug: the entry of a known server is not refreshed.
PutServerKeepsStart(s) ==
  /\ running
  /\ post[s] = "sent"
  /\ entry' = [entry EXCEPT ![s] = IF @ = Absent THEN 0 ELSE @]
  /\ post' = [post EXCEPT ![s] = IF stage[s] = "down" THEN "none" ELSE "stored"]
  /\ forgotten' = forgotten \ {s}
  /\ UNCHANGED <<running, stage, ticker, silent>>

\* POST: putServer adds the server or refreshes its entry.
PutServer(s) ==
  /\ running
  /\ post[s] = "sent"
  /\ entry' = [entry EXCEPT ![s] = 0]
  /\ post' = [post EXCEPT ![s] = IF stage[s] = "down" THEN "none" ELSE "stored"]
  /\ forgotten' = forgotten \ {s}
  /\ UNCHANGED <<running, stage, ticker, silent>>

\* GET, from anybody: aliveServers.
GetServers ==
  /\ running
  /\ Prune
  /\ UNCHANGED <<running, stage, ticker, post, silent, forgotten>>

\* The registry's process ends; its memory is lost.
StopRegistry ==
  /\ running
  /\ running' = FALSE
  /\ forgotten' = forgotten \cup {s \in Servers : entry[s] # Absent}
  /\ entry' = [s \in Servers |-> Absent]
  /\ UNCHANGED <<stage, ticker, post, silent>>

StartRegistry ==
  /\ ~running
  /\ running' = TRUE
  /\ UNCHANGED <<entry, stage, ticker, post, silent, forgotten>>

-----------------------------------------------------------------------------
(* The network and time *)

\* A request whose sender is gone is lost.
LosePost(s) ==
  /\ stage[s] = "down"
  /\ post[s] = "sent"
  /\ post' = [post EXCEPT ![s] = "none"]
  /\ UNCHANGED <<running, entry, stage, ticker, silent, forgotten>>

\* Nothing is overdue.
MayTick ==
  \A s \in Servers :
    /\ stage[s] = "waiting" => ticker[s] < Period
    /\ post[s] # "none" => silent[s] < MaxDelay

Elapse(t, bound) == IF t < bound THEN t + 1 ELSE bound

Tick ==
  /\ MayTick
  /\ entry' = [s \in Servers |-> IF entry[s] = Absent THEN Absent
                                 ELSE Elapse(entry[s], Timeout)]
  /\ ticker' = [s \in Servers |-> IF stage[s] \in {"waiting", "sending"}
                                  THEN ticker[s] + 1 ELSE ticker[s]]
  /\ silent' = [s \in Servers |-> Elapse(silent[s], MaxSilence)]
  /\ UNCHANGED <<running, stage, post, forgotten>>

-----------------------------------------------------------------------------
RegistryInit ==
  /\ running = FALSE
  /\ entry = [s \in Servers |-> Absent]
  /\ stage = [s \in Servers |-> "new"]
  /\ ticker = [s \in Servers |-> 0]
  /\ post = [s \in Servers |-> "none"]
  /\ silent = [s \in Servers |-> MaxSilence]
  /\ forgotten = {}

\* What a server's goroutine and the registry's handler do by themselves.
Beat(s) == HeartbeatOk(s) \/ TickerFires(s) \/ PutServer(s) \/ LosePost(s)

\* Every step of this part but reading the list and the passing of time.
RegistryStep ==
  \/ \E s \in Servers :
       StartServer(s) \/ HeartbeatFails(s) \/ StopServer(s) \/ Beat(s)
  \/ StopRegistry \/ StartRegistry

RegistryNext == RegistryStep \/ GetServers \/ Tick

RegistrySpec == RegistryInit /\ [][RegistryNext]_registryVars

\* Time passes, servers and registry run, and a request is answered or fails.
RegistryFairness ==
  /\ WF_registryVars(Tick)
  /\ \A s \in Servers :
       WF_registryVars(Beat(s) \/ (~running /\ HeartbeatFails(s)))

FairRegistrySpec == RegistrySpec /\ RegistryFairness

-----------------------------------------------------------------------------
(* Properties *)

\* The heartbeat loop of the server is running.
Beating(s) == stage[s] \in {"waiting", "sending"}

\* The ticker leaves enough time to send a heartbeat before the server is
\* removed: one whose loop runs is missing from the list only if the registry
\* has lost its memory since the last heartbeat.
BeatingIsListed ==
  \A s \in Servers : Beating(s) /\ s \notin forgotten => Listed(s)

\* A server the registry lists has sent a heartbeat within timeout.  (A request
\* on its way counts as sent.)
ListedIsRecent ==
  \A s \in Servers : Listed(s) => silent[s] < Timeout + MaxDelay

\* A server sends heartbeats for as long as it runs.
HeartbeatsContinue ==
  \A s \in Servers : stage[s] = "first" ~> []<>(stage[s] \in {"sending", "down"})
=============================================================================
