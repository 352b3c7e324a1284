# Verification of dbeed

TLA+ models of `bigEventProject` (Go), the TLC runs that check them, and the
theorems about them that TLAPS proves. The repository has no tests; its
documentation are comments in the source, mostly in Chinese, and a few of them are
quoted below where the code does something else.

Contents: [the system](#the-system), [modules](#modules),
[runs](#runs-bounds-and-what-they-show), [fairness](#fairness),
[proofs](#proofs), [findings](#findings), [what is not modelled](#not-modelled),
[plan](#plan).

## The system

An article site in four processes: a web server (`mweb`), an account service, an
article service, and a registry where services announce themselves. They rest on
two home-made libraries, an RPC package (`rpcProject`) and a web framework
(`webProject/miniweb`).

```
 browser -> miniweb (Engine, Chain) -> mweb handlers -> XClient -> Client ==tcp==> Server -> account_srv (Records),
                                                          |                         |   articleCategory_srv (Articles, Records)
                                                     Discovery --GET--> registry <--POST heartbeat
```

| component | source | state | operations | what makes it correct |
|---|---|---|---|---|
| RPC client | `rpcProject/client.go` | `pending` calls by number, `seq`, `closing`, `shutdown`, locks `sending` and `mu`, a Done channel per call | `Go`, `Call`, `send`, `receive`, `terminateCalls`, `Close`, `IsAvailable` | each call is completed once, with its own reply; none is lost when the connection fails; nobody waits for ever on a dead connection |
| RPC server | `server.go`, `pool.go` | connections, one pool of 10 goroutines and its queue, a WaitGroup per connection, `called`/`sent` per request | `Accept`, `ServeConn`, `serveCodec`, `readRequest`, `handleRequest`, `sendResponse`, `AddTask` | one answer per request though timeout and method race; a connection is closed after its last answer; every request is handled |
| service registration | `services.go` | types of the methods | `newService`, `registerMethods`, `call` | (reflection, not modelled) |
| codec | `codec/*.go` | a buffered connection | `ReadHeader`, `ReadBody`, `Write`, `Close` | a failed `Write` closes the connection |
| registry | `registry/registry.go`, `mRegistry` | per service, address and time of the last heartbeat | POST `putServer`, GET `aliveServers`, `Heartbeat` in each server | live servers are listed, dead ones are not |
| discovery | `dclient/dicovery.go` | cached list, time of the last refresh, round-robin index | `Refresh`, `Get`, `GetAll` | recent servers, fair turns, callers are not starved |
| XClient | `dclient/dicovery.go` | one client per address, lock `mu` | `dial`, `call`, `Call`, `Close`, `Broadcast` | no connection is leaked or closed under somebody else; `Broadcast` returns the real cause and a proper reply |
| web framework | `webProject/miniweb` | a tree of routes per method; groups with prefix and middlewares; per request the handlers, `index` | `addRoute`, `getRoute`, `Group`, `Use`, `ServeHTTP`, `Next`, `Abort`, `Fail`, `Recovery` | the right handler behind all of its middlewares; nothing runs after an abort |
| mweb | `mweb` | none of its own: Redis for captchas | `CrossDomain`, `Token`, the handlers | as above |
| account service | `account_srv` | table of accounts | register, login, info, updates of information and picture | names are unique unless registrations overlap; who has registered can log in; updates are not lost |
| article service | `articleCategory_srv` | tables of articles and categories, a lock in Redis, a consumer of RocketMQ | `ArticleAdd`, the consumer, lists; add, update, delete and list categories | titles are unique; a title that does not pass is removed; a deleted category stays deleted |

How they interact: a handler of `mweb` calls `XClient.Call`, which asks the
discovery for an address (an HTTP request to the registry when the list is old),
takes or opens the client of that address and calls it; the client's `receive`
goroutine is shared by all callers. On the other side one pool of goroutines runs
the loops that read connections *and* the requests they have read. A failure of a
connection, of the registry or of a server reaches the caller as an error; nothing
is retried.

Hard behaviours: two locks and a blocking channel in the client; races of a
context, a timeout or a failed write with the answer; goroutines of one pool that
wait for each other; expiry against heartbeats and caches; a shared index under
nested calls and panics; a distributed lock that only expires; rows that are read in one
statement and written in the next with nothing in between to keep others away. PROJECT.json lists
them under "hazards", each with the properties about it.

## Modules

| module | models | composed with |
|---|---|---|
| `RpcClient` | `client.go`, with `GobCodec.Write` | the peer is a disjunct of `Next` |
| `RpcServer` | `server.go`, `pool.go` | clients are a disjunct of `Next` |
| `Registry` | `registry.go`: registry and servers | |
| `Discovery` | `KRegistryDiscovery` | EXTENDS `Registry`, its steps beside the steps of the registry |
| `RemoteCall` | the abstract specification of a call: what client and server promise together | |
| `Rpc` | a client and a server on one connection | INSTANCEs `RpcClient` and `RpcServer`; implements `RemoteCall` |
| `XClient` | `XClient.dial`, `call`, `Call`, `Close`; `Dial` with `dialTimeout` | connections stand for `RpcClient` |
| `Broadcast` | `XClient.Broadcast` | EXTENDS `XClient`: its goroutines are callers of the pool, beside others |
| `Chain` | `context.go`, `recovery.go`, middlewares of `mweb/main.go`, services of `mweb/handler` | a remote call stands for `XClient` |
| `Router` | `router.go`, `trie.go`, the verbs of `miniweb.go` | |
| `Engine` | groups: `Group`, `Use`, the choice of middlewares in `ServeHTTP` | EXTENDS `Router` |
| `Articles` | `ArticleAddService`, `ArticleAdd`, the consumer | |
| `Records` | the methods on accounts (`account_srv`) and on categories | |
| `MCRpcClient`, `MCRpcServer`, `MCRpc`, `MCDiscovery`, `MCChain`, `MCRouter`, `MCServices` | instances for TLC: constants that are functions or sets of sequences | EXTENDS the module |
| `RpcClientProofs`, `RpcServerProofs`, `RpcProofs`, `ChainProofs` | theorems of the module | EXTENDS the module and TLAPS |
| `DiscoveryProofs`, `BroadcastProofs`, `RouterProofs`, `ServicesProofs` | theorems of `Registry` and `Discovery`, of `XClient` and `Broadcast`, of `Router` and `Engine`, of `Articles` and `Records` | EXTENDS the modules and TLAPS |

State and steps. A goroutine is a `pc` (or `cs`, `rs`, `gor`, `stage`), a lock that is
held across steps is a variable, and a section under a lock is one step when nothing
in it can block. What a section does is one action with all of its assignments.
Operators named *Injected bug* are variants of an action as a plausible mistake would
have it; no `Next` uses them. They exist to show that the properties notice.

* **RpcClient.** `pc[c]` follows `Go`/`send`/`Call` of the goroutine of call `c`:
  `AcquireSending`, `Register` or `Reject` (`registerCall`), `Prepare` (the shared
  `header`), `WriteHeader`, `Write`/`WriteFails`, `Unregister`, `Notify`, `Return` or
  `Cancel`. `rpc` follows `receive`: `ReadHeader`, `TakeCall` (`removeCall`), the three
  branches of the switch, `Deliver`; then `terminateCalls`, whose loop may block on a
  Done channel while it has both locks, in one step per call.
* **RpcServer.** `cs[c]` is the connection (from the backlog to closed), `rs[r]` and
  `gor[r]` the two goroutines of `handleRequest`, `queue` and `worker` the pool,
  `wg` the WaitGroup. `HandlerTimeout` and `Called` are the two branches of the `select`.
  A `sendResponse` is one step: a slow reader is not modelled.
* **Registry, Discovery.** Times are kept as time elapsed; `Tick` lets a unit pass and
  may do so only while no heartbeat and no answer is overdue (`MaxDelay`) and no goroutine
  that could run is waiting. `entry[s]` is the age of the `ServerItem`, `ticker` that of the
  server's ticker. In Discovery `mutex` is `d.mu` during the HTTP request of `Refresh`, which
  has no timeout: the registry may answer after any time, or never. Only the way of the
  answer to the caller, on which its list grows old, is bounded by `MaxDelay`.
* **Rpc.** The state is that of the two components, side by side. A step is a step of
  one of them; where it writes to the connection or closes it the other takes the step
  that goes with it: `WriteHeader` and `SendRequest`, `Answer` of the server and `Answer`
  of the client's peer, the two ways a connection is lost. What arrives after a
  connection was lost at the other end is dropped.
* **RemoteCall.** Caller, method and result of a call, nothing else. `Rpc` maps `pc` to the
  caller, `gor` to the method, and `reply` and `error` to the result; a reply of another
  call would be a result RemoteCall does not know.
* **XClient.** `conn[k]` is the state of a connection as `IsAvailable` and the network
  see it; `opening` is one that is connected but has no `Client` yet, in the `select` of
  `dialTimeout`; `down` is one that is gone but whose `receive` has not noticed.
* **Broadcast.** A goroutine of Broadcast dials and calls like every caller of XClient,
  under the same lock; then comes a step for the call's result and one for the section
  under `mu`, in any order.
* **Chain.** `stack` holds the handlers that run; the top one is before, in or after
  its call of `Next`, or in a remote call. `index` is `c.index`. A panic takes handlers off
  the stack. The services differ in what they ask for: those on an account need the claims
  that Token has set (`claims`). Each answers without calling, or calls and answers.
* **Router.** A node of the tree is known by the parts down to it, the order of the
  nodes is the order in which children were appended. `Search` is the depth-first search
  as a recursive function. The meaning of a pattern (`Fits`) is stated without the tree.
* **Engine.** A text is the sequence of its parts, `Begins` says which parts begin with which, so that
  `HasPrefix` is that of the text: the group `/a` applies to `/ab` too. A middleware
  is known by the group that uses it and its place there.
* **Records.** Each method is one query and at most one write, and other requests may
  run between them. The value of a field is the request it came from, so that what was
  lost can be seen. `Save` writes what was read before, changed, with the mark of a
  deletion that was read with it; for a row deleted meanwhile the outcome depends on
  the version of gorm and is left open (`SaveIsLost`). `past` records which calls had
  ended before a call began; two calls overlap when neither had.
* **Articles.** `pc[r]` leads a request through the handler and the remote method,
  `lock` is the time to live of the key, `message` and `age` the delayed message. Time
  passes whatever the requests do, as nothing in the code bounds the calls of the database or the remote
  call: the lock may expire under its holder and the message come before the article. Two
  histories hold the requests this has happened to: `overtaken`, those that had not inserted their
  article when another took the lock that had expired, and `missed`, those that inserted it after
  their message had been consumed at the end of its delay.

## Runs, bounds and what they show

| run | instance | shows |
|---|---|---|
| `client` | 3 calls: a `Call` that can be cancelled and two `Go` calls that share a Done channel of one slot, one of them with arguments gob refuses | `AtMostOnce`, `NoCallLost`, `OwnReply`, `ResultFinal`, `CancelDetaches`; once the connection is broken every call ends (`BrokenReleases`); no deadlock |
| `server` | 2 goroutines, 2 connections of which one has its Option refused, 4 requests, among them an unknown method and a body that does not fit | `AnsweredAtMostOnce`, `FinishedIsAnswered`, `NoAnswerAfterClose`; requests are handled (`RequestsHandled`) and connections released (`ConnectionsReleased`); no deadlock |
| `server_pool` | 2 connections, 2 goroutines, 2 requests | violation of `RequestsHandled`: nobody is left to handle a request |
| `rpc` | client and server on one connection, 2 goroutines in the pool; a `Call` that can be cancelled and a `Go` whose body does not fit, or a call of an unknown method | a remote call is what RemoteCall says (`IsRemoteCall`, the refinement); a call whose request the server has read ends for its caller (`ReadCallsEnd`); no deadlock |
| `registry_heartbeat` | 1 server, 1 registry | violation of `HeartbeatsContinue`: one failed heartbeat ends them all |
| `discovery` | 1 server and the registry with delays and restarts, 2 callers | `BeatingIsListed`, `ListedIsRecent`; the bound on how stale a given server is (`GivenIsRecent`); a caller is kept waiting for ever only by a request that is never answered (`AskersReturn`) |
| `discovery_found` | 2 servers that come and go, 1 caller, no delays | `TurnsAreFair`; a server that beats is found, unless requests fail or stay unanswered (`ServersFound`) |
| `broadcast` | a Broadcast to up to 2 servers and another caller on one pool, 3 connections | of the pool: `OpenIsPooled`, `WorkingIsKept`, callers get past `dial` (`CallersGoOn`); of Broadcast: `RootCause`, `NilMeansAll`, `ReplyIsFinal`, and after a failure it returns though the others are silent (`FailsFast`) |
| `chain` | Logger, up to three middlewares in any order, a service of any kind or the 404 handler | `InOrder`, `StoppedIsFinal`, `ServiceIsGuarded`, `PanicIsContained`, `Answered` |
| `router` | every sequence of up to three routes of up to two parts over two names, a colon and a star; and every way to set up three groups, two middlewares and a route | `RoutesExact`, `ServesSafely`; the middlewares of all groups around a route run, the outermost first (`GroupsEnclose`) |
| `router_delete` | two routes, PUT and DELETE | violation of `VerbIsServed`: DELETE routes do not answer DELETE |
| `services` | 3 requests to add articles, 2 titles, one of them announced for removal; 4 calls on accounts or categories | `TitlesUnique`, `AnnouncedIsRemoved`; `SerialNamesUnique`, `RegisteredCanLogIn`, `UpdateKept`, `DeletionKept` |

The code of ArticleAdd cannot promise unique titles: a holder of the lock that outlives it
is not fenced off. `TitlesUnique` says what it takes for a title to be stored twice: the query
for one of the two failed (only the number of rows is looked at), or one of them was overtaken. A lock that
lived shorter, or a key taken without `SetNX`, would break it. In the same way `AnnouncedIsRemoved` says
that of the announced articles only one that was inserted after its message had been consumed
may stay; a message without its delay would break it.

The properties of `services` about accounts and categories do not say that names are
unique or updates kept, which is not so, but which calls must meet for it to go wrong:
two registrations of a name that overlap, an update that overlaps another one or a
deletion. What the excuses do not name is kept: an update of the picture that comes after one of
the information, and writes the whole row, leaves what the other has written; a login that
comes after its registration succeeds.

Type invariants are proved, for every module, and are not among the properties of the runs, as they say
nothing else. Proved but without
a place in a run are also `WaitingIsReachable`, `SyncDeliveryNeverBlocks`, `ClosedIsDrained`
and `TasksAccounted`, whose violations the other properties of their run would show too.

Why the bounds are enough to be interesting. *Client*: three calls let one be
written, one be in the hands of `receive` or `terminateCalls` and one be registered at
the same time, which is one more than any property relates; the shared channel fills
up, so that `terminateCalls` blocks with both locks held. *Server*: two requests of one
connection race each other's timeouts while the loop of the connection occupies one of
the two goroutines, and the queue holds requests behind a connection that is refused;
with one connection more the pool is exhausted, which is the run `server_pool`.
*Registry and Discovery*: a period and two requests are just below the timeout, so an
entry is as old as it can become; a unit more in any of them breaks `BeatingIsListed`.
Servers do not interact in the registry, so one is enough for ages; taking turns needs
two. In `discovery_found` there is a single caller, as two of them could take turns
in asking for ever while no time passes. *Rpc*: what two calls do to each other on one end
is the matter of `client` and `server`; the composition is about one call's way through both
ends. `InTurn` of MCRpc keeps it small: another call is made when the first has
returned to its caller, which a cancelled `Call` and a `Go` do while their requests are
still on the way, and the call of a method that does not exist is made alone.
`MCQuiescent` stands for the end of a run in which not all calls were made. *Broadcast*:
two servers give a failure and a success in either order, the third caller finds
connections made by them, and three connections let a caller hold an old connection
to a server while the pool has a newer one. *Chain*: three middlewares give two
nested loops inside a third. *Router*: two parts suffice for a branch that leads nowhere,
a wildcard beside and before a name, and a star above and below. *Engine*: three groups
are the engine's own, one inside it and one inside that or beside it, over a name, a
longer name that begins with it, and a wildcard; the property is about one route at a
time, so that there is one when there are several groups (`MCNext` of MCRouter). *Records*:
two calls add a row and two change the first of them, or one of them deletes it or logs in; all
properties relate two calls on one row or name. Calls on the two tables touch no common
state, so that a behaviour has calls on one of them (`OneTable`), and articles or
these, for the same reason. Bounds that are
constants: `MaxSilence` (longer silences are not told apart), `Conns` in XClient,
`MaxParts`, `MaxRoutes`, `MaxGroups` and `MaxUses`. `MaxDelay` is no bound for TLC: it is the time a
heartbeat and an answer of the registry may be on their way, which the code does not limit and for which the
timeout leaves a minute; `BeatingIsListed`, `ListedIsRecent` and `GivenIsRecent` are about it. In *Articles*
the times need no bound: they are counted up to `LockTTL` and `Delay`, beyond which nothing tells
them apart; three requests let one be overtaken by another while a third finds the lock. A history that only
counts (`answers`, `ndone`, `writes`) is bounded by the behaviour itself.

No run uses symmetry, as those with liveness could not and the others are small.
Runs with `CHECK_DEADLOCK FALSE` are those where the system ends: `services`,
`chain`, `router` and `router_delete` (the requests or the set-up are
over), and `server_pool`, where that it stops is the point.

## Fairness

Weak fairness stands for the Go scheduler: a goroutine that can run does. It is given
per goroutine, never per action inside a goroutine. Strong fairness is used for taking
a lock (`sync.Mutex` hands over to a waiter after a millisecond of starvation) and in
Discovery for the passing of time, which steps of other goroutines disable again and
again. The peer, the network, a method that runs, a process that stops or starts, and a
user who cancels have none: `BrokenReleases`, `RequestsHandled` and `FailsFast` hold
although a server never answers and a method never returns. In Discovery neither the registry's answer nor
its failure is fair, nor is the answer to a heartbeat: `http.Get` (`dicovery.go:69`) has no timeout and is
called with `d.mu` held, so that one request that is never answered blocks whoever asks, for ever.
`AskersReturn` and `ServersFound` therefore say that a caller gets on, or a server is found, unless some
request is never answered. `Consume` in RpcClient
is the user of `Client.Go` reading the channel he has passed; `BrokenReleases` is not about a
channel that nobody reads. A timeout is fair, as the
timer fires. In Rpc the goroutines of the two ends are fair as in their own modules;
a call that the server refuses has no goroutine there. In Broadcast a call of a cancelled
context gives up, and other callers connect or fail, as `net.DialTimeout` and `dialTimeout` end; a call whose
`send` is blocked in the socket, before `Client.Call` looks at its context, is not modelled there.
In Articles time passes and messages are delivered to the consumer once it runs (`main.go:78` only logs that it
could not be started), but no request and no call it waits for need get on; Records states no fairness and
has safety properties only. The specification of Registry alone, of which the run `registry_heartbeat` refutes
a liveness property, has requests answered or failed.

## Proofs

TLAPS proves, for every value of the constants that satisfies the named assumption of
the module:

* `RpcClientProofs`: type correctness, `AtMostOnce`, `NoCallLost`, `WaitingIsReachable`,
  `OwnReply`, `SyncDeliveryNeverBlocks`, `ResultFinal` and `CancelDetaches`. The argument:
  a call has one owner at a time (its sender, `pending`, the receiver, `terminateCalls`),
  and the two locks make each transfer atomic. `IInv` (`Invariance`) says who
  owns a call at each label and what the owner of a lock excludes; numbers in `pending` are
  below `seq`, so that a reply to a number is a reply to that call. The single properties are
  not inductive, as they do not say why two owners cannot meet.
* `RpcServerProofs`: type correctness (the WaitGroup is never negative),
  `AnsweredAtMostOnce`, `FinishedIsAnswered`, `ClosedIsDrained`, `TasksAccounted`,
  `NoAnswerAfterClose`. `IInv` ties `rs` to `gor` (which of the two goroutines may
  answer), each task to one place (queue, a goroutine of the pool), and `wg` to the number
  of requests in flight; cardinalities come from FiniteSetTheorems.
* `DiscoveryProofs`, of the registry: `RegistryTypeOK`, `BeatingIsListed`, `ListedIsRecent`, for every period
  and delay with `Period + 2 * MaxDelay < Timeout`. The invariant bounds the age of an
  entry by the age of the ticker and of the request under way.
* `DiscoveryProofs`, of the discovery: it implements `Registry` (`RegistryImplemented`), so that the above
  holds whoever asks; `GivenIsRecent` and `TurnsAreFair` for any servers, callers, periods and
  delays. `DiscoveryInv` carries the bound of the registry on a listed server
  (`silent[s] < Timeout + MaxDelay`) along: while the response is on its way its servers are silent for at
  most the time of that way longer (`ResponseInv`), in the cached list for the time since it was stored longer
  (`ListInv`), and who chooses does so before time passes (`SelectInv`). For `TurnsAreFair`, the
  servers chosen stand one behind the other in the list, in a circle, and `index` is at the next one
  (`TurnInv`).
* `ChainProofs`: type correctness, `InOrder`, `StoppedIsFinal`, `ServiceIsGuarded`,
  `PanicIsContained` and `Answered`, for chains of any length and any number of nested loops. `IInv` says
  what the loops of `Next` share through `c.index`: a handler that runs is the one at `index`, every loop below
  it on the stack waits for a call, and when a loop ends `index` is beyond the
  handlers that were called, so that the loops further out call none of them again (`IndexInv`). Which kinds of handlers
  call `Next` tells what may be on the stack (`KindInv`); a Recovery that was called stays on it while
  there may be a panic (`RecoveryInv`); only the last handler answers, unless the request was
  stopped, and after a panic there is room for the answer of Recovery and for no other (`WriteInv`). `RouteAssumption` is what `router.handle` does: the last handler of
  a request, and only it, is a service or the one that answers 404.
* `RouterProofs`, of Router: `ServesSafely` and `RoutesExact` for any methods, parts and patterns and
  any number of routes. Every insertion leaves a tree, in which a pattern stands as deep as it is long
  and has a handler; that is enough for `ServesSafely`. If the routes are `Clean`, the nodes are
  exactly the prefixes of the patterns (`ExactTree`), as an insertion then never takes a wildcard for another
  part; and in a tree the search finds a node whenever there is one whose pattern fits
  (`SearchComplete`), by induction from that node upwards: at each of the nodes above, one of the children
  leads to it, and an earlier child that the search prefers has found something. `PatternAssumption` says that no
  pattern is the empty string.
* `RouterProofs`, of Engine: it implements `Router` (`RouterImplemented`), so that the above holds
  whatever groups routes are added with (`EngineRoutes`), and `GroupsEnclose`: a path
  that fits a route begins with the prefix of its group, if that has no wildcard, and with those of the
  groups around it. Both lists of middlewares stand in the order of groups and of their uses
  (`InPlace`), which makes the one a part of the other in its order.
* `BroadcastProofs`, of the pool: type correctness, `OpenIsPooled` and `WorkingIsKept`. The goroutine that
  connects holds the lock and its server has no entry; a pooled connection is open and
  stands under its own server, so that the one `dial` closes stands nowhere else.
* `BroadcastProofs`, of Broadcast: one beside other callers implements `XClient`
  (`PoolImplemented`: every step is a step of the pool or leaves it alone), so that the theorems of the
  pool hold here (`BroadcastLeaksNone`); `RootCause`, `NilMeansAll`, `ReplyIsFinal` for any
  number of servers.
* `RpcProofs`: the composition implements `RpcClient` (`ClientImplemented`) and `RpcServer`
  (`ServerImplemented`), whose invariants are therefore invariants here, and it implements `RemoteCall`
  (`CallsAreRemote`), for any calls, channels and pool. `Inv` adds to the two invariants what
  relates the two ends: a request on its way is that of the call that
  wrote it, a request in flight at the server was sent and a response without an error
  follows the return of its method.
* `ServicesProofs`, of Articles: `TitlesUnique` for any requests and titles, any time to live and
  any time the database takes. The invariant: whoever is between query and insertion and has not been
  overtaken has the lock for as long as it lives (`lock + held = LockTTL`), so that there is one such
  request at most, and what it saw in its query is still true but for articles of others that were
  overtaken or whose query failed (`StillNew`). Of `AnnouncedIsRemoved` the safety half is proved
  (`ConsumedAreRemoved`): an article whose message has been consumed is there only if it was inserted
  afterwards.
* `ServicesProofs`, of Records: `SerialNamesUnique`, `RegisteredCanLogIn`, `UpdateKept`, `DeletionKept` for any callers,
  names and requests. Every step is a query, which starts a call, or one of five writes,
  which end it (`Kinds`). None of the four is inductive: a later write can break it with what its
  caller has read. `IInv` says of each kind of read that it is still true when the
  write comes, but for calls that overlap: `Seen` for the fields of a row, `Unseen` for
  the absence of a name, `Loaded` for the rest of the row. `RegisteredCanLogIn` needs that the first row
  of a name is the one registered first (`Serial`, and that accounts are never deleted).

Each module of proofs has a lemma that the initial state satisfies the invariant, one
that every step preserves it, and theorems that combine them.

Induction over numbers, which the recursive functions of Discovery, Router and Engine need, is a lemma of
its own (`SetInduction`): a set of numbers that has 0, and with every number the next, has them all. It
follows from the well-foundedness of the order. What a recursive function computes is then proved by putting the
numbers for which it is so into a set; that the function exists is proved the same way.

Every invariant, action property and refinement that a passing run checks is proved. Only model-checked is what
must eventually happen (`BrokenReleases`, `RequestsHandled`, `ConnectionsReleased`,
`ReadCallsEnd`, `AskersReturn`, `ServersFound`, `CallersGoOn`, `FailsFast`,
`AnnouncedIsRemoved`) and that there is no deadlock, as TLAPS cannot reason about `ENABLED` and fairness
here.

## Findings

| run | what the code does | what it says |
|---|---|---|
| `server_pool` | connections and requests share one pool: as many open connections as goroutines and no request is handled any more | `client.go:336`, `server.go:78`: a goroutine for every request, a goroutine for every connection |
| `registry_heartbeat` | the loop ends with the first error | `registry.go:138`: a heartbeat every `defaultTimeout - 1min` |
| `router_delete` | DELETE registers PUT | `miniweb.go:106`: DELETE adds a DELETE request |

Three more divergences are part of the models, without a run of their own:

* The JSON decoder of the Option swallows what arrived behind it (`server.go:93`), though
  `server.go:23` says that headers and bodies follow the Option: the option step of
  RpcServer may take the connection to a stream that cannot be decoded.
* The body of a request for an unknown method stays in the stream and is read as the
  next header (`server.go:176`), which ends the loop, though `server.go:127` only
  answers with the error.
* Broadcast keeps the first reply (`dicovery.go:280`) and not the last one
  (`dicovery.go:258`): that is `replyDone` in the step that merges a result.

Two more the models show without a property: a group whose prefix has a wildcard is never a
textual prefix of a path, so that its middlewares never run (`Static` in `GroupsEnclose`), and
the middlewares of the group `/a` also run for `/ab`.

## Not modelled

Reflection in `services.go`, the encoding of gob and JSON, templates and static files,
the image of the captcha, the library that checks tokens, the set-up of databases and Redis, request
and response types, the process of the registry and the demonstration programs: they keep no
state over which steps of several actors could disagree. `UserInfo`, `ArticleCategoryList` and
`ArticleList` read rows and copy them to a reply. The hash of a password stands for the password in
Records. `Update` of the discovery has no caller, `RefreshToken` neither.

In the client the memory of the caller's reply after a
cancelled `Call` is not modelled, so that the write by `receive` that may still come is not
seen as a race. The goroutine `dialTimeout` leaves behind when the `Option` is written after the
timeout has no one to hand its `Client` to and blocks for ever; it holds nothing the models
have, and is left out. In `Chain` the choice of middlewares is an input, which is what
`Engine` computes. `RoutesExact` is about requests whose parts are names: a part of a request that begins
with `*`, behind which `parsePattern` cuts the path (`router.go:55`), is left out. Hazards without a property say why in PROJECT.json.

## Plan

Done: RpcClient, RpcServer, Registry with Discovery, XClient, Broadcast,
Articles, Chain, Router; then Rpc with RemoteCall, dialTimeout, Broadcast on the pool, Records, Engine;
proofs of every safety property of all of them, and of five refinements between modules and one of an abstract
specification.

What remains, in order of importance:

1. An abstract *service directory* (a server is found while it beats, and not long after) that
   Registry and Discovery implement.
2. A service of requests (answered once, behind its middlewares) that Chain implements, and Engine as the
   source of its chains, in place of `RouteAssumption`.
3. Larger instances of Rpc, with two calls under way in the server's pool.
