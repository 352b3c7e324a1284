-------------------------- MODULE DiscoveryProofs --------------------------
(***************************************************************************)
(* Theorems about Registry and Discovery, for any goroutines and servers   *)
(* and any timeouts that satisfy their assumptions.                        *)
(*                                                                         *)
(* Registry: an entry is as old as the time since its heartbeat, which the *)
(* server's own ticker bounds.                                             *)
(*                                                                         *)
(* Discovery: beside it the registry behaves as module Registry says; a    *)
(* list is as old as the registry's entries were, and the request, and the *)
(* time since; round robin goes on behind the server it chose last.        *)
(***************************************************************************)
EXTENDS Discovery, SequenceTheorems, WellFoundedInduction, TLAPS

-----------------------------------------------------------------------------
(* Registry *)

\* A request is on its way only in a heartbeat, or when its sender has stopped,
\* and is answered in time.
PostInv ==
  \A s \in Servers :
    /\ stage[s] \in {"new", "waiting", "ended"} => post[s] = "none"
    /\ stage[s] \in {"first", "sending"} => post[s] # "none"
    /\ post[s] # "none" => silent[s] <= MaxDelay
    /\ stage[s] = "sending" => ticker[s] = silent[s]

\* How old the entry of a server is when its heartbeat loop runs, and before.
AgeInv ==
  \A s \in Servers : s \notin forgotten =>
    /\ stage[s] = "waiting" =>
         entry[s] # Absent /\ entry[s] <= ticker[s] + MaxDelay
    /\ stage[s] \in {"first", "sending"} /\ post[s] = "stored" =>
         entry[s] # Absent /\ entry[s] <= silent[s]
    /\ stage[s] = "sending" =>
         entry[s] # Absent /\ entry[s] <= Period + MaxDelay + silent[s]

\* A listed server's last heartbeat was sent at most a request's time before it
\* was stored.
SilenceInv == \A s \in Servers : Listed(s) => silent[s] <= entry[s] + MaxDelay

RegistryInv == RegistryTypeOK /\ PostInv /\ AgeInv /\ SilenceInv

\* Before any server has started.
LEMMA RegistryInvInit == RegistryInit => RegistryInv
<1> SUFFICES ASSUME RegistryInit PROVE RegistryInv
  OBVIOUS
<1> USE RegistryAssumption DEF RegistryInit
<1>1. RegistryTypeOK
  <2>1. 0 \in 0 .. Period /\ MaxSilence \in 0 .. MaxSilence
    OBVIOUS
  <2>2. ticker \in [Servers -> 0 .. Period] /\ silent \in [Servers -> 0 .. MaxSilence]
    BY <2>1
  <2>3. entry \in [Servers -> 0 .. Timeout \cup {Absent}]
    OBVIOUS
  <2>4. /\ stage \in [Servers -> {"new", "first", "waiting", "sending", "ended", "down"}]
        /\ post \in [Servers -> {"none", "sent", "stored"}]
    OBVIOUS
  <2>5. QED
    BY <2>2, <2>3, <2>4 DEF RegistryTypeOK
<1>2. PostInv /\ AgeInv /\ SilenceInv
  BY DEF PostInv, AgeInv, SilenceInv, Listed
<1>3. QED
  BY <1>1, <1>2 DEF RegistryInv

\* Every step keeps the types.
LEMMA RegistryTypeStep ==
  ASSUME RegistryInv, [RegistryNext]_registryVars
  PROVE  RegistryTypeOK'
<1> USE RegistryAssumption DEF RegistryInv, RegistryTypeOK, PostInv
<1>1. ASSUME NEW s \in Servers, StartServer(s) PROVE RegistryTypeOK'
  BY <1>1 DEF StartServer, GotoStage, Post
<1>2. ASSUME NEW s \in Servers, HeartbeatOk(s) PROVE RegistryTypeOK'
  BY <1>2 DEF HeartbeatOk, GotoStage
<1>3. ASSUME NEW s \in Servers, HeartbeatFails(s) PROVE RegistryTypeOK'
  BY <1>3 DEF HeartbeatFails, GotoStage
<1>4. ASSUME NEW s \in Servers, TickerFires(s) PROVE RegistryTypeOK'
  BY <1>4 DEF TickerFires, GotoStage, Post
<1>5. ASSUME NEW s \in Servers, StopServer(s) PROVE RegistryTypeOK'
  BY <1>5 DEF StopServer, GotoStage
<1>6. ASSUME NEW s \in Servers, PutServer(s) PROVE RegistryTypeOK'
  BY <1>6 DEF PutServer
<1>7. ASSUME NEW s \in Servers, LosePost(s) PROVE RegistryTypeOK'
  BY <1>7 DEF LosePost
<1>8. CASE StopRegistry
  BY <1>8 DEF StopRegistry
<1>9. CASE StartRegistry
  BY <1>9 DEF StartRegistry
<1>10. CASE GetServers
  BY <1>10 DEF GetServers, Prune, Listed, Expired
<1>11. CASE Tick
  BY <1>11 DEF Tick, MayTick, Elapse
<1>12. CASE UNCHANGED registryVars
  BY <1>12 DEF registryVars, Listed, Expired
<1>13. QED
  BY <1>1, <1>2, <1>3, <1>4, <1>5, <1>6, <1>7, <1>8, <1>9, <1>10, <1>11, <1>12
    DEF RegistryNext, RegistryStep, Beat

\* Heartbeat requests come and go with the stages of the loop.
LEMMA PostStep ==
  ASSUME RegistryInv, [RegistryNext]_registryVars
  PROVE  PostInv'
<1> USE RegistryAssumption DEF RegistryInv, RegistryTypeOK, PostInv
<1>1. ASSUME NEW s \in Servers, StartServer(s) PROVE PostInv'
  BY <1>1 DEF StartServer, GotoStage, Post
<1>2. ASSUME NEW s \in Servers, HeartbeatOk(s) PROVE PostInv'
  BY <1>2 DEF HeartbeatOk, GotoStage
<1>3. ASSUME NEW s \in Servers, HeartbeatFails(s) PROVE PostInv'
  BY <1>3 DEF HeartbeatFails, GotoStage
<1>4. ASSUME NEW s \in Servers, TickerFires(s) PROVE PostInv'
  BY <1>4 DEF TickerFires, GotoStage, Post
<1>5. ASSUME NEW s \in Servers, StopServer(s) PROVE PostInv'
  BY <1>5 DEF StopServer, GotoStage
<1>6. ASSUME NEW s \in Servers, PutServer(s) PROVE PostInv'
  BY <1>6 DEF PutServer
<1>7. ASSUME NEW s \in Servers, LosePost(s) PROVE PostInv'
  BY <1>7 DEF LosePost
<1>8. CASE StopRegistry
  BY <1>8 DEF StopRegistry
<1>9. CASE StartRegistry
  BY <1>9 DEF StartRegistry
<1>10. CASE GetServers
  BY <1>10 DEF GetServers, Prune, Listed, Expired
<1>11. CASE Tick
  BY <1>11 DEF Tick, MayTick, Elapse
<1>12. CASE UNCHANGED registryVars
  BY <1>12 DEF registryVars, Listed, Expired
<1>13. QED
  BY <1>1, <1>2, <1>3, <1>4, <1>5, <1>6, <1>7, <1>8, <1>9, <1>10, <1>11, <1>12
    DEF RegistryNext, RegistryStep, Beat

\* Entries are refreshed before they are too old.
LEMMA AgeStep ==
  ASSUME RegistryInv, [RegistryNext]_registryVars
  PROVE  AgeInv'
<1> USE RegistryAssumption DEF RegistryInv, RegistryTypeOK, PostInv, AgeInv
<1>1. ASSUME NEW s \in Servers, StartServer(s) PROVE AgeInv'
  BY <1>1 DEF StartServer, GotoStage, Post
<1>2. ASSUME NEW s \in Servers, HeartbeatOk(s) PROVE AgeInv'
  BY <1>2 DEF HeartbeatOk, GotoStage
<1>3. ASSUME NEW s \in Servers, HeartbeatFails(s) PROVE AgeInv'
  BY <1>3 DEF HeartbeatFails, GotoStage
<1>4. ASSUME NEW s \in Servers, TickerFires(s) PROVE AgeInv'
  BY <1>4 DEF TickerFires, GotoStage, Post
<1>5. ASSUME NEW s \in Servers, StopServer(s) PROVE AgeInv'
  BY <1>5 DEF StopServer, GotoStage
<1>6. ASSUME NEW s \in Servers, PutServer(s) PROVE AgeInv'
  BY <1>6 DEF PutServer
<1>7. ASSUME NEW s \in Servers, LosePost(s) PROVE AgeInv'
  BY <1>7 DEF LosePost
<1>8. CASE StopRegistry
  BY <1>8 DEF StopRegistry
<1>9. CASE StartRegistry
  BY <1>9 DEF StartRegistry
<1>10. CASE GetServers
  BY <1>10 DEF GetServers, Prune, Listed, Expired
<1>11. CASE Tick
  BY <1>11 DEF Tick, MayTick, Elapse
<1>12. CASE UNCHANGED registryVars
  BY <1>12 DEF registryVars, Listed, Expired
<1>13. QED
  BY <1>1, <1>2, <1>3, <1>4, <1>5, <1>6, <1>7, <1>8, <1>9, <1>10, <1>11, <1>12
    DEF RegistryNext, RegistryStep, Beat

\* Entries are as old as the heartbeats they come from.
LEMMA SilenceStep ==
  ASSUME RegistryInv, [RegistryNext]_registryVars
  PROVE  SilenceInv'
<1> USE RegistryAssumption DEF RegistryInv, RegistryTypeOK, PostInv, SilenceInv, Listed, Expired
<1>1. ASSUME NEW s \in Servers, StartServer(s) PROVE SilenceInv'
  BY <1>1 DEF StartServer, GotoStage, Post
<1>2. ASSUME NEW s \in Servers, HeartbeatOk(s) PROVE SilenceInv'
  BY <1>2 DEF HeartbeatOk, GotoStage
<1>3. ASSUME NEW s \in Servers, HeartbeatFails(s) PROVE SilenceInv'
  BY <1>3 DEF HeartbeatFails, GotoStage
<1>4. ASSUME NEW s \in Servers, TickerFires(s) PROVE SilenceInv'
  BY <1>4 DEF TickerFires, GotoStage, Post
<1>5. ASSUME NEW s \in Servers, StopServer(s) PROVE SilenceInv'
  BY <1>5 DEF StopServer, GotoStage
<1>6. ASSUME NEW s \in Servers, PutServer(s) PROVE SilenceInv'
  BY <1>6 DEF PutServer
<1>7. ASSUME NEW s \in Servers, LosePost(s) PROVE SilenceInv'
  BY <1>7 DEF LosePost
<1>8. CASE StopRegistry
  BY <1>8 DEF StopRegistry
<1>9. CASE StartRegistry
  BY <1>9 DEF StartRegistry
<1>10. CASE GetServers
  BY <1>10 DEF GetServers, Prune, Listed, Expired
<1>11. CASE Tick
  BY <1>11 DEF Tick, MayTick, Elapse
<1>12. CASE UNCHANGED registryVars
  BY <1>12 DEF registryVars, Listed, Expired
<1>13. QED
  BY <1>1, <1>2, <1>3, <1>4, <1>5, <1>6, <1>7, <1>8, <1>9, <1>10, <1>11, <1>12
    DEF RegistryNext, RegistryStep, Beat

\* The timers of the servers and the registry's entries fit together.
THEOREM RegistryInvariance == RegistrySpec => []RegistryInv
<1>1. RegistryInv /\ [RegistryNext]_registryVars => RegistryInv'
  BY RegistryTypeStep, PostStep, AgeStep, SilenceStep DEF RegistryInv
<1>2. QED
  BY <1>1, RegistryInvInit, PTL DEF RegistrySpec

\* The state of the registry and of the heartbeat loops keeps its types.
THEOREM RegistryTypeCorrect == RegistrySpec => []RegistryTypeOK
<1>1. RegistryInv => RegistryTypeOK
  BY DEF RegistryInv
<1>2. QED
  BY <1>1, RegistryInvariance, PTL

\* If the timeout exceeds the heartbeat period and the time of two requests, a
\* server whose heartbeat loop runs is never removed from the list.
THEOREM BeatingServersListed == RegistrySpec => []BeatingIsListed
<1>1. ASSUME RegistryInv PROVE BeatingIsListed
  <2> SUFFICES ASSUME NEW s \in Servers, Beating(s), s \notin forgotten
               PROVE  Listed(s)
    BY DEF BeatingIsListed
  <2> USE <1>1, RegistryAssumption DEF RegistryInv, RegistryTypeOK
  <2>1. CASE stage[s] = "waiting"
    BY <2>1 DEF AgeInv, Listed, Expired
  <2>2. CASE stage[s] = "sending"
    BY <2>2 DEF AgeInv, PostInv, Listed, Expired
  <2>3. QED
    BY <2>1, <2>2 DEF Beating
<1>2. QED
  BY <1>1, RegistryInvariance, PTL

\* The registry lists no server that has been silent for longer than timeout.
THEOREM ListedServersRecent == RegistrySpec => []ListedIsRecent
<1>1. ASSUME RegistryInv PROVE ListedIsRecent
  BY <1>1, RegistryAssumption
    DEF RegistryInv, RegistryTypeOK, SilenceInv, ListedIsRecent, Listed, Expired
<1>2. QED
  BY <1>1, RegistryInvariance, PTL

-----------------------------------------------------------------------------
(* Discovery *)

\* The lock is held by the goroutine whose HTTP request is under way.
LockInv == \A g \in Goroutines : pc[g] \in {"get", "received"} <=> mutex = g

\* A goroutine that has refreshed can go on at once, while the list is fresh: the
\* lock cannot be taken for another refresh before time passes.
SelectInv == \A g \in Goroutines : pc[g] = "select" => Unlocked /\ Fresh

\* A response is as old as the registry's list was, and its way to the caller.
ResponseInv ==
  \A g \in Goroutines : pc[g] = "received" =>
    \A s \in response : silent[s] < Timeout + MaxDelay + fetching

\* A list is as old as the response was, and the time since it was stored.
ListInv ==
  Fresh => \A s \in ToSet(list) : silent[s] < Timeout + 2 * MaxDelay + updated

\* The place that is i places behind place b (from 0) in a circle of n places.
Place(b, i, n) == IF b + i <= n THEN b + i ELSE b + i - n

\* The servers chosen stand one behind the other in the list, and index is the
\* next one's place.
TurnInv ==
  /\ IsInjective(list)
  /\ Len(turn) <= Len(list)
  /\ turn # <<>> =>
       \E b \in 0 .. Len(list) - 1 :
         /\ \A i \in 1 .. Len(turn) : turn[i] = list[Place(b, i, Len(list))]
         /\ index = (b + Len(turn)) % Len(list)

DiscoveryInv ==
  /\ TypeOK
  /\ LockInv
  /\ SelectInv
  /\ ResponseInv
  /\ ListInv
  /\ TurnInv

-----------------------------------------------------------------------------
(* Listing *)

\* Induction, on a set of numbers.
LEMMA SetInduction ==
  ASSUME NEW T, 0 \in T, \A n \in Nat : n \in T => n + 1 \in T
  PROVE  Nat \subseteq T
<1> SUFFICES ASSUME Nat \ T # {} PROVE FALSE
  OBVIOUS
<1>1. PICK m \in Nat \ T : \A i \in Nat \ T : ~(<<i, m>> \in OpToRel(<, Nat))
  BY NatLessThanWellFounded, WFMin
<1>2. m \in Nat /\ m # 0
  OBVIOUS
<1>3. m - 1 \in Nat /\ (m - 1) + 1 = m
  BY <1>2
<1>4. m - 1 \in Nat \ T
  BY <1>3
<1>5. <<m - 1, m>> \in OpToRel(<, Nat)
  <2>1. <<m - 1, m>> \in Nat \X Nat /\ <<m - 1, m>>[1] < <<m - 1, m>>[2]
    BY <1>2, <1>3
  <2>2. QED
    BY <2>1, Zenon DEF OpToRel
<1>6. QED
  BY <1>1, <1>4, <1>5

\* The recursive function in Listing exists.
LEMMA ListingRecursion ==
  ASSUME NEW S
  PROVE  \E f : /\ f = [n \in 0 .. Len(Sorted) |->
                          IF n = 0 THEN <<>>
                          ELSE IF Sorted[n] \in S THEN Append(f[n - 1], Sorted[n])
                          ELSE f[n - 1]]
                /\ Listing(S) = f[Len(Sorted)]
<1> DEFINE value(f, n) == IF n = 0 THEN <<>>
                          ELSE IF Sorted[n] \in S THEN Append(f[n - 1], Sorted[n])
                          ELSE f[n - 1]
           body(f, m) == [n \in 0 .. m |-> value(f, n)]
           first == CHOOSE f : f = body(f, Len(Sorted))
           T == {m \in Nat : \E f : f = body(f, m)}
<1>1. 0 \in T
  <2> DEFINE f == [n \in 0 .. 0 |-> <<>>]
  <2>1. f = body(f, 0)
    OBVIOUS
  <2>2. QED
    BY <2>1
<1>2. ASSUME NEW m \in Nat, m \in T PROVE m + 1 \in T
  <2>1. PICK f : f = body(f, m)
    BY <1>2
  <2>2. PICK h : h = body(f, m + 1)
    OBVIOUS
  <2>3. ASSUME NEW n \in 0 .. m PROVE h[n] = f[n]
    <3>1. n \in 0 .. m + 1
      OBVIOUS
    <3> HIDE DEF value
    <3>2. h[n] = value(f, n) /\ f[n] = value(f, n)
      BY <2>1, <2>2, <3>1
    <3>3. QED
      BY <3>2
  <2>4. ASSUME NEW n \in 0 .. m + 1 PROVE value(f, n) = value(h, n)
    <3>1. CASE n = 0
      BY <3>1
    <3>2. CASE n # 0
      <4>1. n - 1 \in 0 .. m
        BY <3>2
      <4>2. f[n - 1] = h[n - 1]
        BY <2>3, <4>1
      <4>3. QED
        BY <4>2
    <3>3. QED
      BY <3>1, <3>2
  <2>5. h = body(h, m + 1)
    <3>1. PICK g : g = body(h, m + 1)
      OBVIOUS
    <3> DEFINE D == 0 .. m + 1
    <3>2. /\ h = [n \in D |-> value(f, n)]
          /\ g = [n \in D |-> value(h, n)]
      BY <2>2, <3>1
    <3>3. \A n \in D : value(f, n) = value(h, n)
      BY <2>4
    <3> HIDE DEF value, D
    <3>4. /\ \A n \in D : h[n] = g[n]
          /\ h = [n \in D |-> h[n]]
          /\ g = [n \in D |-> g[n]]
      BY <3>2, <3>3
    <3>5. h = g
      BY <3>4
    <3> HIDE DEF body
    <3>6. QED
      BY <3>1, <3>5
  <2> HIDE DEF body
  <2>6. QED
    BY <2>5
<1>3. \E f : f = body(f, Len(Sorted))
  <2>1. Len(Sorted) \in Nat
    BY DiscoveryAssumption
  <2>2. Len(Sorted) \in T
    <3> HIDE DEF T
    <3>1. QED
      BY <1>1, <1>2, <2>1, SetInduction
  <2>3. QED
    BY <2>2
<1>4. first = body(first, Len(Sorted))
  BY <1>3, Zenon
<1>5. Listing(S) = first[Len(Sorted)]
  BY Zenon DEF Listing
<1>6. QED
  BY <1>4, <1>5, Zenon

\* Listing lists servers of S, and none twice.
LEMMA ListingFacts ==
  ASSUME NEW S
  PROVE  /\ Listing(S) \in Seq(Servers)
         /\ ToSet(Listing(S)) \subseteq S
         /\ IsInjective(Listing(S))
<1> DEFINE N == Len(Sorted)
<1>1. PICK f : /\ f = [n \in 0 .. N |->
                         IF n = 0 THEN <<>>
                         ELSE IF Sorted[n] \in S THEN Append(f[n - 1], Sorted[n])
                         ELSE f[n - 1]]
               /\ Listing(S) = f[N]
  BY ListingRecursion, Zenon
<1>2. /\ N \in Nat
      /\ \A i \in 1 .. N : Sorted[i] \in Servers
      /\ \A i, j \in 1 .. N : Sorted[i] = Sorted[j] => i = j
  BY DiscoveryAssumption DEF IsInjective
<1> DEFINE Good(l, n) ==
             /\ l \in Seq(Servers)
             /\ \A i \in 1 .. Len(l) : \E k \in 1 .. n : l[i] = Sorted[k] /\ l[i] \in S
             /\ \A i, j \in 1 .. Len(l) : l[i] = l[j] => i = j
           T == {n \in Nat : n <= N => Good(f[n], n)}
<1> HIDE DEF N, Good
<1>3. 0 \in T
  <2>1. f[0] = <<>>
    <3>1. 0 \in 0 .. N
      BY <1>2
    <3>2. QED
      BY <1>1, <3>1
  <2>2. Good(<<>>, 0)
    BY DEF Good
  <2>3. QED
    BY <2>1, <2>2
<1>4. ASSUME NEW n \in Nat, n \in T, n + 1 <= N PROVE Good(f[n + 1], n + 1)
  <2>1. Good(f[n], n)
    BY <1>2, <1>4
  <2>2. n + 1 \in 0 .. N /\ n + 1 # 0 /\ (n + 1) - 1 = n /\ n + 1 \in 1 .. N
    BY <1>2, <1>4
  <2>3. f[n + 1] = IF Sorted[n + 1] \in S THEN Append(f[n], Sorted[n + 1]) ELSE f[n]
    BY <1>1, <2>2
  <2>4. PICK l \in Seq(Servers) : l = f[n] /\ Good(l, n)
    BY <2>1 DEF Good
  <2>5. CASE Sorted[n + 1] \notin S
    <3>1. f[n + 1] = l
      BY <2>3, <2>4, <2>5
    <3>2. Good(l, n + 1)
      BY <2>4 DEF Good
    <3>3. QED
      BY <3>1, <3>2
  <2>6. CASE Sorted[n + 1] \in S
    <3>1. PICK x \in Servers : x = Sorted[n + 1]
      BY <1>2, <2>2
    <3>2. PICK h \in Seq(Servers) : h = Append(l, x)
      BY AppendProperties
    <3>3. f[n + 1] = h
      BY <2>3, <2>4, <2>6, <3>1, <3>2
    <3>4. /\ Len(l) \in Nat /\ Len(h) = Len(l) + 1
          /\ \A i \in 1 .. Len(l) : h[i] = l[i]
          /\ h[Len(l) + 1] = x
      BY <3>2
    <3>5. ASSUME NEW i \in 1 .. Len(h) PROVE \E k \in 1 .. n + 1 : h[i] = Sorted[k] /\ h[i] \in S
      <4>1. CASE i = Len(l) + 1
        BY <2>6, <3>1, <3>4, <4>1
      <4>2. CASE i \in 1 .. Len(l)
        BY <2>4, <3>4, <4>2 DEF Good
      <4>3. QED
        BY <3>4, <4>1, <4>2
    <3>6. ASSUME NEW i \in 1 .. Len(l) PROVE l[i] # x
      <4>1. PICK k \in 1 .. n : l[i] = Sorted[k]
        BY <2>4 DEF Good
      <4>2. k \in 1 .. N /\ k # n + 1
        BY <1>2, <2>2
      <4>3. QED
        BY <1>2, <2>2, <3>1, <4>1, <4>2
    <3>7. \A i, j \in 1 .. Len(l) : l[i] = l[j] => i = j
      BY <2>4 DEF Good
    <3>8. \A i, j \in 1 .. Len(h) : h[i] = h[j] => i = j
      BY <3>4, <3>6, <3>7
    <3>9. QED
      BY <3>3, <3>5, <3>8 DEF Good
  <2>7. QED
    BY <2>5, <2>6
<1>5. Good(f[N], N)
  <2>0. ASSUME NEW n \in Nat, n \in T PROVE n + 1 \in T
    BY <1>4, <2>0
  <2>1. N \in T
    <3> HIDE DEF T
    <3>1. QED
      BY <1>2, <1>3, <2>0, SetInduction
  <2>2. QED
    BY <1>2, <2>1
<1>6. PICK l \in Seq(Servers) : l = Listing(S) /\ Good(l, N)
  BY <1>1, <1>5 DEF Good
<1>7. QED
  BY <1>6 DEF ToSet, IsInjective, Good

-----------------------------------------------------------------------------
(* The position in the circle *)

\* There is one remainder.
LEMMA Remainder ==
  ASSUME NEW n \in Nat \ {0}, NEW q \in Nat, NEW r \in 0 .. n - 1
  PROVE  (n * q + r) % n = r
<1> DEFINE x == n * q + r
<1>1. PICK d \in Nat, e \in 0 .. n - 1 : x = n * d + e /\ x % n = e
  OBVIOUS
<1>2. CASE d < q
  <2>1. PICK k \in Nat : q = d + 1 + k
    BY <1>2
  <2>2. n * q = n * d + n + n * k /\ n * k \in Nat
    BY <2>1
  <2>3. QED
    BY <1>1, <2>2
<1>3. CASE q < d
  <2>1. PICK k \in Nat : d = q + 1 + k
    BY <1>3
  <2>2. n * d = n * q + n + n * k /\ n * k \in Nat
    BY <2>1
  <2>3. QED
    BY <1>1, <2>2
<1>4. CASE q = d
  BY <1>1, <1>4
<1>5. QED
  BY <1>2, <1>3, <1>4

\* A remainder that is small enough is the number.
LEMMA SmallRemainder ==
  ASSUME NEW n \in Nat \ {0}, NEW x \in 0 .. n - 1
  PROVE  x % n = x
OBVIOUS

\* A number in the second round.
LEMMA SecondRemainder ==
  ASSUME NEW n \in Nat \ {0}, NEW x \in n .. 2 * n - 1
  PROVE  x % n = x - n
OBVIOUS

\* A remainder is a position in the circle.
LEMMA RemainderRange ==
  ASSUME NEW n \in Nat \ {0}, NEW x \in Nat
  PROVE  x % n \in 0 .. n - 1
OBVIOUS

\* The position after that of x.
LEMMA NextRemainder ==
  ASSUME NEW n \in Nat \ {0}, NEW x \in Nat
  PROVE  (x + 1) % n = ((x % n) + 1) % n
<1>1. PICK q \in Nat, r \in 0 .. n - 1 : x = n * q + r /\ x % n = r
  OBVIOUS
<1>2. CASE r + 1 \in 0 .. n - 1
  <2>1. (n * q + (r + 1)) % n = r + 1
    BY <1>2, Remainder
  <2>2. (r + 1) % n = r + 1
    BY <1>2, SmallRemainder
  <2>3. x + 1 = n * q + (r + 1)
    BY <1>1
  <2>4. QED
    BY <1>1, <2>1, <2>2, <2>3
<1>3. CASE r + 1 = n
  <2>1. 0 \in 0 .. n - 1 /\ q + 1 \in Nat /\ n \in n .. 2 * n - 1
    OBVIOUS
  <2>2. (n * (q + 1) + 0) % n = 0
    BY <2>1, Remainder
  <2>3. n % n = n - n
    BY <2>1, SecondRemainder
  <2>4. x + 1 = n * (q + 1) + 0
    BY <1>1, <1>3
  <2>5. QED
    BY <1>1, <1>3, <2>2, <2>3, <2>4
<1>4. QED
  BY <1>2, <1>3

\* Different numbers of places behind b are different places.
LEMMA PlaceInjective ==
  ASSUME NEW n \in Nat \ {0}, NEW b \in 0 .. n - 1, NEW i \in 1 .. n, NEW j \in 1 .. n
  PROVE  /\ Place(b, i, n) \in 1 .. n
         /\ Place(b, i, n) = Place(b, j, n) => i = j
BY DEF Place

-----------------------------------------------------------------------------
(* The steps of the registry *)

\* A step of Discovery is one of the registry, or leaves it alone.
LEMMA RegistryStepOfNext == [Next]_vars => [RegistryNext]_registryVars
<1> SUFFICES ASSUME [Next]_vars PROVE [RegistryNext]_registryVars
  OBVIOUS
<1>1. CASE RegistryStep /\ UNCHANGED dvars
  BY <1>1 DEF RegistryNext
<1>2. ASSUME NEW g \in Goroutines, Call(g) \/ Refresh(g) \/ RefreshFails(g) \/ Select(g)
      PROVE  [RegistryNext]_registryVars
  <2>1. CASE Call(g)
    BY <2>1 DEF Call
  <2>2. CASE RefreshNotDue(g)
    BY <2>2 DEF RefreshNotDue
  <2>3. CASE RefreshDue(g)
    BY <2>3 DEF RefreshDue
  <2>4. CASE ServeList(g)
    BY <2>4 DEF ServeList, RegistryNext
  <2>5. CASE StoreList(g)
    BY <2>5 DEF StoreList
  <2>6. CASE RefreshFails(g)
    BY <2>6 DEF RefreshFails
  <2>7. CASE GetNone(g)
    BY <2>7 DEF GetNone
  <2>8. CASE GetRoundRobin(g)
    BY <2>8 DEF GetRoundRobin
  <2>9. CASE GetRandom(g)
    BY <2>9 DEF GetRandom
  <2>10. CASE GetAll(g)
    BY <2>10 DEF GetAll
  <2>11. QED
    BY <1>2, <2>1, <2>2, <2>3, <2>4, <2>5, <2>6, <2>7, <2>8, <2>9, <2>10
      DEF Refresh, Select
<1>3. CASE TimePasses
  BY <1>3 DEF TimePasses, RegistryNext
<1>4. CASE UNCHANGED vars
  BY <1>4 DEF vars
<1>5. QED
  BY <1>1, <1>2, <1>3, <1>4 DEF Next

\* Servers are not silent for longer because of a step that takes no time.
LEMMA RegistryStepSilence ==
  ASSUME RegistryTypeOK, RegistryStep
  PROVE  \A s \in Servers : silent'[s] \in Nat /\ silent'[s] <= silent[s]
<1> USE DEF RegistryTypeOK
<1>1. ASSUME NEW r \in Servers,
             StartServer(r) \/ HeartbeatFails(r) \/ StopServer(r) \/ Beat(r)
      PROVE  silent' = silent \/ silent' = [silent EXCEPT ![r] = 0]
  BY <1>1 DEF StartServer, HeartbeatFails, StopServer, Beat, HeartbeatOk, TickerFires,
              PutServer, LosePost, Post
<1>2. CASE StopRegistry \/ StartRegistry
  BY <1>2 DEF StopRegistry, StartRegistry
<1>3. QED
  BY <1>1, <1>2 DEF RegistryStep

\* Nor for longer than the time that passes.
LEMMA TickSilence ==
  ASSUME RegistryTypeOK, Tick
  PROVE  \A s \in Servers : silent'[s] \in Nat /\ silent'[s] <= silent[s] + 1
BY RegistryAssumption DEF RegistryTypeOK, Tick, Elapse

-----------------------------------------------------------------------------
(* The invariant *)

\* Nobody has asked yet.
LEMMA DiscoveryInvInit == Init => DiscoveryInv
<1> SUFFICES ASSUME Init PROVE DiscoveryInv
  OBVIOUS
<1>1. TypeOK
  <2>1. RegistryTypeOK
    BY RegistryInvInit DEF Init, RegistryInv
  <2>2. RefreshPeriod \in 0 .. RefreshPeriod /\ 0 \in 0 .. MaxDelay
    BY DiscoveryAssumption, RegistryAssumption
  <2>3. index \in Nat
    BY DiscoveryAssumption DEF Init
  <2>4. QED
    BY <2>1, <2>2, <2>3 DEF Init, TypeOK
<1>2. LockInv
  BY DiscoveryAssumption DEF Init, LockInv
<1>3. SelectInv /\ ResponseInv
  BY DEF Init, SelectInv, ResponseInv
<1>4. ListInv
  BY DiscoveryAssumption DEF Init, ListInv, Fresh
<1>5. TurnInv
  <2>1. list = <<>> /\ turn = <<>>
    BY DEF Init
  <2>2. IsInjective(<<>>)
    BY DEF IsInjective
  <2>3. QED
    BY <2>1, <2>2 DEF TurnInv
<1>6. QED
  BY <1>1, <1>2, <1>3, <1>4, <1>5 DEF DiscoveryInv

\* Every step keeps the types.
LEMMA TypeStep ==
  ASSUME DiscoveryInv, RegistryInv, RegistryTypeOK', [Next]_vars
  PROVE  TypeOK'
<1> USE DiscoveryAssumption, RegistryAssumption DEF DiscoveryInv, TypeOK
<1>1. CASE RegistryStep /\ UNCHANGED dvars
  BY <1>1 DEF dvars
<1>2. ASSUME NEW g \in Goroutines, Call(g) PROVE TypeOK'
  BY <1>2 DEF Call, Goto
<1>3. ASSUME NEW g \in Goroutines, RefreshNotDue(g) PROVE TypeOK'
  BY <1>3 DEF RefreshNotDue, Goto
<1>4. ASSUME NEW g \in Goroutines, RefreshDue(g) PROVE TypeOK'
  BY <1>4 DEF RefreshDue, Goto
<1>5. ASSUME NEW g \in Goroutines, ServeList(g) PROVE TypeOK'
  BY <1>5 DEF ServeList, Goto, AliveServers
<1>6. ASSUME NEW g \in Goroutines, StoreList(g) PROVE TypeOK'
  BY <1>6, ListingFacts DEF StoreList, Goto
<1>7. ASSUME NEW g \in Goroutines, RefreshFails(g) PROVE TypeOK'
  BY <1>7 DEF RefreshFails, Return, Goto
<1>8. ASSUME NEW g \in Goroutines, GetNone(g) PROVE TypeOK'
  BY <1>8 DEF GetNone, Return, Goto
<1>9. ASSUME NEW g \in Goroutines, GetRoundRobin(g) PROVE TypeOK'
  <2>1. Len(list) \in Nat \ {0}
    BY <1>9 DEF GetRoundRobin
  <2>2. index % Len(list) \in 0 .. Len(list) - 1 /\ (index + 1) % Len(list) \in Nat
    <3>1. PICK n \in Nat \ {0}, i \in Nat : n = Len(list) /\ i = index
      BY <2>1
    <3>2. i + 1 \in Nat
      OBVIOUS
    <3>3. i % n \in 0 .. n - 1 /\ (i + 1) % n \in 0 .. n - 1
      BY <3>2, RemainderRange
    <3>4. QED
      BY <3>1, <3>3
  <2>3. PICK s \in Servers : s = Nth(index)
    BY <2>1, <2>2 DEF Nth
  <2>4. index' \in Nat
    BY <1>9, <2>2 DEF GetRoundRobin
  <2>5. turn' = Append(<<>>, s) \/ turn' = Append(turn, s)
    BY <1>9, <2>3 DEF GetRoundRobin
  <2>6. turn' \in Seq(Servers)
    <3>1. Append(<<>>, s) \in Seq(Servers) /\ Append(turn, s) \in Seq(Servers)
      BY AppendProperties, EmptySeq
    <3>2. QED
      BY <2>5, <3>1
  <2>7. got' = [got EXCEPT ![g] = {s}]
    BY <1>9, <2>3 DEF GetRoundRobin, Return
  <2>8. QED
    BY <1>9, <2>4, <2>6, <2>7 DEF GetRoundRobin, Return, Goto
<1>10. ASSUME NEW g \in Goroutines, GetRandom(g) PROVE TypeOK'
  BY <1>10 DEF GetRandom, Return, Goto, ToSet
<1>11. ASSUME NEW g \in Goroutines, GetAll(g) PROVE TypeOK'
  BY <1>11 DEF GetAll, Return, Goto, ToSet
<1>12. CASE TimePasses
  BY <1>12 DEF TimePasses, Prompt, Elapse, Unlocked
<1>13. CASE UNCHANGED vars
  BY <1>13 DEF vars, dvars
<1>14. QED
  BY <1>1, <1>2, <1>3, <1>4, <1>5, <1>6, <1>7, <1>8, <1>9, <1>10, <1>11, <1>12, <1>13
    DEF Next, Refresh, Select

\* The lock is taken and released with the request.
LEMMA LockStep ==
  ASSUME DiscoveryInv, RegistryInv, RegistryTypeOK', [Next]_vars
  PROVE  LockInv'
<1> USE DiscoveryAssumption DEF DiscoveryInv, TypeOK, LockInv, Unlocked
<1>1. CASE RegistryStep /\ UNCHANGED dvars
  BY <1>1 DEF dvars
<1>2. ASSUME NEW g \in Goroutines, Call(g) PROVE LockInv'
  BY <1>2 DEF Call, Goto
<1>3. ASSUME NEW g \in Goroutines, RefreshNotDue(g) PROVE LockInv'
  BY <1>3 DEF RefreshNotDue, Goto
<1>4. ASSUME NEW g \in Goroutines, RefreshDue(g) PROVE LockInv'
  BY <1>4 DEF RefreshDue, Goto
<1>5. ASSUME NEW g \in Goroutines, ServeList(g) PROVE LockInv'
  BY <1>5 DEF ServeList, Goto
<1>6. ASSUME NEW g \in Goroutines, StoreList(g) PROVE LockInv'
  BY <1>6 DEF StoreList, Goto
<1>7. ASSUME NEW g \in Goroutines, RefreshFails(g) PROVE LockInv'
  BY <1>7 DEF RefreshFails, Return, Goto
<1>8. ASSUME NEW g \in Goroutines, GetNone(g) PROVE LockInv'
  BY <1>8 DEF GetNone, Return, Goto
<1>9. ASSUME NEW g \in Goroutines, GetRoundRobin(g) PROVE LockInv'
  BY <1>9 DEF GetRoundRobin, Return, Goto
<1>10. ASSUME NEW g \in Goroutines, GetRandom(g) PROVE LockInv'
  BY <1>10 DEF GetRandom, Return, Goto
<1>11. ASSUME NEW g \in Goroutines, GetAll(g) PROVE LockInv'
  BY <1>11 DEF GetAll, Return, Goto
<1>12. CASE TimePasses
  BY <1>12 DEF TimePasses
<1>13. CASE UNCHANGED vars
  BY <1>13 DEF vars, dvars
<1>14. QED
  BY <1>1, <1>2, <1>3, <1>4, <1>5, <1>6, <1>7, <1>8, <1>9, <1>10, <1>11, <1>12, <1>13
    DEF Next, Refresh, Select

\* No request begins while a goroutine may select.
LEMMA SelectStep ==
  ASSUME DiscoveryInv, RegistryInv, RegistryTypeOK', [Next]_vars
  PROVE  SelectInv'
<1> USE DiscoveryAssumption DEF DiscoveryInv, TypeOK, LockInv, SelectInv, Unlocked, Fresh
<1>1. CASE RegistryStep /\ UNCHANGED dvars
  BY <1>1 DEF dvars
<1>2. ASSUME NEW g \in Goroutines, Call(g) PROVE SelectInv'
  BY <1>2 DEF Call, Goto
<1>3. ASSUME NEW g \in Goroutines, RefreshNotDue(g) PROVE SelectInv'
  BY <1>3 DEF RefreshNotDue, Goto
<1>4. ASSUME NEW g \in Goroutines, RefreshDue(g) PROVE SelectInv'
  BY <1>4 DEF RefreshDue, Goto
<1>5. ASSUME NEW g \in Goroutines, ServeList(g) PROVE SelectInv'
  BY <1>5 DEF ServeList, Goto
<1>6. ASSUME NEW g \in Goroutines, StoreList(g) PROVE SelectInv'
  BY <1>6 DEF StoreList, Goto
<1>7. ASSUME NEW g \in Goroutines, RefreshFails(g) PROVE SelectInv'
  BY <1>7 DEF RefreshFails, Return, Goto
<1>8. ASSUME NEW g \in Goroutines, GetNone(g) PROVE SelectInv'
  BY <1>8 DEF GetNone, Return, Goto
<1>9. ASSUME NEW g \in Goroutines, GetRoundRobin(g) PROVE SelectInv'
  BY <1>9 DEF GetRoundRobin, Return, Goto
<1>10. ASSUME NEW g \in Goroutines, GetRandom(g) PROVE SelectInv'
  BY <1>10 DEF GetRandom, Return, Goto
<1>11. ASSUME NEW g \in Goroutines, GetAll(g) PROVE SelectInv'
  BY <1>11 DEF GetAll, Return, Goto
<1>12. CASE TimePasses
  BY <1>12 DEF TimePasses, Prompt
<1>13. CASE UNCHANGED vars
  BY <1>13 DEF vars, dvars
<1>14. QED
  BY <1>1, <1>2, <1>3, <1>4, <1>5, <1>6, <1>7, <1>8, <1>9, <1>10, <1>11, <1>12, <1>13
    DEF Next, Refresh, Select

\* A response gets older only on its way.
LEMMA ResponseStep ==
  ASSUME DiscoveryInv, RegistryInv, RegistryTypeOK', [Next]_vars
  PROVE  ResponseInv'
<1> USE DiscoveryAssumption, RegistryAssumption DEF DiscoveryInv, TypeOK, LockInv, ResponseInv, Unlocked
<1>1. CASE RegistryStep /\ UNCHANGED dvars
  <2>1. \A s \in Servers : silent'[s] \in Nat /\ silent'[s] <= silent[s]
    BY <1>1, RegistryStepSilence
  <2>2. UNCHANGED <<pc, response, fetching>>
    BY <1>1 DEF dvars
  <2>3. \A s \in Servers : silent[s] \in Nat
    BY DEF RegistryTypeOK
  <2>4. response \subseteq Servers /\ fetching \in Nat /\ Timeout + MaxDelay \in Nat
    OBVIOUS
  <2>5. ASSUME NEW g \in Goroutines, pc[g] = "received", NEW s \in response
        PROVE  silent'[s] < Timeout + MaxDelay + fetching
    <3>1. silent[s] < Timeout + MaxDelay + fetching
      BY <2>5
    <3>2. QED
      BY ONLY <2>1, <2>3, <2>4, <3>1
  <2>6. QED
    BY <2>2, <2>5
<1>2. ASSUME NEW g \in Goroutines, Call(g) PROVE ResponseInv'
  BY <1>2 DEF Call, Goto, registryVars
<1>3. ASSUME NEW g \in Goroutines, RefreshNotDue(g) PROVE ResponseInv'
  BY <1>3 DEF RefreshNotDue, Goto, registryVars
<1>4. ASSUME NEW g \in Goroutines, RefreshDue(g) PROVE ResponseInv'
  BY <1>4 DEF RefreshDue, Goto
<1>5. ASSUME NEW g \in Goroutines, ServeList(g) PROVE ResponseInv'
  <2>1. \A s \in AliveServers : silent[s] < Timeout + MaxDelay
    BY DEF RegistryInv, RegistryTypeOK, SilenceInv, AliveServers, Listed, Expired
  <2>2. UNCHANGED silent /\ fetching' = 0 /\ response' = AliveServers
    BY <1>5 DEF ServeList, GetServers
  <2>3. \A s \in AliveServers : silent[s] \in Nat
    BY DEF RegistryTypeOK, AliveServers
  <2>4. \A s \in response' : silent'[s] < Timeout + MaxDelay + fetching'
    BY <2>1, <2>2, <2>3
  <2>5. QED
    BY <2>4
<1>6. ASSUME NEW g \in Goroutines, StoreList(g) PROVE ResponseInv'
  BY <1>6 DEF StoreList, Goto, registryVars
<1>7. ASSUME NEW g \in Goroutines, RefreshFails(g) PROVE ResponseInv'
  BY <1>7 DEF RefreshFails, Return, Goto, registryVars
<1>8. ASSUME NEW g \in Goroutines, GetNone(g) PROVE ResponseInv'
  BY <1>8 DEF GetNone, Return, Goto, registryVars
<1>9. ASSUME NEW g \in Goroutines, GetRoundRobin(g) PROVE ResponseInv'
  BY <1>9 DEF GetRoundRobin, Return, Goto, registryVars
<1>10. ASSUME NEW g \in Goroutines, GetRandom(g) PROVE ResponseInv'
  BY <1>10 DEF GetRandom, Return, Goto, registryVars
<1>11. ASSUME NEW g \in Goroutines, GetAll(g) PROVE ResponseInv'
  BY <1>11 DEF GetAll, Return, Goto, registryVars
<1>12. CASE TimePasses
  <2>1. \A s \in Servers : silent'[s] \in Nat /\ silent'[s] <= silent[s] + 1
    BY <1>12, TickSilence DEF TimePasses
  <2>2. UNCHANGED <<pc, response>> /\ fetching' = IF Receiving THEN fetching + 1 ELSE fetching
    BY <1>12 DEF TimePasses
  <2>3. \A g \in Goroutines : pc[g] = "received" => Receiving
    BY DEF Receiving
  <2>4. \A s \in Servers : silent[s] \in Nat
    BY DEF RegistryTypeOK
  <2>5. response \subseteq Servers /\ fetching \in Nat /\ Timeout + MaxDelay \in Nat
    OBVIOUS
  <2>6. ASSUME NEW g \in Goroutines, pc[g] = "received", NEW s \in response
        PROVE  silent'[s] < Timeout + MaxDelay + fetching'
    <3>1. silent[s] < Timeout + MaxDelay + fetching
      BY <2>6
    <3>2. fetching' = fetching + 1
      BY <2>2, <2>3, <2>6
    <3>3. QED
      BY ONLY <2>1, <2>4, <2>5, <3>1, <3>2
  <2>7. QED
    BY <2>2, <2>6
<1>13. CASE UNCHANGED vars
  BY <1>13 DEF vars, dvars, registryVars
<1>14. QED
  BY <1>1, <1>2, <1>3, <1>4, <1>5, <1>6, <1>7, <1>8, <1>9, <1>10, <1>11, <1>12, <1>13
    DEF Next, Refresh, Select

\* The list gets older only with the time since it was stored.
LEMMA ListStep ==
  ASSUME DiscoveryInv, RegistryInv, RegistryTypeOK', [Next]_vars
  PROVE  ListInv'
<1>0. /\ \A s \in ToSet(list) : s \in Servers
      /\ \A s \in Servers : silent[s] \in Nat
  <2>1. list \in Seq(Servers) /\ silent \in [Servers -> 0 .. MaxSilence]
    BY DEF DiscoveryInv, TypeOK, RegistryTypeOK
  <2>2. QED
    BY ONLY <2>1, RegistryAssumption DEF ToSet, RegistryAssumption
<1> USE DiscoveryAssumption, RegistryAssumption DEF DiscoveryInv, TypeOK, ListInv, Fresh
<1>1. CASE RegistryStep /\ UNCHANGED dvars
  <2>1. \A s \in Servers : silent'[s] \in Nat /\ silent'[s] <= silent[s]
    BY <1>1, RegistryStepSilence
  <2>2. UNCHANGED <<list, updated>>
    BY <1>1 DEF dvars
  <2>3. ASSUME Fresh, NEW s \in ToSet(list)
        PROVE  silent'[s] < Timeout + 2 * MaxDelay + updated
    <3>1. silent[s] < Timeout + 2 * MaxDelay + updated /\ s \in Servers
      BY <1>0, <2>3
    <3>2. updated \in Nat /\ Timeout \in Nat /\ MaxDelay \in Nat
      OBVIOUS
    <3>3. QED
      BY ONLY <1>0, <2>1, <3>1, <3>2
  <2>4. QED
    BY <2>2, <2>3
<1>2. ASSUME NEW g \in Goroutines,
             \/ Call(g) \/ RefreshNotDue(g) \/ RefreshDue(g) \/ ServeList(g)
             \/ RefreshFails(g) \/ Select(g)
      PROVE  ListInv'
  <2>1. UNCHANGED <<silent, list, updated>>
    BY <1>2 DEF Call, RefreshNotDue, RefreshDue, ServeList, GetServers, RefreshFails,
                Select, GetNone, GetRoundRobin, GetRandom, GetAll, registryVars
  <2>2. QED
    BY <2>1
<1>3. ASSUME NEW g \in Goroutines, StoreList(g) PROVE ListInv'
  <2>1. /\ list' = Listing(response)
        /\ updated' = 0
        /\ UNCHANGED silent
        /\ pc[g] = "received"
    BY <1>3 DEF StoreList, registryVars
  <2>2. \A s \in response : silent[s] < Timeout + MaxDelay + fetching
    BY <2>1 DEF ResponseInv
  <2>3. \A s \in ToSet(list') : s \in response
    BY <2>1, ListingFacts
  <2>4. \A s \in ToSet(list') : silent[s] < Timeout + 2 * MaxDelay + 0
    BY <1>0, <2>2, <2>3
  <2>5. QED
    BY <2>1, <2>4
<1>4. CASE TimePasses
  <2>1. \A s \in Servers : silent'[s] \in Nat /\ silent'[s] <= silent[s] + 1
    BY <1>4, TickSilence DEF TimePasses
  <2>2. /\ UNCHANGED list
        /\ updated' = Elapse(updated, RefreshPeriod)
    BY <1>4 DEF TimePasses
  <2>3. CASE Fresh
    <3>1. updated' = updated + 1
      BY <2>2, <2>3 DEF Elapse
    <3>2. QED
      BY <1>0, <2>1, <2>2, <2>3, <3>1
  <2>4. CASE ~Fresh
    BY <2>2, <2>4 DEF Elapse
  <2>5. QED
    BY <2>3, <2>4
<1>5. CASE UNCHANGED vars
  BY <1>5 DEF vars, dvars, registryVars
<1>6. QED
  BY <1>1, <1>2, <1>3, <1>4, <1>5 DEF Next, Refresh

\* Round robin goes on behind the last server it chose.
LEMMA TurnStep ==
  ASSUME DiscoveryInv, RegistryInv, RegistryTypeOK', [Next]_vars
  PROVE  TurnInv'
<1> USE DEF DiscoveryInv
<1>1. CASE UNCHANGED <<list, turn, index>>
  BY <1>1 DEF TurnInv
<1>2. ASSUME NEW g \in Goroutines, StoreList(g) PROVE TurnInv'
  <2>1. CASE list' = list
    BY <1>1, <1>2, <2>1 DEF StoreList
  <2>2. CASE list' # list
    <3>1. turn' = <<>> /\ list' = Listing(response)
      BY <1>2, <2>2 DEF StoreList
    <3>2. PICK l \in Seq(Servers) : l = Listing(response) /\ IsInjective(l)
      BY ListingFacts
    <3>3. list' = l /\ Len(<<>>) <= Len(l)
      BY <3>1, <3>2
    <3>4. IsInjective(list')
      BY <3>2, <3>3
    <3>5. QED
      BY <3>1, <3>3, <3>4 DEF TurnInv
  <2>3. QED
    BY <2>1, <2>2
<1>3. ASSUME NEW g \in Goroutines, GetRoundRobin(g) PROVE TurnInv'
  <2> DEFINE n == Len(list)
  <2>1. list \in Seq(Servers) /\ turn \in Seq(Servers) /\ index \in Nat
    BY DEF TypeOK
  <2>2. n \in Nat \ {0}
    BY <1>3, <2>1 DEF GetRoundRobin
  <2>3. /\ index' = (index + 1) % n
        /\ UNCHANGED list
        /\ turn' = Append(IF Len(turn) = n THEN <<>> ELSE turn, list[(index % n) + 1])
    BY <1>3 DEF GetRoundRobin, Nth
  <2>4. IsInjective(list')
    BY <2>3 DEF TurnInv
  <2>5. index % n \in 0 .. n - 1 /\ (index + 1) % n = ((index % n) + 1) % n
    BY <2>1, <2>2, RemainderRange, NextRemainder
  <2>6. Len(turn) \in Nat /\ Len(turn) <= n
    BY <2>1 DEF TurnInv
  <2>7. CASE turn = <<>> \/ Len(turn) = n
    <3>1. PICK x \in Servers : x = list[(index % n) + 1]
      BY <2>1, <2>2, <2>5
    <3>2. turn' = <<x>>
      <4>1. turn' = Append(<<>>, x)
        BY <2>3, <2>7, <3>1
      <4>2. QED
        BY <4>1
    <3>3. Len(turn') = 1 /\ turn'[1] = x
      BY <3>2
    <3>4. PICK b \in 0 .. n - 1 : b = index % n
      BY <2>5
    <3>5. Place(b, 1, n) = b + 1
      BY <2>2, <3>4 DEF Place
    <3>6. \A i \in 1 .. 1 : turn'[i] = list[Place(b, i, n)]
      BY <3>1, <3>3, <3>4, <3>5
    <3>7. index' = (b + 1) % n
      BY <2>3, <2>5, <3>4
    <3>8. /\ Len(turn') <= Len(list')
          /\ b \in 0 .. Len(list') - 1
          /\ \A i \in 1 .. Len(turn') : turn'[i] = list'[Place(b, i, Len(list'))]
          /\ index' = (b + Len(turn')) % Len(list')
      <4>1. Len(list') = n /\ list' = list
        BY <2>3
      <4> HIDE DEF n
      <4>2. \A i \in 1 .. Len(turn') : turn'[i] = list'[Place(b, i, Len(list'))]
        BY <3>3, <3>6, <4>1
      <4>3. index' = (b + Len(turn')) % Len(list')
        BY <3>3, <3>7, <4>1
      <4>4. QED
        BY <2>2, <3>3, <4>1, <4>2, <4>3
    <3>9. QED
      BY <2>4, <3>8 DEF TurnInv
  <2>8. CASE turn # <<>> /\ Len(turn) # n
    <3>1. PICK b \in 0 .. n - 1 :
            /\ \A i \in 1 .. Len(turn) : turn[i] = list[Place(b, i, n)]
            /\ index = (b + Len(turn)) % n
      BY <2>8 DEF TurnInv
    <3>2. PICK k \in 1 .. n - 1 : k = Len(turn)
      BY <2>1, <2>2, <2>6, <2>8
    <3>3. b + k \in Nat /\ n \in Nat
      BY <2>2
    <3>4. index \in 0 .. n - 1
      BY <2>2, <3>1, <3>2, <3>3, RemainderRange
    <3>5. index % n = index
      BY <2>2, <3>4, SmallRemainder
    <3>6. index + 1 = Place(b, k + 1, n)
      <4>1. CASE b + k <= n - 1
        <5>1. b + k \in 0 .. n - 1
          BY <3>3, <4>1
        <5>2. index = b + k
          BY <2>2, <3>1, <3>2, <5>1, SmallRemainder
        <5>3. QED
          BY <3>3, <4>1, <5>2 DEF Place
      <4>2. CASE b + k >= n
        <5>1. b + k \in n .. 2 * n - 1
          BY <2>2, <4>2
        <5>2. index = b + k - n
          BY <2>2, <3>1, <3>2, <5>1, SecondRemainder
        <5>3. QED
          BY <2>2, <4>2, <5>2 DEF Place
      <4>3. QED
        BY <2>2, <4>1, <4>2
    <3>7. (b + k + 1) % n = (((b + k) % n) + 1) % n
      BY <2>2, <3>3, NextRemainder
    <3>8. index' = (b + (k + 1)) % n
      <4>1. index' = (((b + k) % n) + 1) % n
        BY <2>3, <3>1, <3>2
      <4>2. b + (k + 1) = b + k + 1
        OBVIOUS
      <4>3. QED
        BY <3>7, <4>1, <4>2
    <3>9. PICK x \in Servers : x = list[index + 1]
      BY <2>1, <2>2, <3>4
    <3>10. turn' = Append(turn, x)
      BY <2>3, <2>8, <3>5, <3>9
    <3>11. /\ Len(turn') = k + 1
           /\ \A i \in 1 .. k : turn'[i] = turn[i]
           /\ turn'[k + 1] = x
      BY <2>1, <3>2, <3>10
    <3>12. ASSUME NEW i \in 1 .. k + 1 PROVE turn'[i] = list[Place(b, i, n)]
      <4>1. CASE i = k + 1
        BY <3>6, <3>9, <3>11, <4>1
      <4>2. CASE i \in 1 .. k
        BY <3>1, <3>2, <3>11, <4>2
      <4>3. QED
        BY <4>1, <4>2
    <3>13. k + 1 <= n
      BY <2>2, <3>2
    <3>14. QED
      BY <2>3, <2>4, <3>8, <3>11, <3>12, <3>13 DEF TurnInv
  <2>9. QED
    BY <2>7, <2>8
<1>4. ASSUME NEW g \in Goroutines,
             \/ Call(g) \/ RefreshNotDue(g) \/ RefreshDue(g) \/ ServeList(g)
             \/ RefreshFails(g) \/ GetNone(g) \/ GetRandom(g) \/ GetAll(g)
      PROVE  UNCHANGED <<list, turn, index>>
  BY <1>4 DEF Call, RefreshNotDue, RefreshDue, ServeList, RefreshFails,
              GetNone, GetRandom, GetAll
<1>5. CASE TimePasses
  BY <1>1, <1>5 DEF TimePasses
<1>6. CASE UNCHANGED dvars
  BY <1>1, <1>6 DEF dvars
<1>7. QED
  BY <1>1, <1>2, <1>3, <1>4, <1>5, <1>6 DEF Next, Refresh, Select, vars

-----------------------------------------------------------------------------
(* Theorems *)

\* A process that asks the registry for servers, however many of its goroutines
\* do so at a time, does nothing to the registry that module Registry does not
\* allow for.
THEOREM RegistryImplemented == Spec => RegistrySpec
<1>1. Init => RegistryInit
  BY DEF Init
<1>2. QED
  BY <1>1, RegistryStepOfNext, PTL DEF Spec, RegistrySpec

\* The state of the cached list and of the goroutines that use it is consistent,
\* beside that of the registry.
THEOREM DiscoveryInvariance == Spec => [](DiscoveryInv /\ RegistryInv)
<1>1. RegistryInv => RegistryTypeOK
  BY DEF RegistryInv
<1>2. Spec => []RegistryInv
  BY RegistryImplemented, RegistryInvariance, PTL
<1>3. DiscoveryInv /\ RegistryInv /\ RegistryTypeOK' /\ [Next]_vars => DiscoveryInv'
  BY TypeStep, LockStep, SelectStep, ResponseStep, ListStep, TurnStep DEF DiscoveryInv
<1>4. QED
  BY <1>1, <1>2, <1>3, DiscoveryInvInit, PTL DEF Spec

\* The lists, positions, times and results keep their types.
THEOREM DiscoveryTypeCorrect == Spec => []TypeOK
<1>1. DiscoveryInv => TypeOK
  BY DEF DiscoveryInv
<1>2. QED
  BY <1>1, DiscoveryInvariance, PTL

\* No caller is given a server that has been silent for longer than the registry's
\* timeout, the client's and two requests together.
THEOREM GivenServersRecent == Spec => GivenIsRecent
<1>1. DiscoveryInv /\ [Next]_vars =>
        [\A g \in Goroutines : \A s \in got'[g] \ got[g] :
           silent[s] < Timeout + 2 * MaxDelay + RefreshPeriod]_vars
  <2> SUFFICES ASSUME DiscoveryInv, [Next]_vars, NEW h \in Goroutines, NEW s \in got'[h] \ got[h]
               PROVE  silent[s] < Timeout + 2 * MaxDelay + RefreshPeriod
    OBVIOUS
  <2> USE DEF DiscoveryInv
  <2>1. ASSUME UNCHANGED got PROVE FALSE
    BY <2>1
  <2>2. ASSUME NEW g \in Goroutines, NEW S,
               got' = [got EXCEPT ![g] = S]
        PROVE  h = g /\ s \in S
    BY <2>2 DEF TypeOK
  <2>3. ASSUME NEW g \in Goroutines, Select(g) PROVE s \in ToSet(list) /\ pc[g] = "select"
    <3>1. CASE GetNone(g)
      BY <2>2, <3>1 DEF GetNone, Return
    <3>2. CASE GetRoundRobin(g)
      <4>1. Len(list) \in Nat \ {0} /\ index \in Nat
        BY <3>2 DEF GetRoundRobin, TypeOK
      <4>2. (index % Len(list)) + 1 \in 1 .. Len(list)
        <5>1. PICK n \in Nat \ {0}, i \in Nat : n = Len(list) /\ i = index
          BY <4>1
        <5>2. i % n \in 0 .. n - 1
          BY RemainderRange
        <5>3. QED
          BY <5>1, <5>2
      <4>3. Nth(index) \in ToSet(list)
        BY <4>2 DEF Nth, ToSet, TypeOK
      <4>4. s \in {Nth(index)} /\ pc[g] = "select"
        BY <2>2, <3>2 DEF GetRoundRobin, Return
      <4>5. QED
        BY <4>3, <4>4
    <3>3. CASE GetRandom(g)
      BY <2>2, <3>3 DEF GetRandom, Return
    <3>4. CASE GetAll(g)
      BY <2>2, <3>4 DEF GetAll, Return
    <3>5. QED
      BY <2>3, <3>1, <3>2, <3>3, <3>4 DEF Select
  <2>4. ASSUME NEW g \in Goroutines, Call(g) \/ RefreshFails(g) PROVE FALSE
    BY <2>2, <2>4 DEF Call, RefreshFails, Return
  <2>5. ASSUME NEW g \in Goroutines, Refresh(g) PROVE FALSE
    BY <2>1, <2>5 DEF Refresh, RefreshNotDue, RefreshDue, ServeList, StoreList
  <2>6. ~TimePasses /\ ~UNCHANGED dvars /\ ~UNCHANGED vars
    BY <2>1 DEF TimePasses, dvars, vars
  <2>7. PICK g \in Goroutines : Select(g)
    BY <2>4, <2>5, <2>6 DEF Next
  <2>8. Fresh /\ s \in ToSet(list)
    BY <2>3, <2>7 DEF SelectInv
  <2>9. s \in Servers
    BY <2>8 DEF ToSet, TypeOK
  <2>10. silent[s] \in Nat /\ silent[s] < Timeout + 2 * MaxDelay + updated
    BY <2>8, <2>9 DEF ListInv, TypeOK, RegistryTypeOK
  <2>11. QED
    BY <2>8, <2>10, DiscoveryAssumption, RegistryAssumption DEF Fresh, TypeOK
<1>2. QED
  BY <1>1, DiscoveryInvariance, PTL DEF Spec, GivenIsRecent

\* Round robin passes over no server of a list that stays the same, for any number
\* of goroutines and servers and any position to start from.
THEOREM TurnsFair == Spec => []TurnsAreFair
<1>1. ASSUME DiscoveryInv PROVE TurnsAreFair
  <2> USE <1>1 DEF DiscoveryInv
  <2>1. list \in Seq(Servers) /\ turn \in Seq(Servers) /\ Len(turn) <= Len(list)
    BY DEF TypeOK, TurnInv
  <2>2. ASSUME NEW i \in 1 .. Len(turn), NEW j \in 1 .. Len(turn), turn[i] = turn[j]
        PROVE  i = j
    <3>1. Len(list) \in Nat \ {0} /\ turn # <<>> /\ i \in 1 .. Len(list) /\ j \in 1 .. Len(list)
      BY <2>1
    <3>2. PICK b \in 0 .. Len(list) - 1 :
            \A k \in 1 .. Len(turn) : turn[k] = list[Place(b, k, Len(list))]
      BY <3>1 DEF TurnInv
    <3>3. list[Place(b, i, Len(list))] = list[Place(b, j, Len(list))]
      BY <2>2, <3>2
    <3>4. /\ Place(b, i, Len(list)) \in 1 .. Len(list)
          /\ Place(b, j, Len(list)) \in 1 .. Len(list)
      BY <3>1, PlaceInjective
    <3>5. Place(b, i, Len(list)) = Place(b, j, Len(list))
      BY <2>1, <3>3, <3>4 DEF TurnInv, IsInjective
    <3>6. QED
      BY <3>1, <3>5, PlaceInjective
  <2>3. QED
    BY <2>1, <2>2 DEF TurnsAreFair
<1>2. QED
  BY <1>1, DiscoveryInvariance, PTL
=============================================================================
