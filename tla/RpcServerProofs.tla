-------------------------- MODULE RpcServerProofs --------------------------
(***************************************************************************)
(* The safety properties of RpcServer for any pool, any connections and    *)
(* any finite number of requests.                                          *)
(***************************************************************************)
EXTENDS RpcServer, FiniteSetTheorems, TLAPS

\* Stages of a request before handleRequest, and those wg counts.
Waiting == {"unsent", "sent", "swallowed", "parsed", "queued"}
Counted == {"parsed", "queued", "selecting", "awaitsent"}

\* A request in a connection's stream has been sent on it and has not been read.
StreamInv ==
  \A c \in Conns :
    /\ \A i \in 1 .. Len(inbox[c]) : rs[inbox[c][i]] = "sent" /\ ConnOf[inbox[c][i]] = c
    /\ \A i, j \in 1 .. Len(inbox[c]) : inbox[c][i] = inbox[c][j] => i = j

\* A connection starts to wait for the accept loop when it is dialled, and for
\* the pool when the loop has accepted it.
ConnInv ==
  /\ \A c \in Conns : link[c] = "none" => cs[c] = "new"
  /\ \A c \in Conns : acceptor = c => cs[c] = "accepted"

\* A task in the pool's queue is there once and waits for a goroutine.
Waits(t) == IF t \in Conns THEN cs[t] = "queued" ELSE rs[t] = "queued"
QueueInv ==
  /\ \A i \in 1 .. Len(queue) : Waits(queue[i])
  /\ \A i, j \in 1 .. Len(queue) : queue[i] = queue[j] => i = j

\* How handleRequest, the goroutine it started and the responses fit together.
RequestInv ==
  \A r \in Reqs :
    /\ rs[r] \in Waiting => gor[r] = "none" /\ answers[r] = 0
    /\ rs[r] = "rejected" => gor[r] = "none" /\ answers[r] = 1
    /\ rs[r] = "selecting" => gor[r] \in {"calling", "called"} /\ answers[r] = 0
    /\ rs[r] = "awaitsent" => gor[r] \in {"answering", "sent"}
    /\ rs[r] = "finished" => gor[r] \in {"calling", "called", "exited"}
    /\ gor[r] = "answering" => answers[r] = 0
    /\ gor[r] = "sent" => answers[r] = 1 \/ (answers[r] = 0 /\ link[ConnOf[r]] = "closed")
    /\ rs[r] = "finished" => answers[r] = 1 \/ (answers[r] = 0 /\ link[ConnOf[r]] = "closed")

\* The WaitGroup counts exactly the requests in flight.
WaitGroupInv == \A c \in Conns : wg[c] = Cardinality(InFlight(c))

\* serveCodec hands over one request at a time, and ends when none is in flight.
LoopInv ==
  \A r \in Reqs :
    /\ rs[r] = "parsed" => cs[ConnOf[r]] = "adding"
    /\ rs[r] \in Counted => cs[ConnOf[r]] \in {"serving", "adding", "draining"}
    /\ \A q \in Reqs : rs[q] = "parsed" /\ rs[r] = "parsed" /\ ConnOf[q] = ConnOf[r] => q = r

\* The tasks a goroutine of the pool runs.
Served == {"options", "serving", "adding", "draining"}
Running == {"selecting", "awaitsent"}

IInv ==
  /\ TypeOK /\ StreamInv /\ ConnInv /\ QueueInv
  /\ RequestInv /\ WaitGroupInv /\ LoopInv /\ TasksAccounted

-----------------------------------------------------------------------------
(* Facts about single steps *)

\* The streams do not notice requests that are not in them.
LEMMA StreamKept ==
  ASSUME TypeOK, StreamInv, inbox' = inbox,
         \A q \in Reqs : rs[q] = "sent" => rs'[q] = "sent"
  PROVE  StreamInv'
<1>1. \A c \in Conns : \A i \in 1 .. Len(inbox[c]) : inbox[c][i] \in Reqs
  BY DEF TypeOK
<1>2. QED
  BY <1>1 DEF StreamInv

\* The first request of a stream has been sent, and it is not there twice.
LEMMA FirstOfStream ==
  ASSUME TypeOK, StreamInv, NEW c \in Conns, NEW r \in Reqs, NextRequest(c, r)
  PROVE  /\ cs[c] = "serving"
         /\ inbox[c] # <<>> /\ inbox[c] \in Seq(Reqs)
         /\ r = inbox[c][1]
         /\ rs[r] = "sent" /\ ConnOf[r] = c
         /\ inbox' = [inbox EXCEPT ![c] = Tail(inbox[c])]
<1>1. inbox[c] # <<>> /\ inbox[c] \in Seq(Reqs) /\ r = inbox[c][1] /\ Len(inbox[c]) \in Nat \ {0}
  BY DEF NextRequest, TypeOK
<1>2. rs[inbox[c][1]] = "sent" /\ ConnOf[inbox[c][1]] = c
  BY <1>1 DEF StreamInv
<1>3. QED
  BY <1>1, <1>2 DEF NextRequest

\* Reading a request keeps the rest of the stream as it is.
LEMMA StreamRead ==
  ASSUME TypeOK, StreamInv, NEW c \in Conns, NEW r \in Reqs, NextRequest(c, r),
         \A q \in Reqs \ {r} : rs'[q] = rs[q]
  PROVE  StreamInv'
<1>1. inbox' = [inbox EXCEPT ![c] = Tail(inbox[c])] /\ r = inbox[c][1] /\ ConnOf[r] = c
  BY FirstOfStream
<1>2. inbox[c] \in Seq(Reqs) /\ inbox[c] # <<>>
  BY FirstOfStream
<1> SUFFICES ASSUME NEW d \in Conns
             PROVE  /\ \A i \in 1 .. Len(inbox'[d]) :
                         rs'[inbox'[d][i]] = "sent" /\ ConnOf[inbox'[d][i]] = d
                    /\ \A i, j \in 1 .. Len(inbox'[d]) :
                         inbox'[d][i] = inbox'[d][j] => i = j
  BY DEF StreamInv
<1>3. CASE d = c
  <2>1. inbox'[c] = Tail(inbox[c])
    BY <1>1 DEF TypeOK
  <2>2. \A i \in 1 .. Len(inbox'[c]) :
          i + 1 \in 1 .. Len(inbox[c]) /\ inbox'[c][i] = inbox[c][i + 1]
    BY <1>2, <2>1
  <2>3. \A i \in 2 .. Len(inbox[c]) : inbox[c][i] # r /\ inbox[c][i] \in Reqs
    BY <1>1, <1>2 DEF StreamInv
  <2>4. Len(inbox'[c]) \in Nat
    BY <1>2, <2>1
  <2>5. \A i \in 1 .. Len(inbox'[c]) : i + 1 \in 2 .. Len(inbox[c])
    BY <1>2, <2>2, <2>4
  <2>6. \A i \in 1 .. Len(inbox'[c]) : rs'[inbox'[c][i]] = "sent" /\ ConnOf[inbox'[c][i]] = c
    <3> SUFFICES ASSUME NEW i \in 1 .. Len(inbox'[c])
                 PROVE  rs'[inbox'[c][i]] = "sent" /\ ConnOf[inbox'[c][i]] = c
      OBVIOUS
    <3>1. inbox'[c][i] \in Reqs \ {r} /\ i + 1 \in 1 .. Len(inbox[c]) /\ inbox'[c][i] = inbox[c][i + 1]
      BY <2>2, <2>3, <2>5
    <3>2. rs[inbox[c][i + 1]] = "sent" /\ ConnOf[inbox[c][i + 1]] = c
      BY <3>1 DEF StreamInv
    <3>3. QED
      BY <3>1, <3>2
  <2>7. \A i, j \in 1 .. Len(inbox'[c]) : inbox'[c][i] = inbox'[c][j] => i = j
    <3> SUFFICES ASSUME NEW i \in 1 .. Len(inbox'[c]), NEW j \in 1 .. Len(inbox'[c]),
                        inbox'[c][i] = inbox'[c][j]
                 PROVE  i = j
      OBVIOUS
    <3>1. i + 1 \in 1 .. Len(inbox[c]) /\ j + 1 \in 1 .. Len(inbox[c]) /\ inbox[c][i + 1] = inbox[c][j + 1]
      BY <2>2
    <3>2. i + 1 = j + 1
      BY <3>1 DEF StreamInv
    <3>3. QED
      BY <2>4, <3>2
  <2>8. QED
    BY <1>3, <2>6, <2>7
<1>4. CASE d # c
  <2>1. inbox'[d] = inbox[d]
    BY <1>1, <1>4 DEF TypeOK
  <2>2. \A i \in 1 .. Len(inbox[d]) : inbox[d][i] \in Reqs \ {r}
    BY <1>1, <1>4 DEF StreamInv, TypeOK
  <2>3. QED
    BY <2>1, <2>2 DEF StreamInv
<1>5. QED
  BY <1>3, <1>4

\* The queue does not notice tasks that are not in it.
LEMMA QueueKept ==
  ASSUME TypeOK, QueueInv, queue' = queue, \A t \in Tasks : Waits(t) => Waits(t)'
  PROVE  QueueInv'
<1>1. \A i \in 1 .. Len(queue) : queue[i] \in Tasks
  BY DEF TypeOK
<1>2. QED
  BY <1>1 DEF QueueInv

\* AddTask.
LEMMA QueueAdded ==
  ASSUME TypeOK, QueueInv, NEW t \in Tasks, queue' = Append(queue, t),
         ~ Waits(t), Waits(t)', \A u \in Tasks : Waits(u) => Waits(u)'
  PROVE  QueueInv'
<1>1. queue \in Seq(Tasks) /\ Len(queue) \in Nat /\ Len(queue') = Len(queue) + 1
  BY DEF TypeOK
<1>2. \A i \in 1 .. Len(queue) : queue'[i] = queue[i] /\ queue[i] \in Tasks
  BY <1>1
<1>3. queue'[Len(queue) + 1] = t
  BY <1>1
<1>4. \A i \in 1 .. Len(queue') : i \in 1 .. Len(queue) \/ i = Len(queue) + 1
  BY <1>1
<1>5. \A i \in 1 .. Len(queue) : Waits(queue[i])
  BY DEF QueueInv
<1>6. \A i \in 1 .. Len(queue) : queue[i] # t
  BY <1>5
<1>7. \A i \in 1 .. Len(queue') : Waits(queue[i])'
  BY <1>2, <1>3, <1>4, <1>5 DEF Waits
<1>8. \A i, j \in 1 .. Len(queue') : queue'[i] = queue'[j] => i = j
  BY <1>2, <1>3, <1>4, <1>6 DEF QueueInv
<1>9. QED
  BY <1>7, <1>8 DEF QueueInv

\* A goroutine takes the first task of the queue.
LEMMA QueueTaken ==
  ASSUME TypeOK, QueueInv, queue # <<>>, queue' = Tail(queue),
         \A t \in Tasks : Waits(t) /\ t # Head(queue) => Waits(t)'
  PROVE  QueueInv'
<1>1. queue \in Seq(Tasks) /\ Len(queue) \in Nat \ {0} /\ Len(queue') = Len(queue) - 1
  BY DEF TypeOK
<1>2. \A i \in 1 .. Len(queue') : /\ i + 1 \in 2 .. Len(queue) /\ i + 1 \in 1 .. Len(queue)
                                  /\ queue'[i] = queue[i + 1] /\ i \in Nat
  BY <1>1
<1>3. Head(queue) = queue[1] /\ 1 \in 1 .. Len(queue)
  BY <1>1
<1>4. \A i \in 2 .. Len(queue) : queue[i] # queue[1] /\ queue[i] \in Tasks
  BY <1>1 DEF QueueInv
<1>5. \A i \in 1 .. Len(queue') : Waits(queue[i])'
  <2> SUFFICES ASSUME NEW i \in 1 .. Len(queue')
               PROVE  Waits(queue[i])'
    OBVIOUS
  <2>1. PICK t \in Tasks : t = queue[i + 1] /\ t = queue'[i] /\ t # Head(queue)
    BY <1>2, <1>3, <1>4
  <2>2. Waits(t)
    BY <1>2, <2>1 DEF QueueInv
  <2>3. Waits(t)'
    BY <2>1, <2>2
  <2>4. QED
    BY <2>1, <2>3 DEF Waits
<1>6. \A i, j \in 1 .. Len(queue') : queue'[i] = queue'[j] => i = j
  <2> SUFFICES ASSUME NEW i \in 1 .. Len(queue'), NEW j \in 1 .. Len(queue'),
                      queue'[i] = queue'[j]
               PROVE  i = j
    OBVIOUS
  <2>1. i + 1 \in 1 .. Len(queue) /\ j + 1 \in 1 .. Len(queue) /\ queue[i + 1] = queue[j + 1]
    BY <1>2
  <2>2. i + 1 = j + 1
    BY <2>1 DEF QueueInv
  <2>3. QED
    BY <1>2, <2>2
<1>7. QED
  BY <1>5, <1>6 DEF QueueInv

\* A step that leaves the requests in flight alone leaves the WaitGroups alone.
LEMMA FlightKept ==
  ASSUME WaitGroupInv, wg' = wg, \A q \in Reqs : rs[q] \in Counted <=> rs'[q] \in Counted
  PROVE  WaitGroupInv'
<1>1. \A c \in Conns : InFlight(c)' = InFlight(c)
  BY DEF InFlight, Counted
<1>2. QED
  BY <1>1 DEF WaitGroupInv

\* wg.Add(1) counts the request that has just been read.
LEMMA FlightAdded ==
  ASSUME TypeOK, WaitGroupInv, NEW r \in Reqs, rs[r] \notin Counted,
         rs' = [rs EXCEPT ![r] = "parsed"], wg' = [wg EXCEPT ![ConnOf[r]] = @ + 1]
  PROVE  WaitGroupInv'
<1> SUFFICES ASSUME NEW c \in Conns PROVE wg'[c] = Cardinality(InFlight(c)')
  BY DEF WaitGroupInv
<1>1. \A q \in Reqs : rs'[q] \in Counted <=> rs[q] \in Counted \/ q = r
  BY DEF TypeOK, Counted
<1>2. IsFiniteSet(InFlight(c)) /\ wg[c] = Cardinality(InFlight(c))
  BY ServerAssumption, FS_Subset DEF InFlight, WaitGroupInv
<1>3. CASE c = ConnOf[r]
  <2>1. InFlight(c)' = InFlight(c) \cup {r} /\ r \notin InFlight(c)
    BY <1>1, <1>3 DEF InFlight, Counted
  <2>2. Cardinality(InFlight(c) \cup {r}) = Cardinality(InFlight(c)) + 1
    BY <1>2, <2>1, FS_AddElement
  <2>3. QED
    BY <1>2, <1>3, <2>1, <2>2 DEF TypeOK
<1>4. CASE c # ConnOf[r]
  <2>1. InFlight(c)' = InFlight(c)
    BY <1>1, <1>4 DEF InFlight, Counted
  <2>2. QED
    BY <1>2, <1>4, <2>1 DEF TypeOK
<1>5. QED
  BY <1>3, <1>4

\* wg.Done() discounts the request that handleRequest has finished.
LEMMA FlightReturned ==
  ASSUME TypeOK, WaitGroupInv, NEW r \in Reqs, rs[r] \in Counted, Return(r)
  PROVE  WaitGroupInv'
<1> SUFFICES ASSUME NEW c \in Conns PROVE wg'[c] = Cardinality(InFlight(c)')
  BY DEF WaitGroupInv
<1>1. \A q \in Reqs : rs'[q] \in Counted <=> rs[q] \in Counted /\ q # r
  BY DEF TypeOK, Counted, Return
<1>2. /\ IsFiniteSet(InFlight(c)) /\ wg[c] = Cardinality(InFlight(c)) /\ wg[c] \in Nat
      /\ wg' = [wg EXCEPT ![ConnOf[r]] = @ - 1]
  BY ServerAssumption, FS_Subset DEF InFlight, WaitGroupInv, TypeOK, Return
<1>3. CASE c = ConnOf[r]
  <2>1. InFlight(c)' = InFlight(c) \ {r} /\ r \in InFlight(c)
    BY <1>1, <1>3 DEF InFlight, Counted
  <2>2. Cardinality(InFlight(c) \ {r}) = Cardinality(InFlight(c)) - 1
    BY <1>2, <2>1, FS_RemoveElement
  <2>3. QED
    BY <1>2, <1>3, <2>1, <2>2 DEF TypeOK
<1>4. CASE c # ConnOf[r]
  <2>1. InFlight(c)' = InFlight(c)
    BY <1>1, <1>4 DEF InFlight, Counted
  <2>2. QED
    BY <1>2, <1>4, <2>1 DEF TypeOK
<1>5. QED
  BY <1>3, <1>4


\* A request in flight is counted by its connection's WaitGroup.
LEMMA WaitCounted ==
  ASSUME TypeOK, WaitGroupInv, NEW r \in Reqs, rs[r] \in Counted
  PROVE  wg[ConnOf[r]] \in Nat \ {0}
<1> DEFINE F == InFlight(ConnOf[r])
<1>1. F \subseteq Reqs /\ r \in F
  BY DEF InFlight, Counted
<1>2. IsFiniteSet(F) /\ F # {}
  BY <1>1, ServerAssumption, FS_Subset
<1>3. Cardinality(F) # 0
  BY <1>2, FS_EmptySet
<1>4. wg[ConnOf[r]] = Cardinality(F) /\ wg[ConnOf[r]] \in Nat
  BY ServerAssumption DEF WaitGroupInv, TypeOK
<1>5. QED
  BY <1>3, <1>4

\* Every step preserves the types.
LEMMA TypeStep ==
  ASSUME TypeOK, StreamInv, WaitGroupInv, [Next]_vars
  PROVE  TypeOK'
<1> USE ServerAssumption DEF TypeOK, Tasks, Counted, netVars, poolVars,
      reqVars
<1>1. ASSUME NEW c \in Conns, Dial(c) PROVE TypeOK'
  BY <1>1 DEF Dial, GotoConn
<1>2. ASSUME NEW r \in Reqs, SendRequest(r) PROVE TypeOK'
  BY <1>2 DEF SendRequest, GotoReq
<1>3. ASSUME NEW c \in Conns, ClientCloses(c) PROVE TypeOK'
  BY <1>3 DEF ClientCloses
<1>4. ASSUME NEW c \in Conns, AcceptConn(c) PROVE TypeOK'
  BY <1>4 DEF AcceptConn, GotoConn
<1>5. ASSUME NEW c \in Conns, AddConn(c) PROVE TypeOK'
  BY <1>5 DEF AddConn, GotoConn, QueueHasRoom
<1>6. ASSUME NEW w \in Workers, TakeConn(w) PROVE TypeOK'
  BY <1>6 DEF TakeConn, GotoConn
<1>7. ASSUME NEW w \in Workers, TakeRequest(w) PROVE TypeOK'
  BY <1>7 DEF TakeRequest, GotoReq, GotoGor
<1>8. ASSUME NEW c \in Conns, RefuseOption(c) PROVE TypeOK'
  BY <1>8 DEF RefuseOption, GotoConn, Free
<1>9. ASSUME NEW c \in Conns, ReadOption(c) PROVE TypeOK'
  <2>1. PICK k \in 0 .. Len(inbox[c]) :
          /\ inbox' = [inbox EXCEPT ![c] = SubSeq(inbox[c], k + 1, Len(inbox[c]))]
          /\ garbled' = [garbled EXCEPT ![c] = k > 0]
          /\ rs' = [q \in Reqs |-> IF \E i \in 1 .. k : inbox[c][i] = q THEN "swallowed" ELSE rs[q]]
    BY <1>9 DEF ReadOption
  <2>2. SubSeq(inbox[c], k + 1, Len(inbox[c])) \in Seq(Reqs)
    OBVIOUS
  <2>3. (k > 0) \in BOOLEAN
    OBVIOUS
  <2>4. inbox' \in [Conns -> Seq(Reqs)] /\ garbled' \in [Conns -> BOOLEAN]
    BY <2>1, <2>2, <2>3
  <2>5. rs' \in [Reqs -> {"unsent", "sent", "swallowed", "rejected", "parsed",
                         "queued", "selecting", "awaitsent", "finished"}]
    BY <2>1
  <2>6. QED
    BY <1>9, <2>4, <2>5 DEF ReadOption, GotoConn
<1>10. ASSUME NEW c \in Conns, NEW r \in Reqs, ReadRequest(c, r) PROVE TypeOK'
  BY <1>10 DEF ReadRequest, NextRequest, GotoReq, GotoConn
<1>11. ASSUME NEW c \in Conns, NEW r \in Reqs, RefuseMethod(c, r) PROVE TypeOK'
  BY <1>11 DEF RefuseMethod, NextRequest, GotoReq, Respond
<1>12. ASSUME NEW c \in Conns, NEW r \in Reqs, RefuseBody(c, r) PROVE TypeOK'
  BY <1>12 DEF RefuseBody, NextRequest, GotoReq, Respond
<1>13. ASSUME NEW c \in Conns, NEW r \in Reqs, AddRequest(c, r) PROVE TypeOK'
  BY <1>13 DEF AddRequest, GotoReq, GotoConn, QueueHasRoom
<1>14. ASSUME NEW c \in Conns, ReadUnreadBody(c) PROVE TypeOK'
  BY <1>14 DEF ReadUnreadBody, GotoConn
<1>15. ASSUME NEW c \in Conns, ReadGarbled(c) PROVE TypeOK'
  BY <1>15 DEF ReadGarbled, GotoConn
<1>16. ASSUME NEW c \in Conns, ReadFails(c) PROVE TypeOK'
  BY <1>16 DEF ReadFails, GotoConn
<1>17. ASSUME NEW c \in Conns, FinishConn(c) PROVE TypeOK'
  BY <1>17 DEF FinishConn, GotoConn, Free
<1>18. ASSUME NEW r \in Reqs, MethodReturns(r) PROVE TypeOK'
  BY <1>18 DEF MethodReturns, GotoGor
<1>19. ASSUME NEW r \in Reqs, Called(r) PROVE TypeOK'
  BY <1>19 DEF Called, GotoReq, GotoGor
<1>20. ASSUME NEW r \in Reqs, HandlerTimeout(r) PROVE TypeOK'
  <2>1. wg[ConnOf[r]] \in Nat \ {0}
    BY <1>20, WaitCounted DEF HandlerTimeout
  <2>2. wg' \in [Conns -> Nat]
    BY <1>20, <2>1 DEF HandlerTimeout, Return
  <2>3. worker' \in [Workers -> Tasks \cup {None}]
    BY <1>20 DEF HandlerTimeout, Return, Free
  <2>4. QED
    BY <1>20, <2>2, <2>3 DEF HandlerTimeout, Return, Respond, GotoGor
<1>21. ASSUME NEW r \in Reqs, Answer(r) PROVE TypeOK'
  BY <1>21 DEF Answer, GotoGor, Respond
<1>22. ASSUME NEW r \in Reqs, AnswerFails(r) PROVE TypeOK'
  BY <1>22 DEF AnswerFails, GotoGor
<1>23. ASSUME NEW r \in Reqs, Sent(r) PROVE TypeOK'
  <2>1. wg[ConnOf[r]] \in Nat \ {0}
    BY <1>23, WaitCounted DEF Sent
  <2>2. wg' \in [Conns -> Nat]
    BY <1>23, <2>1 DEF Sent, Return
  <2>3. worker' \in [Workers -> Tasks \cup {None}]
    BY <1>23 DEF Sent, Return, Free
  <2>4. QED
    BY <1>23, <2>2, <2>3 DEF Sent, Return, Respond, GotoGor
<1>24. CASE UNCHANGED <<link, inbox, garbled, unread, cs, acceptor, queue, worker, rs, gor, wg, answers>>
  BY <1>24
<1>25. QED
  BY <1>1, <1>2, <1>3, <1>4, <1>5, <1>6, <1>7, <1>8, <1>9, <1>10, <1>11,
      <1>12, <1>13, <1>14, <1>15, <1>16, <1>17, <1>18, <1>19, <1>20, <1>21,
      <1>22, <1>23, <1>24
    DEF Next, Client, Accept, Work, Read, ServeConn, HandleRequest, Quiescent,
      vars

\* Requests in a stream have been sent and not been read.
LEMMA StreamStep ==
  ASSUME TypeOK, StreamInv, QueueInv, [Next]_vars
  PROVE  StreamInv'
<1> USE ServerAssumption DEF Tasks, Waits, netVars, poolVars, reqVars
<1>1. ASSUME NEW r \in Reqs, SendRequest(r) PROVE StreamInv'
  <2>1. /\ ConnOf[r] \in Conns /\ inbox[ConnOf[r]] \in Seq(Reqs)
        /\ inbox' = [inbox EXCEPT ![ConnOf[r]] = Append(inbox[ConnOf[r]], r)]
        /\ rs[r] = "unsent" /\ rs' = [rs EXCEPT ![r] = "sent"]
    BY <1>1 DEF SendRequest, GotoReq, TypeOK
  <2> SUFFICES ASSUME NEW d \in Conns
               PROVE  /\ \A i \in 1 .. Len(inbox'[d]) :
                           rs'[inbox'[d][i]] = "sent" /\ ConnOf[inbox'[d][i]] = d
                      /\ \A i, j \in 1 .. Len(inbox'[d]) :
                           inbox'[d][i] = inbox'[d][j] => i = j
    BY DEF StreamInv
  <2>2. \A i \in 1 .. Len(inbox[d]) : inbox[d][i] # r /\ inbox[d][i] \in Reqs
    BY <2>1 DEF StreamInv, TypeOK
  <2>3. CASE d = ConnOf[r]
    <3>1. inbox'[d] = Append(inbox[d], r)
      BY <2>1, <2>3 DEF TypeOK
    <3>2. Len(inbox[d]) \in Nat /\ Len(inbox'[d]) = Len(inbox[d]) + 1 /\ inbox'[d][Len(inbox[d]) + 1] = r
      BY <2>1, <2>3, <3>1
    <3>3. \A i \in 1 .. Len(inbox[d]) : inbox'[d][i] = inbox[d][i]
      BY <2>1, <2>3, <3>1
    <3>4. \A i \in 1 .. Len(inbox'[d]) : i \in 1 .. Len(inbox[d]) \/ i = Len(inbox[d]) + 1
      BY <3>2
    <3>5. rs'[r] = "sent" /\ \A q \in Reqs \ {r} : rs'[q] = rs[q]
      BY <2>1 DEF TypeOK
    <3>6. \A i \in 1 .. Len(inbox'[d]) : rs'[inbox'[d][i]] = "sent" /\ ConnOf[inbox'[d][i]] = d
      BY <2>2, <2>3, <3>2, <3>3, <3>4, <3>5 DEF StreamInv
    <3>7. \A i, j \in 1 .. Len(inbox'[d]) : inbox'[d][i] = inbox'[d][j] => i = j
      BY <2>2, <3>2, <3>3, <3>4 DEF StreamInv
    <3>8. QED
      BY <3>6, <3>7
  <2>4. CASE d # ConnOf[r]
    <3>1. inbox'[d] = inbox[d] /\ \A q \in Reqs \ {r} : rs'[q] = rs[q]
      BY <2>1, <2>4 DEF TypeOK
    <3>2. QED
      BY <2>2, <3>1 DEF StreamInv
  <2>5. QED
    BY <2>3, <2>4
<1>2. ASSUME NEW w \in Workers, TakeRequest(w) PROVE StreamInv'
  <2>1. Head(queue) \in Reqs /\ rs[Head(queue)] = "queued"
    BY <1>2 DEF TakeRequest, TypeOK, QueueInv
  <2>2. inbox' = inbox /\ \A q \in Reqs : rs[q] = "sent" => rs'[q] = "sent"
    BY <1>2, <2>1 DEF TakeRequest, GotoReq, TypeOK
  <2>3. QED
    BY <2>2, StreamKept
<1>3. ASSUME NEW c \in Conns, ReadOption(c) PROVE StreamInv'
  <2>1. PICK k \in 0 .. Len(inbox[c]) :
          /\ inbox' = [inbox EXCEPT ![c] = SubSeq(inbox[c], k + 1, Len(inbox[c]))]
          /\ rs' = [q \in Reqs |-> IF \E i \in 1 .. k : inbox[c][i] = q THEN "swallowed" ELSE rs[q]]
    BY <1>3 DEF ReadOption
  <2> SUFFICES ASSUME NEW d \in Conns
               PROVE  /\ \A i \in 1 .. Len(inbox'[d]) :
                           rs'[inbox'[d][i]] = "sent" /\ ConnOf[inbox'[d][i]] = d
                      /\ \A i, j \in 1 .. Len(inbox'[d]) :
                           inbox'[d][i] = inbox'[d][j] => i = j
    BY DEF StreamInv
  <2>2. inbox[c] \in Seq(Reqs) /\ Len(inbox[c]) \in Nat
    BY DEF TypeOK
  <2>3. CASE d = c
    <3>1. inbox'[c] = SubSeq(inbox[c], k + 1, Len(inbox[c]))
      BY <2>1 DEF TypeOK
    <3>2. Len(inbox'[c]) = Len(inbox[c]) - k
      BY <2>2, <3>1
    <3>3. \A i \in 1 .. Len(inbox'[c]) : i + k \in 1 .. Len(inbox[c]) /\ inbox'[c][i] = inbox[c][i + k]
      BY <2>2, <3>1, <3>2
    <3>4. \A i \in 1 .. Len(inbox'[c]) : \A j \in 1 .. k : inbox[c][j] # inbox[c][i + k]
      BY <2>2, <3>2, <3>3 DEF StreamInv
    <3>5. \A i \in 1 .. Len(inbox'[c]) : rs'[inbox'[c][i]] = "sent" /\ ConnOf[inbox'[c][i]] = c
      <4> SUFFICES ASSUME NEW i \in 1 .. Len(inbox'[c])
                   PROVE  rs'[inbox'[c][i]] = "sent" /\ ConnOf[inbox'[c][i]] = c
        OBVIOUS
      <4>1. inbox[c][i + k] \in Reqs /\ rs[inbox[c][i + k]] = "sent" /\ ConnOf[inbox[c][i + k]] = c
        BY <2>2, <3>3 DEF StreamInv
      <4>2. ~ \E j \in 1 .. k : inbox[c][j] = inbox[c][i + k]
        BY <3>4
      <4>3. QED
        BY <2>1, <3>3, <4>1, <4>2
    <3>6. \A i, j \in 1 .. Len(inbox'[c]) : inbox'[c][i] = inbox'[c][j] => i = j
      <4> SUFFICES ASSUME NEW i \in 1 .. Len(inbox'[c]), NEW j \in 1 .. Len(inbox'[c]),
                          inbox'[c][i] = inbox'[c][j]
                   PROVE  i = j
        OBVIOUS
      <4>1. i + k \in 1 .. Len(inbox[c]) /\ j + k \in 1 .. Len(inbox[c]) /\ inbox[c][i + k] = inbox[c][j + k]
        BY <3>3
      <4>2. i + k = j + k
        BY <4>1 DEF StreamInv
      <4>3. QED
        BY <2>2, <3>2, <4>2
    <3>7. QED
      BY <2>3, <3>5, <3>6
  <2>4. CASE d # c
    <3>1. inbox'[d] = inbox[d]
      BY <2>1, <2>4 DEF TypeOK
    <3>2. \A i \in 1 .. Len(inbox[d]) : \A j \in 1 .. k : inbox[c][j] # inbox[d][i]
      BY <2>2, <2>4 DEF StreamInv
    <3>3. \A i \in 1 .. Len(inbox[d]) : inbox[d][i] \in Reqs
      BY DEF TypeOK
    <3>4. \A i \in 1 .. Len(inbox[d]) : rs'[inbox[d][i]] = rs[inbox[d][i]]
      BY <2>1, <3>2, <3>3
    <3>5. QED
      BY <3>1, <3>4 DEF StreamInv
  <2>5. QED
    BY <2>3, <2>4
<1>4. ASSUME NEW c \in Conns, NEW r \in Reqs, ReadRequest(c, r) PROVE StreamInv'
  <2>1. NextRequest(c, r) /\ \A q \in Reqs \ {r} : rs'[q] = rs[q]
    BY <1>4 DEF ReadRequest, GotoReq, TypeOK
  <2>2. QED
    BY <2>1, StreamRead
<1>5. ASSUME NEW c \in Conns, NEW r \in Reqs, RefuseMethod(c, r) PROVE StreamInv'
  <2>1. NextRequest(c, r) /\ \A q \in Reqs \ {r} : rs'[q] = rs[q]
    BY <1>5 DEF RefuseMethod, GotoReq, TypeOK
  <2>2. QED
    BY <2>1, StreamRead
<1>6. ASSUME NEW c \in Conns, NEW r \in Reqs, RefuseBody(c, r) PROVE StreamInv'
  <2>1. NextRequest(c, r) /\ \A q \in Reqs \ {r} : rs'[q] = rs[q]
    BY <1>6 DEF RefuseBody, GotoReq, TypeOK
  <2>2. QED
    BY <2>1, StreamRead
<1>7. ASSUME NEW c \in Conns, NEW r \in Reqs, AddRequest(c, r) PROVE StreamInv'
  <2>1. inbox' = inbox /\ \A q \in Reqs : rs[q] = "sent" => rs'[q] = "sent"
    BY <1>7 DEF AddRequest, GotoReq, TypeOK
  <2>2. QED
    BY <2>1, StreamKept
<1>8. ASSUME NEW r \in Reqs, Called(r) PROVE StreamInv'
  <2>1. inbox' = inbox /\ \A q \in Reqs : rs[q] = "sent" => rs'[q] = "sent"
    BY <1>8 DEF Called, GotoReq, TypeOK
  <2>2. QED
    BY <2>1, StreamKept
<1>9. ASSUME NEW r \in Reqs, HandlerTimeout(r) PROVE StreamInv'
  <2>1. inbox' = inbox /\ \A q \in Reqs : rs[q] = "sent" => rs'[q] = "sent"
    BY <1>9 DEF HandlerTimeout, Return, TypeOK
  <2>2. QED
    BY <2>1, StreamKept
<1>10. ASSUME NEW r \in Reqs, Sent(r) PROVE StreamInv'
  <2>1. inbox' = inbox /\ \A q \in Reqs : rs[q] = "sent" => rs'[q] = "sent"
    BY <1>10 DEF Sent, Return, TypeOK
  <2>2. QED
    BY <2>1, StreamKept
<1>11. CASE UNCHANGED <<inbox, rs>>
  BY <1>11, StreamKept
<1>12. QED
  BY <1>1, <1>2, <1>3, <1>4, <1>5, <1>6, <1>7, <1>8, <1>9, <1>10, <1>11
    DEF Next, Client, Accept, Work, Read, ServeConn, HandleRequest, Quiescent,
      vars, Dial, ClientCloses, AcceptConn, AddConn, TakeConn, RefuseOption,
      ReadUnreadBody, ReadGarbled, ReadFails, FinishConn, MethodReturns,
      Answer, AnswerFails, Free, GotoConn, GotoGor, QueueHasRoom, Respond

\* Connections wait first for the accept loop and then for the pool.
LEMMA ConnStep ==
  ASSUME TypeOK, ConnInv, QueueInv, [Next]_vars
  PROVE  ConnInv'
<1> USE ServerAssumption DEF TypeOK, ConnInv, Waits, Tasks, netVars, poolVars,
      reqVars
<1>1. ASSUME NEW c \in Conns, Dial(c) PROVE ConnInv'
  BY <1>1 DEF Dial, GotoConn
<1>2. ASSUME NEW c \in Conns, ClientCloses(c) PROVE ConnInv'
  BY <1>2 DEF ClientCloses
<1>3. ASSUME NEW c \in Conns, AcceptConn(c) PROVE ConnInv'
  BY <1>3 DEF AcceptConn, GotoConn
<1>4. ASSUME NEW c \in Conns, AddConn(c) PROVE ConnInv'
  BY <1>4 DEF AddConn, GotoConn, QueueHasRoom
<1>5. ASSUME NEW w \in Workers, TakeConn(w) PROVE ConnInv'
  <2>1. Head(queue) \in Conns /\ cs[Head(queue)] = "queued"
    BY <1>5 DEF TakeConn, QueueInv
  <2>2. QED
    BY <1>5, <2>1 DEF TakeConn, GotoConn
<1>6. ASSUME NEW c \in Conns, RefuseOption(c) PROVE ConnInv'
  BY <1>6 DEF RefuseOption, GotoConn, Free
<1>7. ASSUME NEW c \in Conns, ReadOption(c) PROVE ConnInv'
  BY <1>7 DEF ReadOption, GotoConn
<1>8. ASSUME NEW c \in Conns, NEW r \in Reqs, ReadRequest(c, r) PROVE ConnInv'
  BY <1>8 DEF ReadRequest, NextRequest, GotoReq, GotoConn
<1>9. ASSUME NEW c \in Conns, NEW r \in Reqs, AddRequest(c, r) PROVE ConnInv'
  BY <1>9 DEF AddRequest, GotoReq, GotoConn, QueueHasRoom
<1>10. ASSUME NEW c \in Conns, ReadUnreadBody(c) PROVE ConnInv'
  BY <1>10 DEF ReadUnreadBody, GotoConn
<1>11. ASSUME NEW c \in Conns, ReadGarbled(c) PROVE ConnInv'
  BY <1>11 DEF ReadGarbled, GotoConn
<1>12. ASSUME NEW c \in Conns, ReadFails(c) PROVE ConnInv'
  BY <1>12 DEF ReadFails, GotoConn
<1>13. ASSUME NEW c \in Conns, FinishConn(c) PROVE ConnInv'
  BY <1>13 DEF FinishConn, GotoConn, Free
<1>14. ASSUME NEW r \in Reqs, AnswerFails(r) PROVE ConnInv'
  BY <1>14 DEF AnswerFails, GotoGor
<1>15. CASE UNCHANGED <<link, acceptor, cs>>
  BY <1>15
<1>16. QED
  BY <1>1, <1>2, <1>3, <1>4, <1>5, <1>6, <1>7, <1>8, <1>9, <1>10, <1>11,
      <1>12, <1>13, <1>14, <1>15
    DEF Next, Client, Accept, Work, Read, ServeConn, HandleRequest, Quiescent,
      vars, SendRequest, TakeRequest, RefuseMethod, RefuseBody, MethodReturns,
      Called, HandlerTimeout, Answer, Sent, Free, GotoGor, GotoReq,
      NextRequest, Respond, Return

\* Each task in the queue waits for a goroutine of the pool.
LEMMA QueueStep ==
  ASSUME TypeOK, StreamInv, ConnInv, QueueInv, [Next]_vars
  PROVE  QueueInv'
<1> USE ServerAssumption DEF Tasks, Waits, ConnInv, netVars, poolVars, reqVars
<1>1. ASSUME NEW c \in Conns, Dial(c) PROVE QueueInv'
  <2>1. queue' = queue /\ \A t \in Tasks : Waits(t) => Waits(t)'
    BY <1>1 DEF Dial, GotoConn, TypeOK
  <2>2. QED
    BY <2>1, QueueKept
<1>2. ASSUME NEW r \in Reqs, SendRequest(r) PROVE QueueInv'
  <2>1. queue' = queue /\ \A t \in Tasks : Waits(t) => Waits(t)'
    BY <1>2 DEF SendRequest, GotoReq, TypeOK
  <2>2. QED
    BY <2>1, QueueKept
<1>3. ASSUME NEW c \in Conns, AcceptConn(c) PROVE QueueInv'
  <2>1. queue' = queue /\ \A t \in Tasks : Waits(t) => Waits(t)'
    BY <1>3 DEF AcceptConn, GotoConn, TypeOK
  <2>2. QED
    BY <2>1, QueueKept
<1>4. ASSUME NEW c \in Conns, AddConn(c) PROVE QueueInv'
  <2>1. c \in Tasks /\ queue' = Append(queue, c) /\ cs[c] = "accepted" /\ rs' = rs /\ cs' = [cs EXCEPT ![c] = "queued"]
    BY <1>4 DEF AddConn, GotoConn
  <2>2. ~ Waits(c) /\ Waits(c)' /\ \A t \in Tasks : Waits(t) => Waits(t)'
    BY <2>1 DEF TypeOK
  <2>3. QED
    BY <2>1, <2>2, QueueAdded
<1>5. ASSUME NEW w \in Workers, TakeConn(w) PROVE QueueInv'
  <2>1. /\ queue # <<>> /\ queue' = Tail(queue) /\ rs' = rs /\ Head(queue) \in Conns
        /\ cs' = [cs EXCEPT ![Head(queue)] = "options"]
    BY <1>5 DEF TakeConn, GotoConn
  <2>2. \A t \in Tasks : Waits(t) /\ t # Head(queue) => Waits(t)'
    BY <2>1 DEF TypeOK
  <2>3. QED
    BY <2>1, <2>2, QueueTaken
<1>6. ASSUME NEW w \in Workers, TakeRequest(w) PROVE QueueInv'
  <2>1. /\ queue # <<>> /\ queue' = Tail(queue) /\ cs' = cs
        /\ rs' = [rs EXCEPT ![Head(queue)] = "selecting"]
    BY <1>6 DEF TakeRequest, GotoReq
  <2>2. \A t \in Tasks : Waits(t) /\ t # Head(queue) => Waits(t)'
    BY <2>1 DEF TypeOK
  <2>3. QED
    BY <2>1, <2>2, QueueTaken
<1>7. ASSUME NEW c \in Conns, RefuseOption(c) PROVE QueueInv'
  <2>1. queue' = queue /\ \A t \in Tasks : Waits(t) => Waits(t)'
    BY <1>7 DEF RefuseOption, GotoConn, TypeOK
  <2>2. QED
    BY <2>1, QueueKept
<1>8. ASSUME NEW c \in Conns, ReadOption(c) PROVE QueueInv'
  <2>1. PICK k \in 0 .. Len(inbox[c]) :
          rs' = [q \in Reqs |-> IF \E i \in 1 .. k : inbox[c][i] = q THEN "swallowed" ELSE rs[q]]
    BY <1>8 DEF ReadOption
  <2>2. \A i \in 1 .. k : rs[inbox[c][i]] = "sent"
    <3>1. Len(inbox[c]) \in Nat
      BY DEF TypeOK
    <3>2. \A i \in 1 .. k : i \in 1 .. Len(inbox[c])
      BY <3>1
    <3>3. QED
      BY <3>2 DEF StreamInv
  <2>3. \A q \in Reqs : rs[q] = "queued" => rs'[q] = "queued"
    BY <2>1, <2>2
  <2>4. queue' = queue /\ \A t \in Tasks : Waits(t) => Waits(t)'
    BY <1>8, <2>3 DEF ReadOption, GotoConn, TypeOK
  <2>5. QED
    BY <2>4, QueueKept
<1>9. ASSUME NEW c \in Conns, NEW r \in Reqs, ReadRequest(c, r) PROVE QueueInv'
  <2>1. rs[r] = "sent" /\ cs[c] = "serving"
    BY <1>9, FirstOfStream DEF ReadRequest
  <2>2. queue' = queue /\ \A t \in Tasks : Waits(t) => Waits(t)'
    BY <1>9, <2>1 DEF ReadRequest, GotoReq, GotoConn, TypeOK
  <2>3. QED
    BY <2>2, QueueKept
<1>10. ASSUME NEW c \in Conns, NEW r \in Reqs, RefuseMethod(c, r) PROVE QueueInv'
  <2>1. rs[r] = "sent" /\ cs[c] = "serving"
    BY <1>10, FirstOfStream DEF RefuseMethod
  <2>2. queue' = queue /\ \A t \in Tasks : Waits(t) => Waits(t)'
    BY <1>10, <2>1 DEF RefuseMethod, GotoReq, TypeOK
  <2>3. QED
    BY <2>2, QueueKept
<1>11. ASSUME NEW c \in Conns, NEW r \in Reqs, RefuseBody(c, r) PROVE QueueInv'
  <2>1. rs[r] = "sent" /\ cs[c] = "serving"
    BY <1>11, FirstOfStream DEF RefuseBody
  <2>2. queue' = queue /\ \A t \in Tasks : Waits(t) => Waits(t)'
    BY <1>11, <2>1 DEF RefuseBody, GotoReq, TypeOK
  <2>3. QED
    BY <2>2, QueueKept
<1>12. ASSUME NEW c \in Conns, NEW r \in Reqs, AddRequest(c, r) PROVE QueueInv'
  <2>1. /\ r \in Tasks /\ r \notin Conns /\ queue' = Append(queue, r) /\ rs[r] = "parsed"
        /\ rs' = [rs EXCEPT ![r] = "queued"] /\ cs[c] = "adding" /\ cs' = [cs EXCEPT ![c] = "serving"]
    BY <1>12 DEF AddRequest, GotoReq, GotoConn
  <2>2. ~ Waits(r) /\ Waits(r)' /\ \A t \in Tasks : Waits(t) => Waits(t)'
    BY <2>1 DEF TypeOK
  <2>3. QED
    BY <2>1, <2>2, QueueAdded
<1>13. ASSUME NEW c \in Conns, ReadUnreadBody(c) PROVE QueueInv'
  <2>1. queue' = queue /\ \A t \in Tasks : Waits(t) => Waits(t)'
    BY <1>13 DEF ReadUnreadBody, GotoConn, TypeOK
  <2>2. QED
    BY <2>1, QueueKept
<1>14. ASSUME NEW c \in Conns, ReadGarbled(c) PROVE QueueInv'
  <2>1. queue' = queue /\ \A t \in Tasks : Waits(t) => Waits(t)'
    BY <1>14 DEF ReadGarbled, GotoConn, TypeOK
  <2>2. QED
    BY <2>1, QueueKept
<1>15. ASSUME NEW c \in Conns, ReadFails(c) PROVE QueueInv'
  <2>1. queue' = queue /\ \A t \in Tasks : Waits(t) => Waits(t)'
    BY <1>15 DEF ReadFails, GotoConn, TypeOK
  <2>2. QED
    BY <2>1, QueueKept
<1>16. ASSUME NEW c \in Conns, FinishConn(c) PROVE QueueInv'
  <2>1. queue' = queue /\ \A t \in Tasks : Waits(t) => Waits(t)'
    BY <1>16 DEF FinishConn, GotoConn, TypeOK
  <2>2. QED
    BY <2>1, QueueKept
<1>17. ASSUME NEW r \in Reqs, Called(r) PROVE QueueInv'
  <2>1. queue' = queue /\ \A t \in Tasks : Waits(t) => Waits(t)'
    BY <1>17 DEF Called, GotoReq, TypeOK
  <2>2. QED
    BY <2>1, QueueKept
<1>18. ASSUME NEW r \in Reqs, HandlerTimeout(r) PROVE QueueInv'
  <2>1. queue' = queue /\ \A t \in Tasks : Waits(t) => Waits(t)'
    BY <1>18 DEF HandlerTimeout, Return, TypeOK
  <2>2. QED
    BY <2>1, QueueKept
<1>19. ASSUME NEW r \in Reqs, Sent(r) PROVE QueueInv'
  <2>1. queue' = queue /\ \A t \in Tasks : Waits(t) => Waits(t)'
    BY <1>19 DEF Sent, Return, TypeOK
  <2>2. QED
    BY <2>1, QueueKept
<1>20. CASE UNCHANGED <<queue, rs, cs>>
  BY <1>20, QueueKept
<1>21. QED
  BY <1>1, <1>2, <1>3, <1>4, <1>5, <1>6, <1>7, <1>8, <1>9, <1>10, <1>11,
      <1>12, <1>13, <1>14, <1>15, <1>16, <1>17, <1>18, <1>19, <1>20
    DEF Next, Client, Accept, Work, Read, ServeConn, HandleRequest, Quiescent,
      vars, ClientCloses, MethodReturns, Answer, AnswerFails, GotoGor, Respond

\* The response to a request is sent by one goroutine only.
LEMMA RequestStep ==
  ASSUME TypeOK, StreamInv, QueueInv, RequestInv, [Next]_vars
  PROVE  RequestInv'
<1> USE ServerAssumption DEF TypeOK, RequestInv, Waiting, Tasks, Waits,
      netVars, poolVars, reqVars
<1>1. ASSUME NEW c \in Conns, Dial(c) PROVE RequestInv'
  BY <1>1 DEF Dial, GotoConn
<1>2. ASSUME NEW r \in Reqs, SendRequest(r) PROVE RequestInv'
  BY <1>2 DEF SendRequest, GotoReq
<1>3. ASSUME NEW c \in Conns, ClientCloses(c) PROVE RequestInv'
  BY <1>3 DEF ClientCloses
<1>4. ASSUME NEW w \in Workers, TakeRequest(w) PROVE RequestInv'
  <2>1. Head(queue) \in Reqs /\ rs[Head(queue)] = "queued"
    BY <1>4 DEF TakeRequest, QueueInv
  <2>2. QED
    BY <1>4, <2>1 DEF TakeRequest, GotoReq, GotoGor
<1>5. ASSUME NEW c \in Conns, RefuseOption(c) PROVE RequestInv'
  BY <1>5 DEF RefuseOption, GotoConn, Free
<1>6. ASSUME NEW c \in Conns, ReadOption(c) PROVE RequestInv'
  <2>1. \A i \in 1 .. Len(inbox[c]) : inbox[c][i] \in Reqs /\ rs[inbox[c][i]] = "sent"
    BY DEF StreamInv
  <2>2. Len(inbox[c]) \in Nat
    OBVIOUS
  <2>3. PICK k \in 0 .. Len(inbox[c]) :
          rs' = [q \in Reqs |-> IF \E i \in 1 .. k : inbox[c][i] = q THEN "swallowed" ELSE rs[q]]
    BY <1>6 DEF ReadOption
  <2>4. \A i \in 1 .. k : i \in 1 .. Len(inbox[c])
    BY <2>2
  <2>5. UNCHANGED <<link, gor, answers>>
    BY <1>6 DEF ReadOption
  <2>6. \A q \in Reqs : (\E i \in 1 .. k : inbox[c][i] = q) => rs[q] = "sent"
    BY <2>1, <2>4
  <2>7. \A q \in Reqs : rs'[q] = rs[q] \/ (rs[q] = "sent" /\ rs'[q] = "swallowed")
    BY <2>3, <2>6
  <2>8. QED
    BY <2>5, <2>7
<1>7. ASSUME NEW c \in Conns, NEW r \in Reqs, ReadRequest(c, r) PROVE RequestInv'
  <2>1. rs[r] = "sent"
    BY <1>7, FirstOfStream DEF ReadRequest
  <2>2. QED
    BY <1>7, <2>1 DEF ReadRequest, GotoReq
<1>8. ASSUME NEW c \in Conns, NEW r \in Reqs, RefuseMethod(c, r) PROVE RequestInv'
  <2>1. rs[r] = "sent"
    BY <1>8, FirstOfStream DEF RefuseMethod
  <2>2. QED
    BY <1>8, <2>1 DEF RefuseMethod, GotoReq, Respond
<1>9. ASSUME NEW c \in Conns, NEW r \in Reqs, RefuseBody(c, r) PROVE RequestInv'
  <2>1. rs[r] = "sent"
    BY <1>9, FirstOfStream DEF RefuseBody
  <2>2. QED
    BY <1>9, <2>1 DEF RefuseBody, GotoReq, Respond
<1>10. ASSUME NEW c \in Conns, NEW r \in Reqs, AddRequest(c, r) PROVE RequestInv'
  BY <1>10 DEF AddRequest, GotoReq, GotoConn, QueueHasRoom
<1>11. ASSUME NEW c \in Conns, FinishConn(c) PROVE RequestInv'
  BY <1>11 DEF FinishConn, GotoConn, Free
<1>12. ASSUME NEW r \in Reqs, MethodReturns(r) PROVE RequestInv'
  BY <1>12 DEF MethodReturns, GotoGor
<1>13. ASSUME NEW r \in Reqs, Called(r) PROVE RequestInv'
  BY <1>13 DEF Called, GotoReq, GotoGor
<1>14. ASSUME NEW r \in Reqs, HandlerTimeout(r) PROVE RequestInv'
  BY <1>14 DEF HandlerTimeout, Respond, Return, Free
<1>15. ASSUME NEW r \in Reqs, Answer(r) PROVE RequestInv'
  BY <1>15 DEF Answer, GotoGor, Respond
<1>16. ASSUME NEW r \in Reqs, AnswerFails(r) PROVE RequestInv'
  BY <1>16 DEF AnswerFails, GotoGor
<1>17. ASSUME NEW r \in Reqs, Sent(r) PROVE RequestInv'
  BY <1>17 DEF Sent, GotoGor, Return, Free
<1>18. CASE UNCHANGED <<link, rs, gor, answers>>
  BY <1>18
<1>19. QED
  BY <1>1, <1>2, <1>3, <1>4, <1>5, <1>6, <1>7, <1>8, <1>9, <1>10, <1>11,
      <1>12, <1>13, <1>14, <1>15, <1>16, <1>17, <1>18
    DEF Next, Client, Accept, Work, Read, ServeConn, HandleRequest, Quiescent,
      vars, AcceptConn, AddConn, TakeConn, ReadUnreadBody, ReadGarbled,
      ReadFails, GotoConn, QueueHasRoom

\* Every request in flight is counted and no other.
LEMMA WaitGroupStep ==
  ASSUME TypeOK, StreamInv, QueueInv, WaitGroupInv, [Next]_vars
  PROVE  WaitGroupInv'
<1> USE ServerAssumption DEF Waits, Tasks, netVars, poolVars, reqVars
<1>1. ASSUME NEW r \in Reqs, SendRequest(r) PROVE WaitGroupInv'
  <2>1. wg' = wg /\ \A q \in Reqs : rs[q] \in Counted <=> rs'[q] \in Counted
    BY <1>1 DEF SendRequest, GotoReq, TypeOK, Counted
  <2>2. QED
    BY <2>1, FlightKept
<1>2. ASSUME NEW w \in Workers, TakeRequest(w) PROVE WaitGroupInv'
  <2>1. Head(queue) \in Reqs /\ rs[Head(queue)] = "queued"
    BY <1>2 DEF TakeRequest, QueueInv, TypeOK
  <2>2. wg' = wg /\ \A q \in Reqs : rs[q] \in Counted <=> rs'[q] \in Counted
    BY <1>2, <2>1 DEF TakeRequest, GotoReq, TypeOK, Counted
  <2>3. QED
    BY <2>2, FlightKept
<1>3. ASSUME NEW c \in Conns, ReadOption(c) PROVE WaitGroupInv'
  <2>1. PICK k \in 0 .. Len(inbox[c]) :
          rs' = [q \in Reqs |-> IF \E i \in 1 .. k : inbox[c][i] = q THEN "swallowed" ELSE rs[q]]
    BY <1>3 DEF ReadOption
  <2>2. \A i \in 1 .. k : rs[inbox[c][i]] = "sent"
    <3>1. Len(inbox[c]) \in Nat
      BY DEF TypeOK
    <3>2. \A i \in 1 .. k : i \in 1 .. Len(inbox[c])
      BY <3>1
    <3>3. QED
      BY <3>2 DEF StreamInv
  <2>3. \A q \in Reqs : rs[q] \in Counted <=> rs'[q] \in Counted
    BY <2>1, <2>2 DEF Counted
  <2>4. wg' = wg
    BY <1>3 DEF ReadOption
  <2>5. QED
    BY <2>3, <2>4, FlightKept
<1>4. ASSUME NEW c \in Conns, NEW r \in Reqs, ReadRequest(c, r) PROVE WaitGroupInv'
  <2>1. rs[r] = "sent" /\ ConnOf[r] = c
    BY <1>4, FirstOfStream DEF ReadRequest
  <2>2. rs' = [rs EXCEPT ![r] = "parsed"] /\ wg' = [wg EXCEPT ![ConnOf[r]] = wg[ConnOf[r]] + 1]
    BY <1>4, <2>1 DEF ReadRequest, GotoReq
  <2>3. QED
    BY <2>1, <2>2, FlightAdded DEF Counted
<1>5. ASSUME NEW c \in Conns, NEW r \in Reqs, RefuseMethod(c, r) PROVE WaitGroupInv'
  <2>1. rs[r] = "sent"
    BY <1>5, FirstOfStream DEF RefuseMethod
  <2>2. wg' = wg /\ \A q \in Reqs : rs[q] \in Counted <=> rs'[q] \in Counted
    BY <1>5, <2>1 DEF RefuseMethod, GotoReq, TypeOK, Counted
  <2>3. QED
    BY <2>2, FlightKept
<1>6. ASSUME NEW c \in Conns, NEW r \in Reqs, RefuseBody(c, r) PROVE WaitGroupInv'
  <2>1. rs[r] = "sent"
    BY <1>6, FirstOfStream DEF RefuseBody
  <2>2. wg' = wg /\ \A q \in Reqs : rs[q] \in Counted <=> rs'[q] \in Counted
    BY <1>6, <2>1 DEF RefuseBody, GotoReq, TypeOK, Counted
  <2>3. QED
    BY <2>2, FlightKept
<1>7. ASSUME NEW c \in Conns, NEW r \in Reqs, AddRequest(c, r) PROVE WaitGroupInv'
  <2>1. wg' = wg /\ \A q \in Reqs : rs[q] \in Counted <=> rs'[q] \in Counted
    BY <1>7 DEF AddRequest, GotoReq, TypeOK, Counted
  <2>2. QED
    BY <2>1, FlightKept
<1>8. ASSUME NEW r \in Reqs, Called(r) PROVE WaitGroupInv'
  <2>1. wg' = wg /\ \A q \in Reqs : rs[q] \in Counted <=> rs'[q] \in Counted
    BY <1>8 DEF Called, GotoReq, TypeOK, Counted
  <2>2. QED
    BY <2>1, FlightKept
<1>9. ASSUME NEW r \in Reqs, HandlerTimeout(r) PROVE WaitGroupInv'
  <2>1. Return(r) /\ rs[r] \in Counted
    BY <1>9 DEF HandlerTimeout, Counted
  <2>2. QED
    BY <2>1, FlightReturned
<1>10. ASSUME NEW r \in Reqs, Sent(r) PROVE WaitGroupInv'
  <2>1. Return(r) /\ rs[r] \in Counted
    BY <1>10 DEF Sent, Counted
  <2>2. QED
    BY <2>1, FlightReturned
<1>11. CASE UNCHANGED <<rs, wg>>
  BY <1>11, FlightKept
<1>12. QED
  BY <1>1, <1>2, <1>3, <1>4, <1>5, <1>6, <1>7, <1>8, <1>9, <1>10, <1>11
    DEF Next, Client, Accept, Work, Read, ServeConn, HandleRequest, Quiescent,
      vars, Dial, ClientCloses, AcceptConn, AddConn, TakeConn, RefuseOption,
      ReadUnreadBody, ReadGarbled, ReadFails, FinishConn, MethodReturns,
      Answer, AnswerFails, Free, GotoConn, GotoGor, QueueHasRoom, Respond

\* Requests are in flight only while serveCodec runs.
LEMMA LoopStep ==
  ASSUME TypeOK, StreamInv, ConnInv, QueueInv, WaitGroupInv, LoopInv,
         [Next]_vars
  PROVE  LoopInv'
<1> USE ServerAssumption DEF TypeOK, ConnInv, LoopInv, Counted, Waits, Tasks,
      netVars, poolVars, reqVars
<1>1. ASSUME NEW c \in Conns, Dial(c) PROVE LoopInv'
  BY <1>1 DEF Dial, GotoConn
<1>2. ASSUME NEW r \in Reqs, SendRequest(r) PROVE LoopInv'
  BY <1>2 DEF SendRequest, GotoReq
<1>3. ASSUME NEW c \in Conns, AcceptConn(c) PROVE LoopInv'
  BY <1>3 DEF AcceptConn, GotoConn
<1>4. ASSUME NEW c \in Conns, AddConn(c) PROVE LoopInv'
  BY <1>4 DEF AddConn, GotoConn, QueueHasRoom
<1>5. ASSUME NEW w \in Workers, TakeConn(w) PROVE LoopInv'
  <2>1. Head(queue) \in Conns /\ cs[Head(queue)] = "queued"
    BY <1>5 DEF TakeConn, QueueInv
  <2>2. QED
    BY <1>5, <2>1 DEF TakeConn, GotoConn
<1>6. ASSUME NEW w \in Workers, TakeRequest(w) PROVE LoopInv'
  <2>1. Head(queue) \in Reqs /\ rs[Head(queue)] = "queued"
    BY <1>6 DEF TakeRequest, QueueInv
  <2>2. QED
    BY <1>6, <2>1 DEF TakeRequest, GotoReq
<1>7. ASSUME NEW c \in Conns, RefuseOption(c) PROVE LoopInv'
  BY <1>7 DEF RefuseOption, GotoConn, Free
<1>8. ASSUME NEW c \in Conns, ReadOption(c) PROVE LoopInv'
  <2>1. PICK k \in 0 .. Len(inbox[c]) :
          rs' = [q \in Reqs |-> IF \E i \in 1 .. k : inbox[c][i] = q THEN "swallowed" ELSE rs[q]]
    BY <1>8 DEF ReadOption
  <2>2. \A i \in 1 .. k : rs[inbox[c][i]] = "sent"
    <3>1. Len(inbox[c]) \in Nat
      BY DEF TypeOK
    <3>2. \A i \in 1 .. k : i \in 1 .. Len(inbox[c])
      BY <3>1
    <3>3. QED
      BY <3>2 DEF StreamInv
  <2>3. \A q \in Reqs : rs[q] \in Counted <=> rs'[q] \in Counted
    BY <2>1, <2>2 DEF Counted
  <2>4. cs[c] = "options" /\ cs' = [cs EXCEPT ![c] = "serving"] /\ \A q \in Reqs : rs'[q] = "parsed" => rs[q] = "parsed"
    BY <1>8, <2>1 DEF ReadOption, GotoConn
  <2>5. QED
    BY <2>3, <2>4
<1>9. ASSUME NEW c \in Conns, NEW r \in Reqs, ReadRequest(c, r) PROVE LoopInv'
  <2>1. rs[r] = "sent" /\ ConnOf[r] = c /\ cs[c] = "serving"
    BY <1>9, FirstOfStream DEF ReadRequest
  <2>2. QED
    BY <1>9, <2>1 DEF ReadRequest, GotoReq, GotoConn
<1>10. ASSUME NEW c \in Conns, NEW r \in Reqs, RefuseMethod(c, r) PROVE LoopInv'
  <2>1. rs[r] = "sent" /\ ConnOf[r] = c /\ cs[c] = "serving"
    BY <1>10, FirstOfStream DEF RefuseMethod
  <2>2. QED
    BY <1>10, <2>1 DEF RefuseMethod, GotoReq
<1>11. ASSUME NEW c \in Conns, NEW r \in Reqs, RefuseBody(c, r) PROVE LoopInv'
  <2>1. rs[r] = "sent" /\ ConnOf[r] = c /\ cs[c] = "serving"
    BY <1>11, FirstOfStream DEF RefuseBody
  <2>2. QED
    BY <1>11, <2>1 DEF RefuseBody, GotoReq
<1>12. ASSUME NEW c \in Conns, NEW r \in Reqs, AddRequest(c, r) PROVE LoopInv'
  <2>1. rs[r] = "parsed" /\ cs[c] = "adding" /\ ConnOf[r] = c
    BY <1>12 DEF AddRequest
  <2>2. rs' = [rs EXCEPT ![r] = "queued"] /\ cs' = [cs EXCEPT ![c] = "serving"]
    BY <1>12 DEF AddRequest, GotoReq, GotoConn
  <2>3. QED
    BY <2>1, <2>2
<1>13. ASSUME NEW c \in Conns, ReadUnreadBody(c) PROVE LoopInv'
  BY <1>13 DEF ReadUnreadBody, GotoConn
<1>14. ASSUME NEW c \in Conns, ReadGarbled(c) PROVE LoopInv'
  BY <1>14 DEF ReadGarbled, GotoConn
<1>15. ASSUME NEW c \in Conns, ReadFails(c) PROVE LoopInv'
  BY <1>15 DEF ReadFails, GotoConn
<1>16. ASSUME NEW c \in Conns, FinishConn(c) PROVE LoopInv'
  <2>1. wg[c] = Cardinality(InFlight(c)) /\ IsFiniteSet(InFlight(c)) /\ wg[c] = 0
    BY <1>16, FS_Subset DEF FinishConn, WaitGroupInv, InFlight
  <2>2. InFlight(c) = {}
    BY <2>1, FS_EmptySet
  <2>3. \A q \in Reqs : ConnOf[q] = c => rs[q] \notin Counted
    BY <2>2 DEF InFlight
  <2>4. QED
    BY <1>16, <2>3 DEF FinishConn, GotoConn
<1>17. ASSUME NEW r \in Reqs, Called(r) PROVE LoopInv'
  BY <1>17 DEF Called, GotoReq, GotoGor
<1>18. ASSUME NEW r \in Reqs, HandlerTimeout(r) PROVE LoopInv'
  BY <1>18 DEF HandlerTimeout, Respond, Return, Free
<1>19. ASSUME NEW r \in Reqs, Sent(r) PROVE LoopInv'
  BY <1>19 DEF Sent, GotoGor, Return, Free
<1>20. CASE UNCHANGED <<rs, cs>>
  BY <1>20
<1>21. QED
  BY <1>1, <1>2, <1>3, <1>4, <1>5, <1>6, <1>7, <1>8, <1>9, <1>10, <1>11,
      <1>12, <1>13, <1>14, <1>15, <1>16, <1>17, <1>18, <1>19, <1>20
    DEF Next, Client, Accept, Work, Read, ServeConn, HandleRequest, Quiescent,
      vars, ClientCloses, MethodReturns, Answer, AnswerFails, GotoGor, Respond


\* A step that no goroutine of the pool notices.
LEMMA TasksKept ==
  ASSUME TasksAccounted, worker' = worker,
         \A q \in Reqs : rs'[q] \in Running <=> rs[q] \in Running,
         \A d \in Conns : cs'[d] \in Served <=> cs[d] \in Served
  PROVE  TasksAccounted'
BY DEF TasksAccounted, Running, Served

\* A goroutine of the pool takes a task that nobody runs.
LEMMA TaskTaken ==
  ASSUME TypeOK, TasksAccounted, NEW w \in Workers, NEW t \in Tasks, worker[w] = None,
         worker' = [worker EXCEPT ![w] = t],
         t \in Reqs => rs[t] \notin Running, t \in Conns => cs[t] \notin Served,
         \A q \in Reqs : rs'[q] \in Running <=> rs[q] \in Running \/ q = t,
         \A d \in Conns : cs'[d] \in Served <=> cs[d] \in Served \/ d = t
  PROVE  TasksAccounted'
<1>1. \A v \in Workers : worker'[v] = IF v = w THEN t ELSE worker[v]
  BY DEF TypeOK
<1>2. \A v \in Workers : worker[v] # t
  BY DEF TasksAccounted, Running, Served, Tasks
<1>3. \A v, x \in Workers : worker'[v] = worker'[x] /\ worker'[v] # None => v = x
  BY <1>1, <1>2 DEF TasksAccounted
<1>4. \A u \in Tasks : (\E v \in Workers : worker'[v] = u) <=> (\E v \in Workers : worker[v] = u) \/ u = t
  BY <1>1, ServerAssumption
<1>5. \A d \in Conns : (\E v \in Workers : worker'[v] = d) <=> cs'[d] \in Served
  BY <1>4 DEF TasksAccounted, Served, Tasks
<1>6. \A q \in Reqs : (\E v \in Workers : worker'[v] = q) <=> rs'[q] \in Running
  BY <1>4 DEF TasksAccounted, Running, Tasks
<1>7. QED
  BY <1>3, <1>5, <1>6 DEF TasksAccounted, Running, Served

\* A task ends and its goroutine is free.
LEMMA TaskEnded ==
  ASSUME TypeOK, TasksAccounted, NEW t \in Tasks, Free(t),
         \A q \in Reqs : rs'[q] \in Running <=> rs[q] \in Running /\ q # t,
         \A d \in Conns : cs'[d] \in Served <=> cs[d] \in Served /\ d # t
  PROVE  TasksAccounted'
<1>1. \A v \in Workers : worker'[v] = IF worker[v] = t THEN None ELSE worker[v]
  BY DEF Free
<1>2. \A v, x \in Workers : worker'[v] = worker'[x] /\ worker'[v] # None => v = x
  BY <1>1 DEF TasksAccounted
<1>3. \A u \in Tasks : (\E v \in Workers : worker'[v] = u) <=> (\E v \in Workers : worker[v] = u) /\ u # t
  BY <1>1, ServerAssumption
<1>4. \A d \in Conns : (\E v \in Workers : worker'[v] = d) <=> cs'[d] \in Served
  BY <1>3 DEF TasksAccounted, Served, Tasks
<1>5. \A q \in Reqs : (\E v \in Workers : worker'[v] = q) <=> rs'[q] \in Running
  BY <1>3 DEF TasksAccounted, Running, Tasks
<1>6. QED
  BY <1>2, <1>4, <1>5 DEF TasksAccounted, Running, Served

\* A task that has been taken from the queue is run by one goroutine.
LEMMA TasksStep ==
  ASSUME TypeOK, StreamInv, ConnInv, QueueInv, TasksAccounted, [Next]_vars
  PROVE  TasksAccounted'
<1> USE ServerAssumption DEF TypeOK, ConnInv, Tasks, netVars, poolVars,
      reqVars
<1>1. ASSUME NEW c \in Conns, Dial(c) PROVE TasksAccounted'
  <2>1. worker' = worker /\ \A q \in Reqs : rs'[q] \in Running <=> rs[q] \in Running
    BY <1>1 DEF Dial, GotoConn, Running
  <2>2. \A d \in Conns : cs'[d] \in Served <=> cs[d] \in Served
    BY <1>1 DEF Dial, GotoConn, Served
  <2>3. QED
    BY <2>1, <2>2, TasksKept
<1>2. ASSUME NEW r \in Reqs, SendRequest(r) PROVE TasksAccounted'
  <2>1. worker' = worker /\ \A q \in Reqs : rs'[q] \in Running <=> rs[q] \in Running
    BY <1>2 DEF SendRequest, GotoReq, Running
  <2>2. \A d \in Conns : cs'[d] \in Served <=> cs[d] \in Served
    BY <1>2 DEF SendRequest, GotoReq, Served
  <2>3. QED
    BY <2>1, <2>2, TasksKept
<1>3. ASSUME NEW c \in Conns, AcceptConn(c) PROVE TasksAccounted'
  <2>1. worker' = worker /\ \A q \in Reqs : rs'[q] \in Running <=> rs[q] \in Running
    BY <1>3 DEF AcceptConn, GotoConn, Running
  <2>2. \A d \in Conns : cs'[d] \in Served <=> cs[d] \in Served
    BY <1>3 DEF AcceptConn, GotoConn, Served
  <2>3. QED
    BY <2>1, <2>2, TasksKept
<1>4. ASSUME NEW c \in Conns, AddConn(c) PROVE TasksAccounted'
  <2>1. worker' = worker /\ \A q \in Reqs : rs'[q] \in Running <=> rs[q] \in Running
    BY <1>4 DEF AddConn, GotoConn, Running
  <2>2. \A d \in Conns : cs'[d] \in Served <=> cs[d] \in Served
    BY <1>4 DEF AddConn, GotoConn, Served
  <2>3. QED
    BY <2>1, <2>2, TasksKept
<1>5. ASSUME NEW w \in Workers, TakeConn(w) PROVE TasksAccounted'
  <2> DEFINE t == Head(queue)
  <2>1. /\ t \in Conns /\ worker[w] = None /\ worker' = [worker EXCEPT ![w] = t]
        /\ rs' = rs /\ cs' = [cs EXCEPT ![t] = "options"] /\ cs[t] = "queued"
    BY <1>5 DEF TakeConn, GotoConn, QueueInv, Waits
  <2>2. \A q \in Reqs : rs'[q] \in Running <=> rs[q] \in Running \/ q = t
    BY <2>1
  <2>3. \A d \in Conns : cs'[d] \in Served <=> cs[d] \in Served \/ d = t
    BY <2>1 DEF Served
  <2>4. cs[t] \notin Served
    BY <2>1 DEF Served
  <2> HIDE DEF t
  <2>5. QED
    BY <2>1, <2>2, <2>3, <2>4, TaskTaken
<1>6. ASSUME NEW w \in Workers, TakeRequest(w) PROVE TasksAccounted'
  <2> DEFINE t == Head(queue)
  <2>1. /\ t \in Reqs /\ worker[w] = None /\ worker' = [worker EXCEPT ![w] = t]
        /\ cs' = cs /\ rs' = [rs EXCEPT ![t] = "selecting"] /\ rs[t] = "queued"
    BY <1>6 DEF TakeRequest, GotoReq, QueueInv, Waits
  <2>2. \A q \in Reqs : rs'[q] \in Running <=> rs[q] \in Running \/ q = t
    BY <2>1 DEF Running
  <2>3. \A d \in Conns : cs'[d] \in Served <=> cs[d] \in Served \/ d = t
    BY <2>1
  <2>4. rs[t] \notin Running
    BY <2>1 DEF Running
  <2> HIDE DEF t
  <2>5. QED
    BY <2>1, <2>2, <2>3, <2>4, TaskTaken
<1>7. ASSUME NEW c \in Conns, RefuseOption(c) PROVE TasksAccounted'
  <2>1. Free(c) /\ rs' = rs /\ cs' = [cs EXCEPT ![c] = "closed"]
    BY <1>7 DEF RefuseOption, GotoConn
  <2>2. c \in Tasks
    OBVIOUS
  <2>3. \A q \in Reqs : rs'[q] \in Running <=> rs[q] \in Running /\ q # c
    BY <2>1
  <2>4. \A d \in Conns : cs'[d] \in Served <=> cs[d] \in Served /\ d # c
    BY <2>1 DEF Served
  <2>5. QED
    BY <2>1, <2>2, <2>3, <2>4, TaskEnded
<1>8. ASSUME NEW c \in Conns, ReadOption(c) PROVE TasksAccounted'
  <2>1. PICK k \in 0 .. Len(inbox[c]) :
          rs' = [q \in Reqs |-> IF \E i \in 1 .. k : inbox[c][i] = q THEN "swallowed" ELSE rs[q]]
    BY <1>8 DEF ReadOption
  <2>2. \A i \in 1 .. k : rs[inbox[c][i]] = "sent"
    <3>1. Len(inbox[c]) \in Nat
      BY DEF TypeOK
    <3>2. \A i \in 1 .. k : i \in 1 .. Len(inbox[c])
      BY <3>1
    <3>3. QED
      BY <3>2 DEF StreamInv
  <2>3. \A q \in Reqs : rs'[q] \in Running <=> rs[q] \in Running
    BY <2>1, <2>2 DEF Running
  <2>4. worker' = worker /\ \A d \in Conns : cs'[d] \in Served <=> cs[d] \in Served
    BY <1>8 DEF ReadOption, GotoConn, Served
  <2>5. QED
    BY <2>3, <2>4, TasksKept
<1>9. ASSUME NEW c \in Conns, NEW r \in Reqs, ReadRequest(c, r) PROVE TasksAccounted'
  <2>1. rs[r] = "sent" /\ cs[c] = "serving"
    BY <1>9, FirstOfStream DEF ReadRequest
  <2>2. worker' = worker /\ \A q \in Reqs : rs'[q] \in Running <=> rs[q] \in Running
    BY <1>9, <2>1 DEF ReadRequest, GotoReq, GotoConn, Running
  <2>3. \A d \in Conns : cs'[d] \in Served <=> cs[d] \in Served
    BY <1>9, <2>1 DEF ReadRequest, GotoReq, GotoConn, Served
  <2>4. QED
    BY <2>2, <2>3, TasksKept
<1>10. ASSUME NEW c \in Conns, NEW r \in Reqs, RefuseMethod(c, r) PROVE TasksAccounted'
  <2>1. rs[r] = "sent" /\ cs[c] = "serving"
    BY <1>10, FirstOfStream DEF RefuseMethod
  <2>2. worker' = worker /\ \A q \in Reqs : rs'[q] \in Running <=> rs[q] \in Running
    BY <1>10, <2>1 DEF RefuseMethod, GotoReq, Running
  <2>3. \A d \in Conns : cs'[d] \in Served <=> cs[d] \in Served
    BY <1>10, <2>1 DEF RefuseMethod, GotoReq, Served
  <2>4. QED
    BY <2>2, <2>3, TasksKept
<1>11. ASSUME NEW c \in Conns, NEW r \in Reqs, RefuseBody(c, r) PROVE TasksAccounted'
  <2>1. rs[r] = "sent" /\ cs[c] = "serving"
    BY <1>11, FirstOfStream DEF RefuseBody
  <2>2. worker' = worker /\ \A q \in Reqs : rs'[q] \in Running <=> rs[q] \in Running
    BY <1>11, <2>1 DEF RefuseBody, GotoReq, Running
  <2>3. \A d \in Conns : cs'[d] \in Served <=> cs[d] \in Served
    BY <1>11, <2>1 DEF RefuseBody, GotoReq, Served
  <2>4. QED
    BY <2>2, <2>3, TasksKept
<1>12. ASSUME NEW c \in Conns, NEW r \in Reqs, AddRequest(c, r) PROVE TasksAccounted'
  <2>1. worker' = worker /\ \A q \in Reqs : rs'[q] \in Running <=> rs[q] \in Running
    BY <1>12 DEF AddRequest, GotoReq, GotoConn, Running
  <2>2. \A d \in Conns : cs'[d] \in Served <=> cs[d] \in Served
    BY <1>12 DEF AddRequest, GotoReq, GotoConn, Served
  <2>3. QED
    BY <2>1, <2>2, TasksKept
<1>13. ASSUME NEW c \in Conns, ReadUnreadBody(c) PROVE TasksAccounted'
  <2>1. worker' = worker /\ \A q \in Reqs : rs'[q] \in Running <=> rs[q] \in Running
    BY <1>13 DEF ReadUnreadBody, GotoConn, Running
  <2>2. \A d \in Conns : cs'[d] \in Served <=> cs[d] \in Served
    BY <1>13 DEF ReadUnreadBody, GotoConn, Served
  <2>3. QED
    BY <2>1, <2>2, TasksKept
<1>14. ASSUME NEW c \in Conns, ReadGarbled(c) PROVE TasksAccounted'
  <2>1. worker' = worker /\ \A q \in Reqs : rs'[q] \in Running <=> rs[q] \in Running
    BY <1>14 DEF ReadGarbled, GotoConn, Running
  <2>2. \A d \in Conns : cs'[d] \in Served <=> cs[d] \in Served
    BY <1>14 DEF ReadGarbled, GotoConn, Served
  <2>3. QED
    BY <2>1, <2>2, TasksKept
<1>15. ASSUME NEW c \in Conns, ReadFails(c) PROVE TasksAccounted'
  <2>1. worker' = worker /\ \A q \in Reqs : rs'[q] \in Running <=> rs[q] \in Running
    BY <1>15 DEF ReadFails, GotoConn, Running
  <2>2. \A d \in Conns : cs'[d] \in Served <=> cs[d] \in Served
    BY <1>15 DEF ReadFails, GotoConn, Served
  <2>3. QED
    BY <2>1, <2>2, TasksKept
<1>16. ASSUME NEW c \in Conns, FinishConn(c) PROVE TasksAccounted'
  <2>1. Free(c) /\ rs' = rs /\ cs' = [cs EXCEPT ![c] = "closed"]
    BY <1>16 DEF FinishConn, GotoConn
  <2>2. c \in Tasks
    OBVIOUS
  <2>3. \A q \in Reqs : rs'[q] \in Running <=> rs[q] \in Running /\ q # c
    BY <2>1
  <2>4. \A d \in Conns : cs'[d] \in Served <=> cs[d] \in Served /\ d # c
    BY <2>1 DEF Served
  <2>5. QED
    BY <2>1, <2>2, <2>3, <2>4, TaskEnded
<1>17. ASSUME NEW r \in Reqs, Called(r) PROVE TasksAccounted'
  <2>1. worker' = worker /\ \A q \in Reqs : rs'[q] \in Running <=> rs[q] \in Running
    BY <1>17 DEF Called, GotoReq, Running
  <2>2. \A d \in Conns : cs'[d] \in Served <=> cs[d] \in Served
    BY <1>17 DEF Called, GotoReq, Served
  <2>3. QED
    BY <2>1, <2>2, TasksKept
<1>18. ASSUME NEW r \in Reqs, HandlerTimeout(r) PROVE TasksAccounted'
  <2>1. Free(r) /\ cs' = cs /\ rs' = [rs EXCEPT ![r] = "finished"]
    BY <1>18 DEF HandlerTimeout, Return
  <2>2. r \in Tasks
    OBVIOUS
  <2>3. \A q \in Reqs : rs'[q] \in Running <=> rs[q] \in Running /\ q # r
    BY <2>1 DEF Running
  <2>4. \A d \in Conns : cs'[d] \in Served <=> cs[d] \in Served /\ d # r
    BY <2>1
  <2>5. QED
    BY <2>1, <2>2, <2>3, <2>4, TaskEnded
<1>19. ASSUME NEW r \in Reqs, Sent(r) PROVE TasksAccounted'
  <2>1. Free(r) /\ cs' = cs /\ rs' = [rs EXCEPT ![r] = "finished"]
    BY <1>19 DEF Sent, Return
  <2>2. r \in Tasks
    OBVIOUS
  <2>3. \A q \in Reqs : rs'[q] \in Running <=> rs[q] \in Running /\ q # r
    BY <2>1 DEF Running
  <2>4. \A d \in Conns : cs'[d] \in Served <=> cs[d] \in Served /\ d # r
    BY <2>1
  <2>5. QED
    BY <2>1, <2>2, <2>3, <2>4, TaskEnded
<1>20. CASE UNCHANGED <<cs, rs, worker>>
  BY <1>20, TasksKept
<1>21. QED
  BY <1>1, <1>2, <1>3, <1>4, <1>5, <1>6, <1>7, <1>8, <1>9, <1>10, <1>11,
      <1>12, <1>13, <1>14, <1>15, <1>16, <1>17, <1>18, <1>19, <1>20
    DEF Next, Client, Accept, Work, Read, ServeConn, HandleRequest, Quiescent,
      vars, ClientCloses, MethodReturns, Answer, AnswerFails, GotoGor, Respond

-----------------------------------------------------------------------------
(* The invariant *)

\* Nothing is connected, queued or sent at the start.
LEMMA IInvInit == Init => IInv
<1> SUFFICES ASSUME Init PROVE IInv
  OBVIOUS
<1> USE ServerAssumption DEF Init
<1>1. TypeOK
  <2>1. inbox \in [Conns -> Seq(Reqs)] /\ queue \in Seq(Tasks)
    OBVIOUS
  <2>2. worker \in [Workers -> Tasks \cup {None}] /\ acceptor \in Conns \cup {None}
    OBVIOUS
  <2>3. wg \in [Conns -> Nat] /\ answers \in [Reqs -> Nat]
    OBVIOUS
  <2>4. /\ link \in [Conns -> {"none", "open", "closed"}]
        /\ garbled \in [Conns -> BOOLEAN] /\ unread \in [Conns -> BOOLEAN]
    OBVIOUS
  <2>5. QED
    BY <2>1, <2>2, <2>3, <2>4 DEF TypeOK
<1>2. StreamInv /\ ConnInv /\ QueueInv
  <2>1. StreamInv
    BY DEF StreamInv
  <2>2. ConnInv
    BY DEF ConnInv, Tasks
  <2>3. QueueInv
    BY DEF QueueInv
  <2>4. QED
    BY <2>1, <2>2, <2>3
<1>3. RequestInv /\ LoopInv
  BY DEF RequestInv, LoopInv, Waiting, Counted
<1>4. WaitGroupInv
  <2>1. \A c \in Conns : InFlight(c) = {}
    BY DEF InFlight
  <2>2. QED
    BY <2>1, FS_EmptySet DEF WaitGroupInv
<1>5. TasksAccounted
  BY DEF TasksAccounted, Tasks
<1>6. QED
  BY <1>1, <1>2, <1>3, <1>4, <1>5 DEF IInv

\* Every step preserves it.
LEMMA IInvStep == IInv /\ [Next]_vars => IInv'
<1> SUFFICES ASSUME IInv, [Next]_vars PROVE IInv'
  OBVIOUS
<1> USE DEF IInv
<1>1. TypeOK' /\ StreamInv'
  BY TypeStep, StreamStep
<1>2. ConnInv' /\ QueueInv'
  BY ConnStep, QueueStep
<1>3. RequestInv' /\ WaitGroupInv'
  BY RequestStep, WaitGroupStep
<1>4. LoopInv' /\ TasksAccounted'
  BY LoopStep, TasksStep
<1>5. QED
  BY <1>1, <1>2, <1>3, <1>4

-----------------------------------------------------------------------------
(* Theorems *)

\* The stages of connections, tasks, requests and goroutines fit together at
\* all times, whatever clients, methods and timers do.
THEOREM Invariance == Spec => []IInv
BY IInvInit, IInvStep, PTL DEF Spec

\* The server's state keeps its types; no WaitGroup counter becomes negative.
THEOREM TypeCorrect == Spec => []TypeOK
<1>1. IInv => TypeOK
  BY DEF IInv
<1>2. QED
  BY <1>1, Invariance, PTL

\* handleRequest's timeout and the goroutine that calls the method never both
\* send a response.
THEOREM OneAnswer == Spec => []AnsweredAtMostOnce
<1>1. ASSUME IInv PROVE AnsweredAtMostOnce
  <2> SUFFICES ASSUME NEW r \in Reqs PROVE answers[r] <= 1
    BY DEF AnsweredAtMostOnce
  <2>1. /\ rs[r] \in Waiting => answers[r] = 0
        /\ rs[r] = "selecting" => answers[r] = 0
        /\ rs[r] = "rejected" => answers[r] = 1
        /\ rs[r] = "awaitsent" => gor[r] \in {"answering", "sent"}
        /\ gor[r] = "answering" => answers[r] = 0
        /\ gor[r] = "sent" \/ rs[r] = "finished" => answers[r] = 1 \/ answers[r] = 0
    BY <1>1 DEF IInv, RequestInv
  <2>2. rs[r] \in Waiting \cup {"rejected", "selecting", "awaitsent", "finished"}
    BY <1>1 DEF IInv, TypeOK, Waiting
  <2>3. QED
    BY <2>1, <2>2
<1>2. QED
  BY <1>1, Invariance, PTL

\* handleRequest returns only when the client has its response or is gone.
THEOREM FinishedAnswered == Spec => []FinishedIsAnswered
<1>1. IInv => FinishedIsAnswered
  BY DEF IInv, RequestInv, FinishedIsAnswered
<1>2. QED
  BY <1>1, Invariance, PTL

\* wg.Wait() keeps serveCodec from closing a connection with requests in flight.
THEOREM ClosedDrained == Spec => []ClosedIsDrained
<1>1. IInv => ClosedIsDrained
  BY DEF IInv, LoopInv, ClosedIsDrained, InFlight, Counted
<1>2. QED
  BY <1>1, Invariance, PTL

\* No task of the shared pool is lost or run twice.
THEOREM TasksRunOnce == Spec => []TasksAccounted
<1>1. IInv => TasksAccounted
  BY DEF IInv
<1>2. QED
  BY <1>1, Invariance, PTL

\* No response is written to a connection after serveCodec has closed it.
THEOREM SilentAfterClose == Spec => NoAnswerAfterClose
<1> DEFINE Silent == \A r \in Reqs : cs[ConnOf[r]] = "closed" => answers'[r] = answers[r]
<1>1. ASSUME IInv, [Next]_vars PROVE Silent
  <2> USE <1>1, ServerAssumption DEF IInv, TypeOK
  <2>1. ASSUME NEW c \in Conns, NEW r \in Reqs, RefuseMethod(c, r) \/ RefuseBody(c, r)
        PROVE  Silent
    <3>1. cs[ConnOf[r]] = "serving"
      BY <2>1, FirstOfStream DEF RefuseMethod, RefuseBody
    <3>2. QED
      BY <2>1, <3>1 DEF RefuseMethod, RefuseBody, Respond
  <2>2. ASSUME NEW r \in Reqs, HandlerTimeout(r) PROVE Silent
    <3>1. cs[ConnOf[r]] # "closed"
      BY <2>2 DEF HandlerTimeout, LoopInv, Counted
    <3>2. QED
      BY <2>2, <3>1 DEF HandlerTimeout, Respond
  <2>3. ASSUME NEW r \in Reqs, Answer(r) PROVE Silent
    <3>1. rs[r] = "awaitsent"
      BY <2>3 DEF Answer, RequestInv, Waiting
    <3>2. cs[ConnOf[r]] # "closed"
      BY <3>1 DEF LoopInv, Counted
    <3>3. QED
      BY <2>3, <3>2 DEF Answer, Respond
  <2>4. CASE UNCHANGED answers
    BY <2>4
  <2>5. QED
    BY <2>1, <2>2, <2>3, <2>4
      DEF Next, Client, Accept, Work, Read, ServeConn, HandleRequest, Quiescent, vars,
      netVars, poolVars, reqVars, Dial, SendRequest, ClientCloses, AcceptConn, AddConn,
      TakeConn, TakeRequest, RefuseOption, ReadOption, ReadRequest, AddRequest,
      ReadUnreadBody, ReadGarbled, ReadFails, FinishConn, MethodReturns, Called,
      AnswerFails, Sent
<1>2. QED
  BY <1>1, Invariance, PTL DEF Spec, NoAnswerAfterClose
=============================================================================
