---------------------------- MODULE ChainProofs ----------------------------
(***************************************************************************)
(* The safety properties of Chain for any handlers, that is for chains of  *)
(* any length: the nested loops of Next may be as deep as there are        *)
(* middlewares.                                                            *)
(***************************************************************************)
EXTENDS Chain, SequenceTheorems, TLAPS

Frames == [handler : Positions, at : {"body", "loop", "after", "remote"}]

\* A handler has been called and has not yet come to Next or back.
Busy == stack # <<>> /\ Top.at \in {"body", "remote"}

\* At the bottom of the stack stands the loop of router.handle; every handler
\* above it has been called, and all but the one on top are in their loops.
StackInv ==
  /\ stack = <<>> <=> outcome # "running"
  /\ \A k \in 1 .. Len(stack) :
       /\ stack[k].handler = None <=> k = 1
       /\ k > 1 => stack[k].handler \in 0 .. Len(started) - 1
       /\ k = 1 \/ k < Len(stack) => stack[k].at = "loop"

\* c.index is the handler that runs, or the next one, or beyond the end.
IndexInv ==
  /\ \A i \in 1 .. Len(started) : started[i] = i - 1
  /\ Len(started) <= Len(handlers)
  /\ stopped => index >= Len(handlers) /\ ~panicking
  /\ Busy => ~stopped /\ index = Top.handler /\ Len(started) = index + 1
  /\ ~Busy /\ ~stopped /\ ~panicking =>
       index = Len(started) \/ (index > Len(started) /\ Len(started) = Len(handlers))
  /\ stack # <<>> /\ Top.at = "after" => index >= Len(handlers) /\ ~panicking

\* The kinds of handlers that call Next, or a remote method.
KindInv ==
  \A k \in 2 .. Len(stack) :
    LET kind == handlers[stack[k].handler + 1]
    IN  /\ stack[k].at \in {"loop", "after"} =>
             kind \in {"Logger", "Recovery", "CrossDomain", "Token"}
        /\ stack[k].at = "remote" => kind \in Services
        /\ panicking /\ stack[k].at # "loop" => kind \in {"Plain"} \cup Services

\* A handler that a middleware has let pass, so that the loop may go on.
Passed(j) ==
  /\ handlers[j] = "Token" => token \in {"exempt", "good"}
  /\ handlers[j] = "CrossDomain" => ~options

GuardInv ==
  /\ \A j \in 1 .. Len(started) : j < Len(started) \/ (~Busy /\ ~stopped) => Passed(j)
  /\ claims => token = "good"
  /\ called => Len(started) = Len(handlers)
  /\ called /\ handlers[Len(handlers)] = "Profile" => token = "good"

\* A Recovery that was called stays on the stack as long as there may be a panic.
RecoveryInv ==
  /\ panicking => started # <<>> /\ outcome # "done"
  /\ outcome = "crashed" => panicking
  /\ panicking \/ Busy \/ (~stopped /\ Len(started) < Len(handlers)) =>
       \A r \in 1 .. Len(started) :
         handlers[r] = "Recovery" => \E k \in 2 .. Len(stack) : stack[k].handler = r - 1

\* Nobody answers but the last handler, unless the request is stopped; after a
\* panic there is room for the answer of Recovery.
WriteInv ==
  /\ outcome = "done" /\ ~stopped => Len(started) = Len(handlers)
  /\ stopped => writes >= 1
  /\ ~stopped /\ ~panicking =>
       writes = IF ~Busy /\ Len(started) = Len(handlers) THEN 1 ELSE 0
  /\ panicking => panicked /\ writes <= 1
  /\ writes <= IF panicked THEN 2 ELSE 1

ChainsInv == handlers \in Chains

IInv ==
  /\ TypeOK
  /\ ChainsInv
  /\ StackInv
  /\ IndexInv
  /\ KindInv
  /\ GuardInv
  /\ RecoveryInv
  /\ WriteInv

-----------------------------------------------------------------------------
(* Stacks *)

\* The handlers of a request are some kinds of handlers, of which the last one
\* answers and the others do not.
LEMMA HandlersFacts ==
  ASSUME ChainsInv
  PROVE  /\ handlers \in Seq(Kinds)
         /\ Len(handlers) \in Nat \ {0}
         /\ \A i \in 1 .. Len(handlers) :
              handlers[i] \in Services \cup {"NotFound"} <=> i = Len(handlers)
  BY ChainAssumption, RouteAssumption DEF ChainsInv

\* The last element of a sequence, and what is left without it.
LEMMA FrontFacts ==
  ASSUME NEW S, NEW s \in Seq(S), s # <<>>
  PROVE  /\ Len(s) \in Nat \ {0}
         /\ Last(s) = s[Len(s)]
         /\ Last(s) \in S
         /\ Front(s) \in Seq(S)
         /\ Len(Front(s)) = Len(s) - 1
         /\ \A k \in 1 .. Len(s) - 1 : Front(s)[k] = s[k]
<1>1. Len(s) \in Nat \ {0}
  BY EmptySeq
<1>2. Last(s) = s[Len(s)] /\ Last(s) \in S
  BY <1>1 DEF Last
<1>3. PICK n \in Nat : Len(s) = n + 1 /\ Len(s) - 1 = n
  BY <1>1
<1>4. \A k \in 1 .. n : s[k] \in S /\ s[1 + k - 1] = s[k]
  BY <1>3
<1>5. Front(s) = SubSeq(s, 1, n)
  BY <1>3 DEF Front
<1>6. /\ Front(s) \in Seq(S)
      /\ Len(Front(s)) = n
      /\ \A k \in 1 .. n : Front(s)[k] = s[k]
  <2>1. /\ SubSeq(s, 1, n) \in Seq(S)
        /\ Len(SubSeq(s, 1, n)) = IF 1 <= n THEN n - 1 + 1 ELSE 0
        /\ \A k \in 1 .. n - 1 + 1 : SubSeq(s, 1, n)[k] = s[1 + k - 1]
    BY <1>4, SubSeqProperties
  <2>2. (IF 1 <= n THEN n - 1 + 1 ELSE 0) = n /\ n - 1 + 1 = n
    OBVIOUS
  <2>3. QED
    BY <1>4, <1>5, <2>1, <2>2
<1>7. QED
  BY <1>1, <1>2, <1>3, <1>6

\* The frame on top.
LEMMA TopFacts ==
  ASSUME TypeOK, stack # <<>>
  PROVE  /\ Len(stack) \in Nat \ {0}
         /\ Top = stack[Len(stack)]
         /\ Top \in Frames
  BY FrontFacts DEF TypeOK, Top, Frames

\* A handler is called.
LEMMA Pushed ==
  ASSUME TypeOK, NEW frame \in Frames, stack' = Append(stack, frame)
  PROVE  /\ stack' \in Seq(Frames)
         /\ stack' # <<>>
         /\ Len(stack') = Len(stack) + 1
         /\ \A k \in 1 .. Len(stack) : stack'[k] = stack[k]
         /\ stack'[Len(stack) + 1] = frame
         /\ Top' = frame
<1>1. stack \in Seq(Frames)
  BY DEF TypeOK, Frames
<1>2. /\ stack' \in Seq(Frames)
      /\ Len(stack') = Len(stack) + 1
      /\ \A k \in 1 .. Len(stack) : stack'[k] = stack[k]
      /\ stack'[Len(stack) + 1] = frame
  BY <1>1
<1>3. stack' # <<>> /\ Top' = frame
  BY <1>1, <1>2 DEF Top, Last
<1>4. QED
  BY <1>2, <1>3

\* A handler returns.
LEMMA Popped ==
  ASSUME TypeOK, stack # <<>>, stack' = Front(stack)
  PROVE  /\ stack' \in Seq(Frames)
         /\ Len(stack') = Len(stack) - 1
         /\ \A k \in 1 .. Len(stack) - 1 : stack'[k] = stack[k]
         /\ stack' # <<>> <=> Len(stack) > 1
         /\ Len(stack) > 1 => Top' = stack[Len(stack) - 1]
<1>1. /\ Len(stack) \in Nat \ {0}
      /\ stack' \in Seq(Frames)
      /\ Len(stack') = Len(stack) - 1
      /\ \A k \in 1 .. Len(stack) - 1 : stack'[k] = stack[k]
  BY FrontFacts DEF TypeOK, Frames
<1>2. stack' # <<>> <=> Len(stack) > 1
  BY <1>1, EmptySeq
<1>3. ASSUME Len(stack) > 1 PROVE Top' = stack[Len(stack) - 1]
  BY <1>1, <1>3 DEF Top, Last
<1>4. QED
  BY <1>1, <1>2, <1>3

\* A handler goes on.
LEMMA Replaced ==
  ASSUME TypeOK, stack # <<>>,
         NEW point \in {"body", "loop", "after", "remote"}, Goto(point)
  PROVE  /\ stack' \in Seq(Frames)
         /\ stack' # <<>>
         /\ Len(stack') = Len(stack)
         /\ \A k \in 1 .. Len(stack) - 1 : stack'[k] = stack[k]
         /\ stack'[Len(stack)] = [handler |-> Top.handler, at |-> point]
         /\ Top' = [handler |-> Top.handler, at |-> point]
<1>1. PICK frame \in Frames : /\ frame = [handler |-> Top.handler, at |-> point]
                              /\ stack' = Append(Front(stack), frame)
  <2>1. Top \in [handler : Positions, at : {"body", "loop", "after", "remote"}]
    BY TopFacts DEF Frames
  <2>2. [Top EXCEPT !.at = point] = [handler |-> Top.handler, at |-> point]
    BY <2>1
  <2>3. [handler |-> Top.handler, at |-> point] \in Frames
    BY <2>1 DEF Frames
  <2>4. QED
    BY <2>2, <2>3 DEF Goto
<1>2. /\ Front(stack) \in Seq(Frames)
      /\ Len(Front(stack)) = Len(stack) - 1
      /\ \A k \in 1 .. Len(stack) - 1 : Front(stack)[k] = stack[k]
  <2>1. stack \in Seq(Frames)
    BY DEF TypeOK, Frames
  <2>2. QED
    BY <2>1, FrontFacts
<1>3. /\ stack' \in Seq(Frames)
      /\ Len(stack') = Len(stack)
      /\ \A k \in 1 .. Len(stack) - 1 : stack'[k] = stack[k]
      /\ stack'[Len(stack)] = frame
  BY <1>1, <1>2, TopFacts
<1>4. stack' # <<>> /\ Top' = frame
  BY <1>3, TopFacts DEF Top, Last
<1>5. QED
  BY <1>1, <1>3, <1>4

\* A handler that runs is the one c.index names, the last that was called, and
\* nobody has answered yet.
HandlerRuns(point, kinds) ==
  /\ Len(stack) \in Nat /\ Len(stack) > 1 /\ stack # <<>>
  /\ Top = stack[Len(stack)] /\ Top.at = point /\ Top.handler = index
  /\ index \in Nat /\ Len(started) = index + 1 /\ index < Len(handlers)
  /\ handlers[index + 1] \in kinds
  /\ handlers[index + 1] \in Kinds
  /\ Busy /\ ~stopped /\ ~panicking /\ outcome = "running" /\ writes = 0

\* What holds while a handler runs.
LEMMA RunningFacts ==
  ASSUME IInv, NEW point \in {"body", "remote"}, NEW kinds, At(point, kinds)
  PROVE  HandlerRuns(point, kinds)
<1>1. stack # <<>> /\ ~panicking /\ Top.at = point /\ Top.handler # None
  BY DEF At
<1>2. Busy
  BY <1>1 DEF Busy
<1>3. Len(stack) > 1
  BY <1>1, TopFacts DEF IInv, StackInv
<1>4. ~stopped /\ index = Top.handler /\ Len(started) = index + 1
  BY <1>2 DEF IInv, IndexInv
<1>5. index < Len(handlers)
  BY <1>4, HandlersFacts DEF IInv, IndexInv, TypeOK
<1>6. writes = 0
  BY <1>1, <1>2, <1>4 DEF IInv, WriteInv
<1>7. handlers[index + 1] \in kinds /\ handlers[index + 1] \in Kinds
  BY <1>4, <1>5, HandlersFacts DEF At, IInv, TypeOK
<1>8. outcome = "running"
  BY <1>1 DEF IInv, StackInv, TypeOK
<1>9. QED
  BY <1>1, <1>2, <1>3, <1>4, <1>5, <1>6, <1>7, <1>8, TopFacts DEF IInv, TypeOK, HandlerRuns
-----------------------------------------------------------------------------
(* The kinds of steps *)

\* A service responds, or calls; one that works on an account calls with claims.
LEMMA ServiceSteps ==
  ASSUME Service
  PROVE  \/ \E point \in {"body", "remote"} : At(point, Services) /\ Respond
         \/ /\ At("body", Services)
            /\ CallRemote
            /\ claims \/ handlers[Top.handler + 1] # "Profile"
<1>1. ASSUME NEW S, NEW T, S \subseteq T, At("body", S) PROVE At("body", T)
  BY <1>1 DEF At
<1>2. {"Open"} \subseteq Services /\ {"Profile"} \subseteq Services
      /\ {"Category"} \subseteq Services /\ {"Article"} \subseteq Services
  BY DEF Services
<1>3. CASE OpenService
  BY <1>1, <1>2, <1>3 DEF OpenService, At
<1>4. CASE ProfileService
  BY <1>1, <1>2, <1>4 DEF ProfileService
<1>5. CASE CategoryService
  BY <1>1, <1>2, <1>5 DEF CategoryService, At
<1>6. CASE ArticleService
  BY <1>1, <1>2, <1>6 DEF ArticleService, At
<1>7. CASE ServiceAnswers
  BY <1>7 DEF ServiceAnswers
<1>8. QED
  BY <1>3, <1>4, <1>5, <1>6, <1>7 DEF Service

\* A handler that has not called Next returns.
Returns(point, i) ==
  /\ At(point, {"Token", "Plain", "NotFound"} \cup Services)
  /\ ReturnFrom(i)
  /\ \/ i = Aborted /\ stopped' = TRUE
     \/ i = index /\ stopped' = FALSE /\ handlers[index + 1] # "Token"
  /\ writes' = IF stopped' = TRUE \/ handlers[index + 1] # "Plain" THEN writes + 1 ELSE writes
  /\ UNCHANGED <<request, service, panicking, panicked, started, outcome>>

\* A handler calls Next.
Enters(i) ==
  /\ At("body", {"Logger", "Recovery", "CrossDomain", "Token"})
  /\ CallNextFrom(i)
  /\ \/ i = Aborted /\ stopped' = TRUE /\ writes' = writes + 1
     \/ i = index /\ stopped' = FALSE /\ Passed(index + 1) /\ writes' = writes
  /\ claims' => claims \/ token = "good"
  /\ claims' \in BOOLEAN
  /\ UNCHANGED <<request, called, panicking, panicked, started, outcome>>

\* A handler that runs returns, calls Next, calls a remote method or panics.
LEMMA StepCases ==
  ASSUME IInv, [Next]_vars
  PROVE  \/ LoopCalls \/ LoopEnds \/ RequestEnds \/ AfterNext
         \/ \E point \in {"body", "remote"} : Returns(point, index) \/ Returns(point, Aborted)
         \/ Enters(index) \/ Enters(Aborted)
         \/ /\ At("body", Services)
            /\ CallRemote
            /\ claims \/ handlers[index + 1] # "Profile"
         \/ Panic \/ Unwind \/ Recover
         \/ UNCHANGED vars
<1> USE DEF IInv
<1>1. ASSUME NEW point \in {"body", "remote"}, NEW S, NEW T, S \subseteq T, At(point, S)
      PROVE  At(point, T)
  BY <1>1 DEF At
<1>2. CASE RunWrapper
  <2>1. /\ handlers[index + 1] \in {"Logger", "Recovery"}
        /\ ~stopped
    BY <1>2, RunningFacts DEF HandlerRuns, RunWrapper
  <2>2. At("body", {"Logger", "Recovery", "CrossDomain", "Token"})
    BY <1>1, <1>2 DEF RunWrapper
  <2>3. Passed(index + 1)
    BY <2>1 DEF Passed
  <2>4. Enters(index)
    BY <2>1, <2>2, <2>3, <1>2 DEF RunWrapper, Enters, request, service, TypeOK
  <2>5. QED
    BY <2>4
<1>3. CASE CrossDomain
  <2>1. /\ handlers[index + 1] = "CrossDomain"
        /\ ~stopped
    BY <1>3, RunningFacts DEF HandlerRuns, CrossDomain
  <2>2. At("body", {"Logger", "Recovery", "CrossDomain", "Token"})
    BY <1>1, <1>3 DEF CrossDomain
  <2>3. CASE options
    <3>1. Enters(Aborted)
      BY <2>2, <2>3, <1>3 DEF CrossDomain, Write, Enters, request, service, TypeOK
    <3>2. QED
      BY <3>1
  <2>4. CASE ~options
    <3>1. Passed(index + 1)
      BY <2>1, <2>4 DEF Passed
    <3>2. Enters(index)
      BY <2>1, <2>2, <2>4, <3>1, <1>3 DEF CrossDomain, Enters, request, service, TypeOK
    <3>3. QED
      BY <3>2
  <2>5. QED
    BY <2>3, <2>4
<1>4. CASE TokenDenies
  <2>1. At("body", {"Token", "Plain", "NotFound"} \cup Services)
    BY <1>1, <1>4 DEF TokenDenies
  <2>2. Returns("body", Aborted)
    BY <2>1, <1>4 DEF TokenDenies, Write, Returns, request, service
  <2>3. QED
    BY <2>2
<1>5. CASE TokenAdmits
  <2>1. /\ handlers[index + 1] = "Token"
        /\ ~stopped
    BY <1>5, RunningFacts DEF HandlerRuns, TokenAdmits
  <2>2. At("body", {"Logger", "Recovery", "CrossDomain", "Token"})
    BY <1>1, <1>5 DEF TokenAdmits
  <2>3. Passed(index + 1)
    BY <2>1, <1>5 DEF TokenAdmits, ParseToken, Passed
  <2>4. claims' \in BOOLEAN /\ (claims' => claims \/ token = "good")
    BY <1>5 DEF TokenAdmits, ParseToken, TypeOK
  <2>5. Enters(index)
    BY <2>1, <2>2, <2>3, <2>4, <1>5 DEF TokenAdmits, Enters, request
  <2>6. QED
    BY <2>5
<1>6. CASE RunPlain
  <2>1. /\ handlers[index + 1] = "Plain"
        /\ ~stopped
    BY <1>6, RunningFacts DEF HandlerRuns, RunPlain
  <2>2. At("body", {"Token", "Plain", "NotFound"} \cup Services)
    BY <1>1, <1>6 DEF RunPlain
  <2>3. Returns("body", index)
    BY <2>1, <2>2, <1>6 DEF RunPlain, Returns, request, service
  <2>4. QED
    BY <2>3
<1>7. CASE NotFound
  <2>1. /\ handlers[index + 1] = "NotFound"
        /\ ~stopped
    BY <1>7, RunningFacts DEF HandlerRuns, NotFound
  <2>2. At("body", {"Token", "Plain", "NotFound"} \cup Services)
    BY <1>1, <1>7 DEF NotFound
  <2>3. Returns("body", index)
    BY <2>1, <2>2, <1>7 DEF NotFound, Write, Returns, request, service
  <2>4. QED
    BY <2>3
<1>8. CASE Service
  <2>1. ASSUME NEW point \in {"body", "remote"}, At(point, Services), Respond
        PROVE  Returns(point, index)
    <3>1. /\ handlers[index + 1] \in Services
          /\ ~stopped
      BY <2>1, RunningFacts DEF HandlerRuns
    <3>2. handlers[index + 1] # "Token" /\ handlers[index + 1] # "Plain"
      BY <3>1 DEF Services
    <3>3. At(point, {"Token", "Plain", "NotFound"} \cup Services)
      BY <1>1, <2>1
    <3>4. QED
      BY <3>1, <3>2, <3>3, <2>1 DEF Respond, Write, Returns, request, service
  <2>2. CASE /\ At("body", Services)
             /\ CallRemote
             /\ claims \/ handlers[Top.handler + 1] # "Profile"
    BY <2>2, RunningFacts DEF HandlerRuns
  <2>3. QED
    BY <2>1, <2>2, <1>8, ServiceSteps
<1>9. QED
  BY <1>2, <1>3, <1>4, <1>5, <1>6, <1>7, <1>8 DEF Next, NextLoop, Handler
-----------------------------------------------------------------------------
(* What each kind of step does *)

\* The next handler is called, by a loop.
HandlerCalled ==
  /\ Len(stack) \in Nat /\ Len(stack) > 0 /\ ~Busy
  /\ ~stopped /\ ~panicking /\ outcome = "running"
  /\ stack[Len(stack)].at = "loop"
  /\ index \in Nat /\ index = Len(started) /\ index < Len(handlers)
  /\ stack' \in Seq(Frames) /\ stack' # <<>> /\ Len(stack') = Len(stack) + 1
  /\ \A k \in 1 .. Len(stack) : stack'[k] = stack[k]
  /\ stack'[Len(stack) + 1].handler = index /\ stack'[Len(stack) + 1].at = "body"
  /\ Top'.handler = index /\ Top'.at = "body" /\ Busy'
  /\ started' \in Seq(Nat) /\ Len(started') = index + 1
  /\ \A i \in 1 .. index : started'[i] = started[i]
  /\ started'[index + 1] = index

\* A loop calls the handler c.index names.
LEMMA LoopCallsFacts ==
  ASSUME IInv, LoopCalls
  PROVE  HandlerCalled
<1>1. /\ ~panicking /\ stack # <<>> /\ Top.at = "loop" /\ index < Len(handlers)
      /\ stack' = Append(stack, [handler |-> index, at |-> "body"])
      /\ started' = Append(started, index)
  BY DEF LoopCalls
<1>2. PICK frame \in Frames : /\ frame.handler = index /\ frame.at = "body"
                              /\ stack' = Append(stack, frame)
  BY <1>1 DEF IInv, TypeOK, Frames, Positions
<1>3. /\ Len(stack) \in Nat /\ Len(stack) > 0 /\ stack[Len(stack)].at = "loop"
  BY <1>1, TopFacts DEF IInv
<1>4. /\ stack' \in Seq(Frames) /\ stack' # <<>> /\ Len(stack') = Len(stack) + 1
      /\ \A k \in 1 .. Len(stack) : stack'[k] = stack[k]
      /\ stack'[Len(stack) + 1] = frame /\ Top' = frame
  BY <1>2, Pushed DEF IInv
<1>5. ~Busy
  BY <1>1 DEF Busy
<1>6. ~stopped /\ index \in Nat /\ index = Len(started)
  BY <1>1, <1>5, HandlersFacts DEF IInv, IndexInv, TypeOK
<1>7. /\ started' \in Seq(Nat) /\ Len(started') = index + 1
      /\ \A i \in 1 .. index : started'[i] = started[i]
      /\ started'[index + 1] = index
  BY <1>1, <1>6 DEF IInv, TypeOK
<1>8. Busy'
  BY <1>2, <1>4 DEF Busy
<1>9. outcome = "running"
  BY <1>1 DEF IInv, StackInv
<1>10. QED
  BY <1>1, <1>2, <1>3, <1>4, <1>5, <1>6, <1>7, <1>8, <1>9 DEF HandlerCalled

\* A loop ends, in a handler.
LoopEnded ==
  /\ Len(stack) \in Nat /\ Len(stack) > 1 /\ ~Busy /\ ~Busy'
  /\ ~panicking /\ index >= Len(handlers) /\ outcome = "running"
  /\ stack[Len(stack)].at = "loop"
  /\ stack' \in Seq(Frames) /\ stack' # <<>> /\ Len(stack') = Len(stack)
  /\ \A k \in 1 .. Len(stack) - 1 : stack'[k] = stack[k]
  /\ stack'[Len(stack)].handler = stack[Len(stack)].handler
  /\ stack'[Len(stack)].at = "after"
  /\ Top'.at = "after"

\* The loop of a middleware ends when c.index is at the end.
LEMMA LoopEndsFacts ==
  ASSUME IInv, LoopEnds
  PROVE  LoopEnded
<1>1. /\ ~panicking /\ stack # <<>> /\ Top.at = "loop" /\ index >= Len(handlers)
      /\ Top.handler # None /\ Goto("after")
  BY DEF LoopEnds
<1>2. /\ Len(stack) \in Nat /\ Len(stack) > 0 /\ Top = stack[Len(stack)]
  BY <1>1, TopFacts DEF IInv
<1>3. Len(stack) > 1 /\ outcome = "running"
  BY <1>1, <1>2 DEF IInv, StackInv
<1>4. /\ stack' \in Seq(Frames) /\ stack' # <<>> /\ Len(stack') = Len(stack)
      /\ \A k \in 1 .. Len(stack) - 1 : stack'[k] = stack[k]
      /\ stack'[Len(stack)] = [handler |-> Top.handler, at |-> "after"]
      /\ Top' = [handler |-> Top.handler, at |-> "after"]
  BY <1>1, Replaced DEF IInv
<1>5. ~Busy /\ ~Busy'
  BY <1>1, <1>4 DEF Busy
<1>6. QED
  BY <1>1, <1>2, <1>3, <1>4, <1>5 DEF LoopEnded

\* The loop of router.handle ends.
RequestEnded ==
  /\ Len(stack) = 1 /\ ~Busy /\ ~Busy' /\ stack # <<>>
  /\ ~panicking /\ index >= Len(handlers)
  /\ stack' = <<>> /\ stack' \in Seq(Frames) /\ Len(stack') = 0

\* The loop of router.handle stands alone when it ends.
LEMMA RequestEndsFacts ==
  ASSUME IInv, RequestEnds
  PROVE  RequestEnded
<1>1. /\ ~panicking /\ stack # <<>> /\ Top.at = "loop" /\ index >= Len(handlers)
      /\ Top.handler = None /\ stack' = <<>>
  BY DEF RequestEnds
<1>2. /\ Len(stack) \in Nat /\ Len(stack) > 0 /\ Top = stack[Len(stack)]
  BY <1>1, TopFacts DEF IInv
<1>3. Len(stack) = 1
  <2>1. Len(stack) \in 1 .. Len(stack)
    BY <1>2
  <2>2. QED
    BY <1>1, <1>2, <2>1 DEF IInv, StackInv
<1>4. ~Busy /\ ~Busy'
  BY <1>1 DEF Busy
<1>5. stack' \in Seq(Frames) /\ Len(stack') = 0
  BY <1>1
<1>6. QED
  BY <1>1, <1>3, <1>4, <1>5 DEF RequestEnded

\* What is left when a handler or a panic takes the frame on top away.
TopGone ==
  /\ Len(stack) \in Nat /\ Len(stack) > 0
  /\ stack' \in Seq(Frames) /\ Len(stack') = Len(stack) - 1 /\ ~Busy'
  /\ stack' = <<>> <=> Len(stack) = 1
  /\ \A k \in 1 .. Len(stack) - 1 : stack'[k] = stack[k]
  /\ stack' # <<>> => Top'.at = "loop"

\* Below the frame on top there are loops.
LEMMA PoppedFacts ==
  ASSUME IInv, stack # <<>>, stack' = Front(stack)
  PROVE  TopGone
<1>1. /\ Len(stack) \in Nat /\ Len(stack) > 0
  BY TopFacts DEF IInv
<1>2. /\ stack' \in Seq(Frames)
      /\ Len(stack') = Len(stack) - 1
      /\ \A k \in 1 .. Len(stack) - 1 : stack'[k] = stack[k]
      /\ stack' # <<>> <=> Len(stack) > 1
      /\ Len(stack) > 1 => Top' = stack[Len(stack) - 1]
  BY Popped DEF IInv
<1>3. stack' # <<>> => Top'.at = "loop"
  BY <1>1, <1>2 DEF IInv, StackInv
<1>4. ~Busy'
  BY <1>3 DEF Busy
<1>5. QED
  BY <1>1, <1>2, <1>3, <1>4 DEF TopGone

\* A handler that has called Next returns.
NextReturned ==
  /\ Len(stack) > 1 /\ stack # <<>> /\ stack' = Front(stack) /\ ~Busy
  /\ ~panicking /\ index \in Nat /\ index >= Len(handlers) /\ index' = index + 1
  /\ outcome = "running"

\* A middleware returns when all handlers behind it have been called, or skipped.
LEMMA AfterNextFacts ==
  ASSUME IInv, AfterNext
  PROVE  NextReturned
<1>1. /\ ~panicking /\ stack # <<>> /\ Top.at = "after" /\ Top.handler # None
      /\ stack' = Front(stack) /\ index' = index + 1
  BY DEF AfterNext, At, ReturnFrom
<1>2. Len(stack) > 1 /\ outcome = "running"
  BY <1>1, TopFacts DEF IInv, StackInv
<1>3. ~Busy
  BY <1>1 DEF Busy
<1>4. index \in Nat /\ index >= Len(handlers)
  BY <1>1 DEF IInv, IndexInv, TypeOK
<1>5. QED
  BY <1>1, <1>2, <1>3, <1>4 DEF NextReturned

\* A handler goes on to Next, or to its remote call.
WentOn(point) ==
  /\ Len(stack) \in Nat /\ Len(stack) > 1 /\ Top.handler = index
  /\ stack' \in Seq(Frames) /\ stack' # <<>> /\ Len(stack') = Len(stack)
  /\ \A k \in 1 .. Len(stack) - 1 : stack'[k] = stack[k]
  /\ stack'[Len(stack)].handler = index /\ stack[Len(stack)].handler = index
  /\ stack'[Len(stack)].at = point
  /\ Top'.handler = index /\ Top'.at = point
  /\ Busy' <=> point = "remote"

\* The handler that goes on is the one c.index names.
LEMMA GoesOnFacts ==
  ASSUME IInv, NEW kinds, At("body", kinds), NEW point \in {"loop", "remote"}, Goto(point)
  PROVE  WentOn(point)
<1>1. /\ Len(stack) \in Nat /\ Len(stack) > 1
      /\ Top = stack[Len(stack)] /\ Top.handler = index /\ stack # <<>>
  BY RunningFacts DEF HandlerRuns
<1>2. /\ stack' \in Seq(Frames) /\ stack' # <<>> /\ Len(stack') = Len(stack)
      /\ \A k \in 1 .. Len(stack) - 1 : stack'[k] = stack[k]
      /\ stack'[Len(stack)] = [handler |-> Top.handler, at |-> point]
      /\ Top' = [handler |-> Top.handler, at |-> point]
  BY <1>1, Replaced DEF IInv
<1>3. Busy' <=> point = "remote"
  BY <1>2 DEF Busy
<1>4. QED
  BY <1>1, <1>2, <1>3 DEF WentOn

\* A panic passes through a handler that does not recover.
Unwound ==
  /\ Len(stack) > 0 /\ stack # <<>> /\ stack' = Front(stack)
  /\ panicking /\ ~stopped
  /\ Len(stack) > 1 => handlers[stack[Len(stack)].handler + 1] # "Recovery"
  /\ Busy => handlers[Len(started)] \in {"Plain"} \cup Services
  /\ outcome' = IF Len(stack) = 1 THEN "crashed" ELSE "running"

\* A panic takes no Recovery away that could see it.
LEMMA UnwindFacts ==
  ASSUME IInv, Unwind
  PROVE  Unwound
<1>1. /\ panicking /\ stack # <<>> /\ ~Recovers /\ stack' = Front(stack)
      /\ outcome' = IF Len(stack) = 1 THEN "crashed" ELSE "running"
  BY DEF Unwind
<1>2. Len(stack) \in Nat /\ Len(stack) > 0 /\ Top = stack[Len(stack)]
  BY <1>1, TopFacts DEF IInv
<1>3. ~stopped
  BY <1>1 DEF IInv, IndexInv
<1>4. ASSUME Len(stack) > 1 PROVE handlers[stack[Len(stack)].handler + 1] # "Recovery"
  <2>1. Top.handler # None /\ Len(stack) \in 2 .. Len(stack)
    BY <1>2, <1>4 DEF IInv, StackInv
  <2>2. CASE Top.at = "loop"
    BY <1>1, <1>2, <2>1, <2>2 DEF Recovers
  <2>3. CASE Top.at # "loop"
    BY <1>1, <1>2, <2>1, <2>3 DEF IInv, KindInv, Services
  <2>4. QED
    BY <2>2, <2>3
<1>5. ASSUME Busy PROVE handlers[Len(started)] \in {"Plain"} \cup Services
  <2>1. index = Top.handler /\ Len(started) = index + 1 /\ Top.at # "loop"
    BY <1>5 DEF IInv, IndexInv, Busy
  <2>2. Len(stack) \in 2 .. Len(stack)
    BY <1>2, <2>1 DEF IInv, StackInv
  <2>3. QED
    BY <1>1, <1>2, <2>1, <2>2 DEF IInv, KindInv
<1>6. QED
  BY <1>1, <1>2, <1>3, <1>4, <1>5 DEF Unwound

\* A Recovery sees the panic.
Recovered ==
  /\ Len(stack) > 1 /\ stack # <<>> /\ stack' = Front(stack)
  /\ index' = Len(handlers) + 1 /\ index' \in Nat
  /\ panicking' = FALSE /\ stopped' = TRUE /\ writes' = writes + 1
  /\ outcome = "running"

\* A Recovery that sees a panic ends the request.
LEMMA RecoverFacts ==
  ASSUME IInv, Recover
  PROVE  Recovered
<1>1. /\ stack # <<>> /\ Recovers /\ stack' = Front(stack)
      /\ index' = Len(handlers) + 1 /\ panicking' = FALSE /\ stopped' = TRUE /\ writes' = writes + 1
  BY DEF Recover, ReturnFrom, Aborted, Write
<1>2. Len(stack) \in Nat /\ Len(stack) > 0 /\ Top = stack[Len(stack)]
  BY <1>1, TopFacts DEF IInv
<1>3. Len(stack) > 1 /\ outcome = "running"
  BY <1>1, <1>2 DEF IInv, StackInv, Recovers
<1>4. index' \in Nat
  BY <1>1, HandlersFacts DEF IInv
<1>5. QED
  BY <1>1, <1>2, <1>3, <1>4 DEF Recovered

-----------------------------------------------------------------------------
(* Invariance *)

\* Every step keeps the types.
LEMMA TypeStep ==
  ASSUME IInv, [Next]_vars
  PROVE  TypeOK'
<1>0. TypeOK /\ index \in Nat /\ Aborted \in Nat /\ Len(started) \in Nat
  BY HandlersFacts DEF IInv, TypeOK, Aborted
<1>1. CASE LoopCalls
  <2>1. HandlerCalled
    BY <1>1, LoopCallsFacts
  <2>2. QED
    BY <1>0, <1>1, <2>1, ChainAssumption
      DEF HandlerCalled, LoopCalls, request, service, TypeOK, Frames
<1>2. CASE LoopEnds
  <2>1. LoopEnded
    BY <1>2, LoopEndsFacts
  <2>2. QED
    BY <1>0, <1>2, <2>1, ChainAssumption
      DEF LoopEnded, LoopEnds, request, service, TypeOK, Frames
<1>3. CASE RequestEnds
  <2>1. RequestEnded
    BY <1>3, RequestEndsFacts
  <2>2. QED
    BY <1>0, <1>3, <2>1, ChainAssumption
      DEF RequestEnded, RequestEnds, request, service, TypeOK, Frames
<1>4. CASE AfterNext
  <2>1. NextReturned /\ TopGone
    BY <1>4, AfterNextFacts, PoppedFacts DEF NextReturned
  <2>2. QED
    BY <1>0, <1>4, <2>1, ChainAssumption
      DEF NextReturned, TopGone, AfterNext, At, ReturnFrom, request, service, TypeOK, Frames
<1>5. ASSUME NEW point \in {"body", "remote"}, NEW i \in {index, Aborted}, Returns(point, i)
      PROVE  TypeOK'
  <2>1. HandlerRuns(point, {"Token", "Plain", "NotFound"} \cup Services) /\ TopGone
    BY <1>5, RunningFacts, PoppedFacts DEF Returns, ReturnFrom, HandlerRuns
  <2>2. stopped' \in BOOLEAN /\ writes' \in {writes, writes + 1}
    BY <1>5 DEF Returns
  <2>3. index' \in Nat
    BY <1>0, <1>5 DEF Returns, ReturnFrom
  <2>4. stack' \in Seq(Frames)
    BY <2>1 DEF TopGone
  <2>5. UNCHANGED <<handlers, options, token, claims, called, panicking, panicked, started, outcome>>
    BY <1>5 DEF Returns, request, service
  <2>6. QED
    BY <1>0, <2>2, <2>3, <2>4, <2>5 DEF TypeOK, Frames
<1>6. ASSUME NEW i \in {index, Aborted}, Enters(i) PROVE TypeOK'
  <2>1. HandlerRuns("body", {"Logger", "Recovery", "CrossDomain", "Token"}) /\ WentOn("loop")
    BY <1>6, RunningFacts, GoesOnFacts DEF Enters, CallNextFrom
  <2>2. stopped' \in BOOLEAN /\ claims' \in BOOLEAN /\ writes' \in {writes, writes + 1}
    BY <1>6 DEF Enters
  <2>3. index' \in Nat
    BY <1>0, <1>6 DEF Enters, CallNextFrom
  <2>4. stack' \in Seq(Frames)
    BY <2>1 DEF WentOn
  <2>5. UNCHANGED <<handlers, options, token, called, panicking, panicked, started, outcome>>
    BY <1>6 DEF Enters, request
  <2>6. QED
    BY <1>0, <2>2, <2>3, <2>4, <2>5 DEF TypeOK, Frames
<1>7. CASE At("body", Services) /\ CallRemote /\ (claims \/ handlers[index + 1] # "Profile")
  <2>1. HandlerRuns("body", Services) /\ WentOn("remote")
    BY <1>7, RunningFacts, GoesOnFacts DEF CallRemote
  <2>2. QED
    BY <1>0, <1>7, <2>1, ChainAssumption
      DEF HandlerRuns, WentOn, CallRemote, request, TypeOK, Frames
<1>8. CASE Panic
  <2>1. \E point \in {"body", "remote"} : HandlerRuns(point, {"Plain"} \cup Services)
    BY <1>8, RunningFacts DEF Panic, HandlerRuns
  <2>2. QED
    BY <1>0, <1>8, <2>1, ChainAssumption
      DEF HandlerRuns, Panic, request, service, TypeOK, Frames
<1>9. CASE Unwind
  <2>1. Unwound /\ TopGone
    BY <1>9, UnwindFacts, PoppedFacts DEF Unwound
  <2>2. QED
    BY <1>0, <1>9, <2>1, ChainAssumption
      DEF TopGone, Unwound, Unwind, request, service, TypeOK, Frames
<1>10. CASE Recover
  <2>1. Recovered /\ TopGone
    BY <1>10, RecoverFacts, PoppedFacts DEF Recovered
  <2>2. stopped' \in BOOLEAN /\ panicking' \in BOOLEAN
    BY <1>10, <2>1 DEF Recovered
  <2>3. writes' \in Nat /\ index' \in Nat
    BY <1>0, <2>1 DEF Recovered, TypeOK
  <2>4. stack' \in Seq(Frames)
    BY <2>1 DEF TopGone
  <2>5. UNCHANGED <<handlers, options, token, claims, called, panicked, started, outcome>>
    BY <1>10 DEF Recover, request, service
  <2>6. QED
    BY <1>0, <2>2, <2>3, <2>4, <2>5 DEF TypeOK, Frames
<1>11. CASE UNCHANGED vars
  BY <1>0, <1>11 DEF vars, TypeOK, Frames
<1>12. QED
  BY <1>1, <1>2, <1>3, <1>4, <1>5, <1>6, <1>7, <1>8, <1>9, <1>10, <1>11, StepCases

\* Handlers are called on top of the loops they return to.
LEMMA StackStep ==
  ASSUME IInv, [Next]_vars
  PROVE  StackInv'
<1>0. StackInv /\ index \in Nat /\ Aborted \in Nat /\ Len(started) \in Nat
  BY HandlersFacts DEF IInv, TypeOK, Aborted
<1>1. CASE LoopCalls
  <2>1. HandlerCalled
    BY <1>1, LoopCallsFacts
  <2>2. stack' # <<>> /\ outcome' = "running" /\ Len(stack') = Len(stack) + 1
    BY <1>1, <2>1 DEF HandlerCalled, LoopCalls
  <2>3. ASSUME NEW k \in 1 .. Len(stack')
        PROVE  /\ stack'[k].handler = None <=> k = 1
               /\ k > 1 => stack'[k].handler \in 0 .. Len(started') - 1
               /\ k = 1 \/ k < Len(stack') => stack'[k].at = "loop"
    <3>1. CASE k = Len(stack) + 1
      BY <2>1, <3>1, ChainAssumption DEF HandlerCalled
    <3>2. CASE k \in 1 .. Len(stack)
      <4>1. stack'[k] = stack[k] /\ Len(started') = Len(started) + 1
        BY <2>1, <3>2 DEF HandlerCalled
      <4>2. stack[k].at = "loop"
        BY <2>1, <3>2, <1>0 DEF HandlerCalled, StackInv
      <4>3. QED
        BY <1>0, <3>2, <4>1, <4>2, ChainAssumption DEF StackInv
    <3>3. QED
      BY <2>1, <2>2, <3>1, <3>2 DEF HandlerCalled
  <2>4. QED
    BY <2>2, <2>3 DEF StackInv
<1>2. CASE LoopEnds
  <2>1. LoopEnded
    BY <1>2, LoopEndsFacts
  <2>2. QED
    BY <1>0, <1>2, <2>1, ChainAssumption
      DEF LoopEnded, LoopEnds, request, service, StackInv
<1>3. CASE RequestEnds
  <2>1. RequestEnded
    BY <1>3, RequestEndsFacts
  <2>2. QED
    BY <1>0, <1>3, <2>1, ChainAssumption
      DEF RequestEnded, RequestEnds, request, service, StackInv
<1>4. CASE AfterNext
  <2>1. NextReturned /\ TopGone
    BY <1>4, AfterNextFacts, PoppedFacts DEF NextReturned
  <2>2. QED
    BY <1>0, <1>4, <2>1, ChainAssumption
      DEF NextReturned, TopGone, AfterNext, At, ReturnFrom, request, service, StackInv
<1>5. ASSUME NEW point \in {"body", "remote"}, NEW i \in {index, Aborted}, Returns(point, i)
      PROVE  StackInv'
  <2>1. HandlerRuns(point, {"Token", "Plain", "NotFound"} \cup Services) /\ TopGone
    BY <1>5, RunningFacts, PoppedFacts DEF Returns, ReturnFrom, HandlerRuns
  <2>2. QED
    BY <1>0, <1>5, <2>1, ChainAssumption
      DEF HandlerRuns, TopGone, Returns, ReturnFrom, request, service, StackInv
<1>6. ASSUME NEW i \in {index, Aborted}, Enters(i) PROVE StackInv'
  <2>1. HandlerRuns("body", {"Logger", "Recovery", "CrossDomain", "Token"}) /\ WentOn("loop")
    BY <1>6, RunningFacts, GoesOnFacts DEF Enters, CallNextFrom
  <2>2. QED
    BY <1>0, <1>6, <2>1, ChainAssumption
      DEF HandlerRuns, WentOn, Enters, CallNextFrom, request, service, StackInv
<1>7. CASE At("body", Services) /\ CallRemote /\ (claims \/ handlers[index + 1] # "Profile")
  <2>1. HandlerRuns("body", Services) /\ WentOn("remote")
    BY <1>7, RunningFacts, GoesOnFacts DEF CallRemote
  <2>2. QED
    BY <1>0, <1>7, <2>1, ChainAssumption
      DEF HandlerRuns, WentOn, CallRemote, request, StackInv
<1>8. CASE Panic
  <2>1. \E point \in {"body", "remote"} : HandlerRuns(point, {"Plain"} \cup Services)
    BY <1>8, RunningFacts DEF Panic, HandlerRuns
  <2>2. QED
    BY <1>0, <1>8, <2>1, ChainAssumption
      DEF HandlerRuns, Panic, request, service, StackInv
<1>9. CASE Unwind
  <2>1. Unwound /\ TopGone
    BY <1>9, UnwindFacts, PoppedFacts DEF Unwound
  <2>2. QED
    BY <1>0, <1>9, <2>1, ChainAssumption
      DEF TopGone, Unwound, Unwind, request, service, StackInv
<1>10. CASE Recover
  <2>1. Recovered /\ TopGone
    BY <1>10, RecoverFacts, PoppedFacts DEF Recovered
  <2>2. QED
    BY <1>0, <1>10, <2>1, ChainAssumption
      DEF Recovered, TopGone, Recover, request, service, StackInv
<1>11. CASE UNCHANGED vars
  BY <1>0, <1>11 DEF vars, StackInv
<1>12. QED
  BY <1>1, <1>2, <1>3, <1>4, <1>5, <1>6, <1>7, <1>8, <1>9, <1>10, <1>11, StepCases

\* The loops share the index and do not lose count.
LEMMA IndexStep ==
  ASSUME IInv, [Next]_vars
  PROVE  IndexInv'
<1>0. IndexInv /\ WriteInv /\ panicking \in BOOLEAN /\ index \in Nat /\ Aborted \in Nat /\ Len(started) \in Nat /\ Len(handlers) \in Nat
  BY HandlersFacts DEF IInv, TypeOK, Aborted
<1>1. CASE LoopCalls
  <2>1. HandlerCalled
    BY <1>1, LoopCallsFacts
  <2>2. QED
    BY <1>0, <1>1, <2>1, ChainAssumption
      DEF HandlerCalled, LoopCalls, request, service, IndexInv, Aborted
<1>2. CASE LoopEnds
  <2>1. LoopEnded
    BY <1>2, LoopEndsFacts
  <2>2. QED
    BY <1>0, <1>2, <2>1, ChainAssumption
      DEF LoopEnded, LoopEnds, request, service, IndexInv, Aborted
<1>3. CASE RequestEnds
  <2>1. RequestEnded
    BY <1>3, RequestEndsFacts
  <2>2. QED
    BY <1>0, <1>3, <2>1, ChainAssumption
      DEF RequestEnded, RequestEnds, request, service, IndexInv, Aborted
<1>4. CASE AfterNext
  <2>1. NextReturned /\ TopGone
    BY <1>4, AfterNextFacts, PoppedFacts DEF NextReturned
  <2>2. QED
    BY <1>0, <1>4, <2>1, ChainAssumption
      DEF NextReturned, TopGone, AfterNext, At, ReturnFrom, request, service, IndexInv, Aborted
<1>5. ASSUME NEW point \in {"body", "remote"}, NEW i \in {index, Aborted}, Returns(point, i)
      PROVE  IndexInv'
  <2>1. HandlerRuns(point, {"Token", "Plain", "NotFound"} \cup Services) /\ TopGone
    BY <1>5, RunningFacts, PoppedFacts DEF Returns, ReturnFrom, HandlerRuns
  <2>2. QED
    BY <1>0, <1>5, <2>1, ChainAssumption
      DEF HandlerRuns, TopGone, Returns, ReturnFrom, request, service, IndexInv, Aborted
<1>6. ASSUME NEW i \in {index, Aborted}, Enters(i) PROVE IndexInv'
  <2>1. HandlerRuns("body", {"Logger", "Recovery", "CrossDomain", "Token"}) /\ WentOn("loop")
    BY <1>6, RunningFacts, GoesOnFacts DEF Enters, CallNextFrom
  <2>2. QED
    BY <1>0, <1>6, <2>1, ChainAssumption
      DEF HandlerRuns, WentOn, Enters, CallNextFrom, request, service, IndexInv, Aborted
<1>7. CASE At("body", Services) /\ CallRemote /\ (claims \/ handlers[index + 1] # "Profile")
  <2>1. HandlerRuns("body", Services) /\ WentOn("remote")
    BY <1>7, RunningFacts, GoesOnFacts DEF CallRemote
  <2>2. QED
    BY <1>0, <1>7, <2>1, ChainAssumption
      DEF HandlerRuns, WentOn, CallRemote, request, IndexInv, Aborted
<1>8. CASE Panic
  <2>1. \E point \in {"body", "remote"} : HandlerRuns(point, {"Plain"} \cup Services)
    BY <1>8, RunningFacts DEF Panic, HandlerRuns
  <2>2. QED
    BY <1>0, <1>8, <2>1, ChainAssumption
      DEF HandlerRuns, Panic, request, service, IndexInv, Aborted, Busy, Top
<1>9. CASE Unwind
  <2>1. Unwound /\ TopGone
    BY <1>9, UnwindFacts, PoppedFacts DEF Unwound
  <2>2. QED
    BY <1>0, <1>9, <2>1, ChainAssumption
      DEF TopGone, Unwound, Unwind, request, service, IndexInv, Aborted
<1>10. CASE Recover
  <2>1. Recovered /\ TopGone
    BY <1>10, RecoverFacts, PoppedFacts DEF Recovered
  <2>2. QED
    BY <1>0, <1>10, <2>1, ChainAssumption
      DEF Recovered, TopGone, Recover, request, service, IndexInv, Aborted
<1>11. CASE UNCHANGED vars
  BY <1>0, <1>11 DEF vars, IndexInv, Aborted, Busy, Top
<1>12. QED
  BY <1>1, <1>2, <1>3, <1>4, <1>5, <1>6, <1>7, <1>8, <1>9, <1>10, <1>11, StepCases

\* Only middlewares are in the middle of Next.
LEMMA KindStep ==
  ASSUME IInv, [Next]_vars
  PROVE  KindInv'
<1>0. KindInv /\ StackInv /\ index \in Nat /\ Aborted \in Nat /\ Len(started) \in Nat /\ Len(handlers) \in Nat
  BY HandlersFacts DEF IInv, TypeOK, Aborted
<1>1. CASE LoopCalls
  <2>1. HandlerCalled
    BY <1>1, LoopCallsFacts
  <2>2. QED
    BY <1>0, <1>1, <2>1, ChainAssumption
      DEF HandlerCalled, LoopCalls, request, service, KindInv, StackInv
<1>2. CASE LoopEnds
  <2>1. LoopEnded
    BY <1>2, LoopEndsFacts
  <2>2. QED
    BY <1>0, <1>2, <2>1, ChainAssumption
      DEF LoopEnded, LoopEnds, request, service, KindInv, StackInv
<1>3. CASE RequestEnds
  <2>1. RequestEnded
    BY <1>3, RequestEndsFacts
  <2>2. QED
    BY <1>0, <1>3, <2>1, ChainAssumption
      DEF RequestEnded, RequestEnds, request, service, KindInv, StackInv
<1>4. CASE AfterNext
  <2>1. NextReturned /\ TopGone
    BY <1>4, AfterNextFacts, PoppedFacts DEF NextReturned
  <2>2. UNCHANGED <<handlers, panicking>>
    BY <1>4 DEF AfterNext, request
  <2>3. \A k \in 2 .. Len(stack') : k \in 2 .. Len(stack) /\ stack'[k] = stack[k]
    BY <2>1 DEF NextReturned, TopGone
  <2>4. QED
    BY <1>0, <2>2, <2>3 DEF KindInv
<1>5. ASSUME NEW point \in {"body", "remote"}, NEW i \in {index, Aborted}, Returns(point, i)
      PROVE  KindInv'
  <2>1. HandlerRuns(point, {"Token", "Plain", "NotFound"} \cup Services) /\ TopGone
    BY <1>5, RunningFacts, PoppedFacts DEF Returns, ReturnFrom, HandlerRuns
  <2>2. UNCHANGED <<handlers, panicking>>
    BY <1>5 DEF Returns, request
  <2>3. \A k \in 2 .. Len(stack') : k \in 2 .. Len(stack) /\ stack'[k] = stack[k]
    BY <2>1 DEF TopGone
  <2>4. QED
    BY <1>0, <2>2, <2>3 DEF KindInv
<1>6. ASSUME NEW i \in {index, Aborted}, Enters(i) PROVE KindInv'
  <2>1. HandlerRuns("body", {"Logger", "Recovery", "CrossDomain", "Token"}) /\ WentOn("loop")
    BY <1>6, RunningFacts, GoesOnFacts DEF Enters, CallNextFrom
  <2>2. UNCHANGED <<handlers, panicking>> /\ ~panicking
    BY <1>6, <2>1 DEF Enters, request, HandlerRuns
  <2>3. \A k \in 2 .. Len(stack') :
          \/ k \in 2 .. Len(stack) /\ stack'[k] = stack[k]
          \/ /\ handlers[stack'[k].handler + 1] \in {"Logger", "Recovery", "CrossDomain", "Token"}
             /\ stack'[k].at = "loop"
    BY <2>1 DEF HandlerRuns, WentOn
  <2>4. QED
    BY <1>0, <2>2, <2>3 DEF KindInv
<1>7. CASE At("body", Services) /\ CallRemote /\ (claims \/ handlers[index + 1] # "Profile")
  <2>1. HandlerRuns("body", Services) /\ WentOn("remote")
    BY <1>7, RunningFacts, GoesOnFacts DEF CallRemote
  <2>2. UNCHANGED <<handlers, panicking>>
    BY <1>7 DEF CallRemote, request
  <2>3. \A k \in 2 .. Len(stack') :
          \/ k \in 2 .. Len(stack) /\ stack'[k] = stack[k]
          \/ /\ handlers[stack'[k].handler + 1] \in Services
             /\ stack'[k].at = "remote"
             /\ ~panicking
    BY <2>1 DEF HandlerRuns, WentOn
  <2>4. QED
    BY <1>0, <2>2, <2>3 DEF KindInv
<1>8. CASE Panic
  <2>1. \E point \in {"body", "remote"} : HandlerRuns(point, {"Plain"} \cup Services)
    BY <1>8, RunningFacts DEF Panic, HandlerRuns
  <2>2. QED
    BY <1>0, <1>8, <2>1, ChainAssumption
      DEF HandlerRuns, Panic, request, service, KindInv, StackInv
<1>9. CASE Unwind
  <2>1. Unwound /\ TopGone
    BY <1>9, UnwindFacts, PoppedFacts DEF Unwound
  <2>2. UNCHANGED <<handlers, panicking>>
    BY <1>9 DEF Unwind, request
  <2>3. \A k \in 2 .. Len(stack') : k \in 2 .. Len(stack) /\ stack'[k] = stack[k]
    BY <2>1 DEF TopGone
  <2>4. QED
    BY <1>0, <2>2, <2>3 DEF KindInv
<1>10. CASE Recover
  <2>1. Recovered /\ TopGone
    BY <1>10, RecoverFacts, PoppedFacts DEF Recovered
  <2>2. UNCHANGED handlers /\ panicking' = FALSE
    BY <1>10 DEF Recover, request
  <2>3. \A k \in 2 .. Len(stack') : k \in 2 .. Len(stack) /\ stack'[k] = stack[k]
    BY <2>1 DEF TopGone
  <2>4. QED
    BY <1>0, <2>2, <2>3 DEF KindInv
<1>11. CASE UNCHANGED vars
  BY <1>0, <1>11 DEF vars, KindInv, StackInv
<1>12. QED
  BY <1>1, <1>2, <1>3, <1>4, <1>5, <1>6, <1>7, <1>8, <1>9, <1>10, <1>11, StepCases

\* Nothing runs behind a middleware that has not let the request pass.
LEMMA GuardStep ==
  ASSUME IInv, [Next]_vars
  PROVE  GuardInv'
<1>0. GuardInv /\ index \in Nat /\ Aborted \in Nat /\ Len(started) \in Nat /\ Len(handlers) \in Nat
  BY HandlersFacts DEF IInv, TypeOK, Aborted
<1>1. CASE LoopCalls
  <2>1. HandlerCalled
    BY <1>1, LoopCallsFacts
  <2>2. QED
    BY <1>0, <1>1, <2>1, ChainAssumption
      DEF HandlerCalled, LoopCalls, request, service, GuardInv, Passed
<1>2. CASE LoopEnds
  <2>1. LoopEnded
    BY <1>2, LoopEndsFacts
  <2>2. QED
    BY <1>0, <1>2, <2>1, ChainAssumption
      DEF LoopEnded, LoopEnds, request, service, GuardInv, Passed
<1>3. CASE RequestEnds
  <2>1. RequestEnded
    BY <1>3, RequestEndsFacts
  <2>2. QED
    BY <1>0, <1>3, <2>1, ChainAssumption
      DEF RequestEnded, RequestEnds, request, service, GuardInv, Passed
<1>4. CASE AfterNext
  <2>1. NextReturned /\ TopGone
    BY <1>4, AfterNextFacts, PoppedFacts DEF NextReturned
  <2>2. QED
    BY <1>0, <1>4, <2>1, ChainAssumption
      DEF NextReturned, TopGone, AfterNext, At, ReturnFrom, request, service, GuardInv, Passed
<1>5. ASSUME NEW point \in {"body", "remote"}, NEW i \in {index, Aborted}, Returns(point, i)
      PROVE  GuardInv'
  <2>1. HandlerRuns(point, {"Token", "Plain", "NotFound"} \cup Services) /\ TopGone
    BY <1>5, RunningFacts, PoppedFacts DEF Returns, ReturnFrom, HandlerRuns
  <2>2. UNCHANGED <<handlers, options, token, started, claims, called>>
    BY <1>5 DEF Returns, request, service
  <2>3. stopped' \/ Passed(Len(started))
    BY <1>5, <2>1 DEF Returns, HandlerRuns, Passed, Services
  <2>4. ASSUME NEW j \in 1 .. Len(started), j < Len(started) \/ ~stopped' PROVE Passed(j)
    BY <1>0, <2>3, <2>4 DEF GuardInv
  <2>5. QED
    BY <1>0, <2>2, <2>4 DEF GuardInv, Passed
<1>6. ASSUME NEW i \in {index, Aborted}, Enters(i) PROVE GuardInv'
  <2>1. HandlerRuns("body", {"Logger", "Recovery", "CrossDomain", "Token"}) /\ WentOn("loop")
    BY <1>6, RunningFacts, GoesOnFacts DEF Enters, CallNextFrom
  <2>2. QED
    BY <1>0, <1>6, <2>1, ChainAssumption
      DEF HandlerRuns, WentOn, Enters, CallNextFrom, request, service, GuardInv, Passed
<1>7. CASE At("body", Services) /\ CallRemote /\ (claims \/ handlers[index + 1] # "Profile")
  <2>1. HandlerRuns("body", Services) /\ WentOn("remote")
    BY <1>7, RunningFacts, GoesOnFacts DEF CallRemote
  <2>2. UNCHANGED <<handlers, options, token, started, claims, stopped>> /\ called' = TRUE
    BY <1>7 DEF CallRemote, request
  <2>3. Len(started) = Len(handlers) /\ handlers[Len(started)] = handlers[index + 1]
    BY <2>1, HandlersFacts DEF HandlerRuns, IInv
  <2>4. Busy /\ Busy'
    BY <2>1 DEF HandlerRuns, WentOn
  <2>5. handlers[Len(handlers)] = "Profile" => token = "good"
    BY <1>0, <1>7, <2>3 DEF GuardInv
  <2>6. \A j \in 1 .. Len(started) : j < Len(started) => Passed(j)
    BY <1>0 DEF GuardInv
  <2>7. QED
    BY <1>0, <2>2, <2>3, <2>4, <2>5, <2>6 DEF GuardInv, Passed
<1>8. CASE Panic
  <2>1. \E point \in {"body", "remote"} : HandlerRuns(point, {"Plain"} \cup Services)
    BY <1>8, RunningFacts DEF Panic, HandlerRuns
  <2>2. QED
    BY <1>0, <1>8, <2>1, ChainAssumption
      DEF HandlerRuns, Panic, request, service, GuardInv, Passed, Busy, Top
<1>9. CASE Unwind
  <2>1. Unwound /\ TopGone
    BY <1>9, UnwindFacts, PoppedFacts DEF Unwound
  <2>2. UNCHANGED <<handlers, options, token, started, claims, called, stopped>>
    BY <1>9 DEF Unwind, request, service
  <2>3. ASSUME NEW j \in 1 .. Len(started) PROVE Passed(j)
    <3>1. CASE Busy /\ j = Len(started)
      BY <2>1, <3>1 DEF Unwound, Passed, Services
    <3>2. CASE ~Busy \/ j < Len(started)
      BY <1>0, <2>1, <3>2 DEF Unwound, GuardInv
    <3>3. QED
      BY <1>0, <3>1, <3>2
  <2>4. QED
    BY <1>0, <2>2, <2>3 DEF GuardInv, Passed
<1>10. CASE Recover
  <2>1. Recovered /\ TopGone
    BY <1>10, RecoverFacts, PoppedFacts DEF Recovered
  <2>2. QED
    BY <1>0, <1>10, <2>1, ChainAssumption
      DEF Recovered, TopGone, Recover, request, service, GuardInv, Passed
<1>11. CASE UNCHANGED vars
  BY <1>0, <1>11 DEF vars, GuardInv, Passed, Busy, Top
<1>12. QED
  BY <1>1, <1>2, <1>3, <1>4, <1>5, <1>6, <1>7, <1>8, <1>9, <1>10, <1>11, StepCases

\* A Recovery is not left before the handlers behind it.
LEMMA RecoveryStep ==
  ASSUME IInv, [Next]_vars
  PROVE  RecoveryInv'
<1>0. RecoveryInv /\ index \in Nat /\ Aborted \in Nat /\ Len(started) \in Nat /\ Len(handlers) \in Nat
  BY HandlersFacts DEF IInv, TypeOK, Aborted
<1>1. CASE LoopCalls
  <2>1. HandlerCalled
    BY <1>1, LoopCallsFacts
  <2>2. UNCHANGED <<handlers, panicking, outcome>>
    BY <1>1 DEF LoopCalls, request
  <2>3. ASSUME NEW r \in 1 .. Len(started'), handlers[r] = "Recovery"
        PROVE  \E k \in 2 .. Len(stack') : stack'[k].handler = r - 1
    <3>1. CASE r = index + 1
      BY <2>1, <3>1 DEF HandlerCalled
    <3>2. CASE r \in 1 .. Len(started)
      <4>1. PICK k \in 2 .. Len(stack) : stack[k].handler = r - 1
        BY <1>0, <2>1, <2>3, <3>2 DEF HandlerCalled, RecoveryInv
      <4>2. k \in 2 .. Len(stack') /\ stack'[k] = stack[k]
        BY <2>1 DEF HandlerCalled
      <4>3. QED
        BY <4>1, <4>2
    <3>3. QED
      BY <2>1, <3>1, <3>2 DEF HandlerCalled
  <2>4. ~panicking /\ outcome = "running"
    BY <2>1 DEF HandlerCalled
  <2>5. QED
    BY <2>2, <2>3, <2>4 DEF RecoveryInv
<1>2. CASE LoopEnds
  <2>1. LoopEnded
    BY <1>2, LoopEndsFacts
  <2>2. UNCHANGED <<handlers, panicking, started, stopped, outcome>>
    BY <1>2 DEF LoopEnds, request
  <2>3. /\ Len(stack) \in Nat /\ Len(stack') = Len(stack) /\ ~Busy /\ ~Busy'
        /\ \A k \in 2 .. Len(stack) : stack'[k].handler = stack[k].handler
    BY <2>1 DEF LoopEnded
  <2>4. QED
    BY <1>0, <2>2, <2>3 DEF RecoveryInv
<1>3. CASE RequestEnds
  <2>1. RequestEnded
    BY <1>3, RequestEndsFacts
  <2>2. QED
    BY <1>0, <1>3, <2>1, ChainAssumption
      DEF RequestEnded, RequestEnds, request, service, RecoveryInv
<1>4. CASE AfterNext
  <2>1. NextReturned /\ TopGone
    BY <1>4, AfterNextFacts, PoppedFacts DEF NextReturned
  <2>2. UNCHANGED <<handlers, panicking, started, stopped, outcome>>
    BY <1>4 DEF AfterNext, request
  <2>3. ~panicking /\ outcome = "running" /\ ~Busy'
    BY <2>1 DEF NextReturned, TopGone
  <2>4. stopped \/ ~(Len(started) < Len(handlers))
    BY <1>0, <2>1 DEF NextReturned, IInv, IndexInv
  <2>5. QED
    BY <2>2, <2>3, <2>4 DEF RecoveryInv
<1>5. ASSUME NEW point \in {"body", "remote"}, NEW i \in {index, Aborted}, Returns(point, i)
      PROVE  RecoveryInv'
  <2>1. HandlerRuns(point, {"Token", "Plain", "NotFound"} \cup Services) /\ TopGone
    BY <1>5, RunningFacts, PoppedFacts DEF Returns, ReturnFrom, HandlerRuns
  <2>2. UNCHANGED <<handlers, panicking, started, outcome>>
    BY <1>5 DEF Returns, request
  <2>3. ~panicking /\ outcome = "running" /\ ~Busy' /\ Busy
    BY <2>1 DEF HandlerRuns, TopGone
  <2>4. stack[Len(stack)].handler = index /\ handlers[index + 1] # "Recovery"
    BY <2>1 DEF HandlerRuns, Services
  <2>5. ASSUME NEW r \in 1 .. Len(started), handlers[r] = "Recovery"
        PROVE  \E k \in 2 .. Len(stack') : stack'[k].handler = r - 1
    <3>1. PICK k \in 2 .. Len(stack) : stack[k].handler = r - 1
      BY <1>0, <2>3, <2>5 DEF RecoveryInv
    <3>2. k # Len(stack)
      BY <1>0, <2>4, <2>5, <3>1
    <3>3. k \in 2 .. Len(stack') /\ stack'[k] = stack[k]
      BY <2>1, <3>2 DEF TopGone
    <3>4. QED
      BY <3>1, <3>3
  <2>6. QED
    BY <2>2, <2>3, <2>5 DEF RecoveryInv
<1>6. ASSUME NEW i \in {index, Aborted}, Enters(i) PROVE RecoveryInv'
  <2>1. HandlerRuns("body", {"Logger", "Recovery", "CrossDomain", "Token"}) /\ WentOn("loop")
    BY <1>6, RunningFacts, GoesOnFacts DEF Enters, CallNextFrom
  <2>2. UNCHANGED <<handlers, panicking, started, outcome>>
    BY <1>6 DEF Enters, request
  <2>3. ~panicking /\ outcome = "running" /\ Busy
    BY <2>1 DEF HandlerRuns
  <2>4. ASSUME NEW r \in 1 .. Len(started), handlers[r] = "Recovery"
        PROVE  \E k \in 2 .. Len(stack') : stack'[k].handler = r - 1
    <3>1. PICK k \in 2 .. Len(stack) : stack[k].handler = r - 1
      BY <1>0, <2>3, <2>4 DEF RecoveryInv
    <3>2. k \in 2 .. Len(stack') /\ stack'[k].handler = stack[k].handler
      BY <2>1 DEF WentOn
    <3>3. QED
      BY <3>1, <3>2
  <2>5. QED
    BY <2>2, <2>3, <2>4 DEF RecoveryInv
<1>7. CASE At("body", Services) /\ CallRemote /\ (claims \/ handlers[index + 1] # "Profile")
  <2>1. HandlerRuns("body", Services) /\ WentOn("remote")
    BY <1>7, RunningFacts, GoesOnFacts DEF CallRemote
  <2>2. QED
    BY <1>0, <1>7, <2>1, ChainAssumption
      DEF HandlerRuns, WentOn, CallRemote, request, RecoveryInv
<1>8. CASE Panic
  <2>1. \E point \in {"body", "remote"} : HandlerRuns(point, {"Plain"} \cup Services)
    BY <1>8, RunningFacts DEF Panic, HandlerRuns
  <2>2. QED
    BY <1>0, <1>8, <2>1, ChainAssumption
      DEF HandlerRuns, Panic, request, service, RecoveryInv, Busy, Top
<1>9. CASE Unwind
  <2>1. Unwound /\ TopGone
    BY <1>9, UnwindFacts, PoppedFacts DEF Unwound
  <2>2. UNCHANGED <<handlers, panicking, started>>
    BY <1>9 DEF Unwind, request
  <2>3. panicking /\ outcome' # "done" /\ ~Busy'
    BY <2>1 DEF Unwound, TopGone
  <2>4. ASSUME NEW r \in 1 .. Len(started), handlers[r] = "Recovery"
        PROVE  \E k \in 2 .. Len(stack') : stack'[k].handler = r - 1
    <3>1. PICK k \in 2 .. Len(stack) : stack[k].handler = r - 1
      BY <1>0, <2>3, <2>4 DEF RecoveryInv
    <3>2. k # Len(stack)
      BY <1>0, <2>1, <2>4, <3>1 DEF Unwound
    <3>3. k \in 2 .. Len(stack') /\ stack'[k] = stack[k]
      BY <2>1, <3>2 DEF TopGone
    <3>4. QED
      BY <3>1, <3>3
  <2>5. QED
    BY <1>0, <2>2, <2>3, <2>4 DEF RecoveryInv
<1>10. CASE Recover
  <2>1. Recovered /\ TopGone
    BY <1>10, RecoverFacts, PoppedFacts DEF Recovered
  <2>2. QED
    BY <1>0, <1>10, <2>1, ChainAssumption
      DEF Recovered, TopGone, Recover, request, service, RecoveryInv
<1>11. CASE UNCHANGED vars
  BY <1>0, <1>11 DEF vars, RecoveryInv, Busy, Top
<1>12. QED
  BY <1>1, <1>2, <1>3, <1>4, <1>5, <1>6, <1>7, <1>8, <1>9, <1>10, <1>11, StepCases

\* Answers are counted.
LEMMA WriteStep ==
  ASSUME IInv, [Next]_vars
  PROVE  WriteInv'
<1>0. WriteInv /\ index \in Nat /\ Aborted \in Nat /\ Len(started) \in Nat /\ Len(handlers) \in Nat
  BY HandlersFacts DEF IInv, TypeOK, Aborted
<1>1. CASE LoopCalls
  <2>1. HandlerCalled
    BY <1>1, LoopCallsFacts
  <2>2. QED
    BY <1>0, <1>1, <2>1, ChainAssumption
      DEF HandlerCalled, LoopCalls, request, service, WriteInv
<1>2. CASE LoopEnds
  <2>1. LoopEnded
    BY <1>2, LoopEndsFacts
  <2>2. QED
    BY <1>0, <1>2, <2>1, ChainAssumption
      DEF LoopEnded, LoopEnds, request, service, WriteInv
<1>3. CASE RequestEnds
  <2>1. RequestEnded
    BY <1>3, RequestEndsFacts
  <2>2. UNCHANGED <<handlers, panicking, panicked, started, stopped, writes>>
    BY <1>3 DEF RequestEnds, request
  <2>3. stopped \/ Len(started) = Len(handlers)
    BY <1>0, <2>1 DEF RequestEnded, IInv, IndexInv
  <2>4. ~Busy /\ ~Busy'
    BY <2>1 DEF RequestEnded
  <2>5. QED
    BY <1>0, <2>2, <2>3, <2>4 DEF WriteInv
<1>4. CASE AfterNext
  <2>1. NextReturned /\ TopGone
    BY <1>4, AfterNextFacts, PoppedFacts DEF NextReturned
  <2>2. QED
    BY <1>0, <1>4, <2>1, ChainAssumption
      DEF NextReturned, TopGone, AfterNext, At, ReturnFrom, request, service, WriteInv
<1>5. ASSUME NEW point \in {"body", "remote"}, NEW i \in {index, Aborted}, Returns(point, i)
      PROVE  WriteInv'
  <2>1. HandlerRuns(point, {"Token", "Plain", "NotFound"} \cup Services) /\ TopGone
    BY <1>5, RunningFacts, PoppedFacts DEF Returns, ReturnFrom, HandlerRuns
  <2>2. UNCHANGED <<handlers, panicking, panicked, started, outcome>>
    BY <1>5 DEF Returns, request
  <2>3. outcome = "running" /\ ~Busy' /\ ~panicking /\ writes = 0 /\ Len(started) = index + 1
    BY <2>1 DEF HandlerRuns, TopGone
  <2>4. CASE stopped' = TRUE
    BY <1>5, <2>2, <2>3, <2>4 DEF Returns, WriteInv
  <2>5. CASE stopped' = FALSE
    <3>1. handlers[index + 1] \in {"Plain", "NotFound"} \cup Services
      BY <1>0, <1>5, <2>1, <2>5 DEF Returns, HandlerRuns
    <3>2. Len(started) = Len(handlers) <=> handlers[index + 1] # "Plain"
      BY <2>1, <3>1, HandlersFacts DEF HandlerRuns, IInv, Services
    <3>3. writes' = IF handlers[index + 1] # "Plain" THEN 1 ELSE 0
      BY <1>5, <2>3, <2>5 DEF Returns
    <3>4. QED
      BY <2>2, <2>3, <2>5, <3>2, <3>3 DEF WriteInv
  <2>6. QED
    BY <1>5, <2>4, <2>5 DEF Returns
<1>6. ASSUME NEW i \in {index, Aborted}, Enters(i) PROVE WriteInv'
  <2>1. HandlerRuns("body", {"Logger", "Recovery", "CrossDomain", "Token"}) /\ WentOn("loop")
    BY <1>6, RunningFacts, GoesOnFacts DEF Enters, CallNextFrom
  <2>2. UNCHANGED <<handlers, panicking, panicked, started, outcome>>
    BY <1>6 DEF Enters, request
  <2>3. outcome = "running" /\ ~panicking /\ writes = 0 /\ Len(started) = index + 1
    BY <2>1 DEF HandlerRuns
  <2>4. Len(started) # Len(handlers)
    BY <2>1, HandlersFacts DEF HandlerRuns, IInv, Services
  <2>5. (stopped' = TRUE /\ writes' = 1) \/ (stopped' = FALSE /\ writes' = 0)
    BY <1>6, <2>3 DEF Enters
  <2>6. QED
    BY <2>2, <2>3, <2>4, <2>5 DEF WriteInv
<1>7. CASE At("body", Services) /\ CallRemote /\ (claims \/ handlers[index + 1] # "Profile")
  <2>1. HandlerRuns("body", Services) /\ WentOn("remote")
    BY <1>7, RunningFacts, GoesOnFacts DEF CallRemote
  <2>2. QED
    BY <1>0, <1>7, <2>1, ChainAssumption
      DEF HandlerRuns, WentOn, CallRemote, request, WriteInv
<1>8. CASE Panic
  <2>1. \E point \in {"body", "remote"} : HandlerRuns(point, {"Plain"} \cup Services)
    BY <1>8, RunningFacts DEF Panic, HandlerRuns
  <2>2. QED
    BY <1>0, <1>8, <2>1, ChainAssumption
      DEF HandlerRuns, Panic, request, service, WriteInv, Busy, Top
<1>9. CASE Unwind
  <2>1. Unwound /\ TopGone
    BY <1>9, UnwindFacts, PoppedFacts DEF Unwound
  <2>2. QED
    BY <1>0, <1>9, <2>1, ChainAssumption
      DEF TopGone, Unwound, Unwind, request, service, WriteInv
<1>10. CASE Recover
  <2>1. Recovered /\ TopGone
    BY <1>10, RecoverFacts, PoppedFacts DEF Recovered
  <2>2. outcome' = "running" /\ stopped' = TRUE /\ writes' >= 1
    BY <2>1, <1>10 DEF Recovered, Recover, IInv, TypeOK
  <2>3. panicked' /\ panicking' = FALSE /\ writes' <= 2
    BY <1>0, <2>1, <1>10 DEF Recovered, Recover, IInv, TypeOK, WriteInv
  <2>4. QED
    BY <2>2, <2>3 DEF WriteInv
<1>11. CASE UNCHANGED vars
  BY <1>0, <1>11 DEF vars, WriteInv, Busy, Top
<1>12. QED
  BY <1>1, <1>2, <1>3, <1>4, <1>5, <1>6, <1>7, <1>8, <1>9, <1>10, <1>11, StepCases

\* The loop of router.handle begins.
LEMMA IInvInit == Init => IInv
<1> SUFFICES ASSUME Init PROVE IInv
  OBVIOUS
<1> USE DEF Init
<1>1. handlers \in Seq(Kinds) /\ Len(handlers) \in Nat /\ Len(handlers) > 0
  BY HandlersFacts DEF ChainsInv
<1>2. PICK frame \in Frames : /\ frame.handler = None /\ frame.at = "loop"
                              /\ stack = <<frame>>
  BY DEF Frames, Positions
<1>3. /\ stack \in Seq(Frames) /\ Len(stack) = 1 /\ stack # <<>> /\ Top = frame
      /\ stack[1] = frame
  BY <1>2 DEF Top, Last
<1>4. ~Busy
  BY <1>2, <1>3 DEF Busy
<1>5. TypeOK
  <2>1. started \in Seq(Nat) /\ index \in Nat /\ writes \in Nat
    OBVIOUS
  <2>2. claims \in BOOLEAN /\ panicking \in BOOLEAN /\ panicked \in BOOLEAN
        /\ stopped \in BOOLEAN /\ called \in BOOLEAN
    OBVIOUS
  <2>3. outcome \in {"running", "done", "crashed"}
    OBVIOUS
  <2>4. QED
    BY <1>1, <1>3, <2>1, <2>2, <2>3 DEF TypeOK, Frames
<1>6. StackInv
  BY <1>2, <1>3 DEF StackInv
<1>7. IndexInv
  BY <1>1, <1>2, <1>3, <1>4 DEF IndexInv
<1>8. KindInv
  BY <1>3 DEF KindInv
<1>9. GuardInv /\ RecoveryInv /\ WriteInv
  BY <1>1 DEF GuardInv, RecoveryInv, WriteInv
<1>10. QED
  BY <1>5, <1>6, <1>7, <1>8, <1>9 DEF IInv, ChainsInv

-----------------------------------------------------------------------------
(* Theorems *)

\* The loops of Next, the handlers they have called and c.index fit together.
THEOREM Invariance == Spec => []IInv
<1>1. ASSUME IInv, [Next]_vars PROVE ChainsInv'
  <2>1. UNCHANGED handlers
    BY <1>1, StepCases DEF LoopCalls, LoopEnds, RequestEnds, AfterNext, Returns,
      Enters, CallRemote, Panic, Unwind, Recover, request, vars
  <2>2. QED
    BY <1>1, <2>1 DEF IInv, ChainsInv
<1>2. IInv /\ [Next]_vars => IInv'
  BY <1>1, TypeStep, StackStep, IndexStep, KindStep, GuardStep, RecoveryStep, WriteStep
    DEF IInv
<1>3. QED
  BY <1>2, IInvInit, PTL DEF Spec

\* The state of a request keeps its types.
THEOREM TypeCorrect == Spec => []TypeOK
<1>1. IInv => TypeOK
  BY DEF IInv
<1>2. QED
  BY <1>1, Invariance, PTL

\* However deep the calls of Next are nested, the handlers are called in their
\* order and once each, and all of them unless the request was stopped.
THEOREM CalledInOrder == Spec => []InOrder
<1>1. IInv => InOrder
  BY DEF IInv, IndexInv, WriteInv, InOrder
<1>2. QED
  BY <1>1, Invariance, PTL

\* After Abort or Fail no handler is called any more, in no loop.
THEOREM NothingAfterStop == Spec => StoppedIsFinal
<1>1. ASSUME IInv, [Next]_vars, stopped PROVE started' = started
  <2>1. ~LoopCalls
    BY <1>1, LoopCallsFacts DEF HandlerCalled
  <2>2. QED
    BY <1>1, <2>1, StepCases DEF LoopEnds, RequestEnds, AfterNext, Returns,
      Enters, CallRemote, Panic, Unwind, Recover, vars
<1>2. IInv /\ [Next]_vars => [stopped => started' = started]_vars
  BY <1>1
<1>3. QED
  BY <1>2, Invariance, PTL DEF Spec, StoppedIsFinal

\* A service runs only if every middleware before it has let the request pass,
\* wherever they stand, and an account is worked on with a good token only.
THEOREM ServicesGuarded == Spec => []ServiceIsGuarded
<1>1. ASSUME IInv PROVE ServiceIsGuarded
  <2>1. ASSUME NEW i \in 1 .. Len(started), NEW j \in 1 .. started[i] PROVE Passed(j)
    <3>1. j \in 1 .. Len(started) /\ j < Len(started)
      BY <1>1, <2>1 DEF IInv, IndexInv, TypeOK
    <3>2. QED
      BY <1>1, <3>1 DEF IInv, GuardInv
  <2>2. called /\ Last(handlers) = "Profile" => token = "good"
    BY <1>1 DEF IInv, GuardInv, Last
  <2>3. QED
    BY <2>1, <2>2 DEF ServiceIsGuarded, Passed
<1>2. QED
  BY <1>1, Invariance, PTL

\* No panic gets past a Recovery, through however many loops.
THEOREM PanicsContained == Spec => []PanicIsContained
<1>1. ASSUME IInv, outcome = "crashed", NEW i \in 1 .. Last(started)
      PROVE  handlers[i] # "Recovery"
  <2>1. started # <<>> /\ panicking /\ stack = <<>>
    BY <1>1 DEF IInv, RecoveryInv, StackInv
  <2>2. /\ Len(started) \in Nat \ {0} /\ Last(started) = started[Len(started)]
    BY <1>1, <2>1, FrontFacts DEF IInv, TypeOK
  <2>3. Last(started) = Len(started) - 1
    BY <1>1, <2>2 DEF IInv, IndexInv
  <2>4. i \in 1 .. Len(started)
    BY <2>2, <2>3
  <2>5. 2 .. Len(stack) = {}
    BY <2>1
  <2>6. QED
    BY <1>1, <2>1, <2>4, <2>5 DEF IInv, RecoveryInv
<1>2. IInv => PanicIsContained
  BY <1>1 DEF PanicIsContained
<1>3. QED
  BY <1>2, Invariance, PTL

\* Every request that ends has been answered, and once: a second answer needs a
\* handler that has panicked, and a third is never written.
THEOREM RequestsAnswered == Spec => []Answered
<1>1. ASSUME IInv PROVE Answered
  <2>1. ASSUME outcome = "done" PROVE writes >= 1
    <3>1. ~panicking \/ stopped
      BY <1>1, <2>1 DEF IInv, RecoveryInv
    <3>2. ~Busy
      BY <1>1, <2>1 DEF IInv, StackInv, Busy
    <3>3. QED
      BY <1>1, <2>1, <3>1, <3>2 DEF IInv, WriteInv
  <2>2. writes <= IF panicked THEN 2 ELSE 1
    BY <1>1 DEF IInv, WriteInv
  <2>3. QED
    BY <2>1, <2>2 DEF Answered
<1>2. QED
  BY <1>1, Invariance, PTL
=============================================================================
