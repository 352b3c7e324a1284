------------------------------- MODULE Chain -------------------------------
(***************************************************************************)
(* webProject/miniweb: how the handlers of one request are run, with the   *)
(* middlewares of miniweb and of mweb/main.go.                             *)
(*                                                                         *)
(* Engine.ServeHTTP collects the middlewares of the groups whose prefix    *)
(* the path has, router.handle adds the handler of the route (or one that  *)
(* answers 404) and calls Context.Next.  Next runs the handlers one after  *)
(* the other; a middleware may call it again in order to run the rest      *)
(* before it goes on itself.  All these nested loops share c.index.  A     *)
(* panic ends the handlers it passes through up to the one that recovers.  *)
(***************************************************************************)
EXTENDS Integers, Sequences, SequencesExt

CONSTANTS
  Chains,  \* the sequences of handlers a request may meet
  None     \* the frame of router.handle, which runs no handler

\* The handlers of mweb/handler, by what they ask for and whom they call.
Services == {"Open", "Profile", "Category", "Article"}

Kinds == {"Logger", "Recovery", "CrossDomain", "Token", "Plain", "NotFound"} \cup Services

ASSUME ChainAssumption ==
  /\ Chains \subseteq Seq(Kinds)
  /\ None \notin Nat

\* ServeHTTP collects middlewares, and router.handle adds one handler behind them:
\* that of the route or the one that answers 404.
ASSUME RouteAssumption ==
  \A chain \in Chains :
    /\ chain # <<>>
    /\ \A i \in 1 .. Len(chain) :
         chain[i] \in Services \cup {"NotFound"} <=> i = Len(chain)

VARIABLES
  handlers, \* c.handlers
  options,  \* the method is OPTIONS
  token,    \* "exempt" if the path needs none, else "missing", "bad" or "good"
  index,    \* c.index
  stack,    \* the handlers that run: which, and whether before, in or after Next, or
            \* in a remote call
  claims,   \* Token has set the claims of a token
  panicking,
  panicked, \* history: a handler has panicked
  started,  \* history: the handlers that were called, in order
  stopped,  \* history: Abort or Fail was called
  called,   \* history: the service made its remote call
  writes,   \* how often a response was written
  outcome   \* "running", "done", or "crashed": a panic has left the engine

vars ==
  <<handlers, options, token, index, stack, claims, panicking,
    panicked, started, stopped, called, writes, outcome>>

Positions == Nat \cup {None}

TypeOK ==
  /\ handlers \in Seq(Kinds)
  /\ options \in BOOLEAN
  /\ token \in {"exempt", "missing", "bad", "good"}
  /\ index \in Nat
  /\ stack \in Seq([handler : Positions, at : {"body", "loop", "after", "remote"}])
  /\ claims \in BOOLEAN
  /\ panicking \in BOOLEAN
  /\ panicked \in BOOLEAN
  /\ started \in Seq(Nat)
  /\ stopped \in BOOLEAN
  /\ called \in BOOLEAN
  /\ writes \in Nat
  /\ outcome \in {"running", "done", "crashed"}

request == <<handlers, options, token>>
service == <<claims, called>>

-----------------------------------------------------------------------------
(* Helpers *)

Top == Last(stack)

\* A handler of one of these kinds is at that point of its body.
At(point, kinds) ==
  /\ ~panicking
  /\ stack # <<>>
  /\ Top.at = point
  /\ Top.handler # None
  /\ handlers[Top.handler + 1] \in kinds

\* The handler goes on to its call of Next, or to what follows it.
Goto(point) == stack' = Append(Front(stack), [Top EXCEPT !.at = point])

\* The handler returns to the loop that called it, which advances c.index.
ReturnFrom(i) ==
  /\ stack' = Front(stack)
  /\ index' = i + 1

\* It calls Next, which advances c.index too.
CallNextFrom(i) ==
  /\ Goto("loop")
  /\ index' = i + 1

\* The value Abort and Fail give to c.index.
Aborted == Len(handlers)

Write == writes' = writes + 1

-----------------------------------------------------------------------------
(* Context.Next *)

\* Injected bug: the loop does not advance c.index when a handler returns.
LoopCallsAgain ==
  /\ ~panicking
  /\ stack # <<>>
  /\ Top.at = "loop"
  /\ index < Len(handlers)
  /\ stack' = Append(stack, [handler |-> index, at |-> "body"])
  /\ started' = Append(started, index)
  /\ index' = index - 1
  /\ UNCHANGED <<request, service, panicking, panicked, stopped, writes, outcome>>

LoopCalls ==
  /\ ~panicking
  /\ stack # <<>>
  /\ Top.at = "loop"
  /\ index < Len(handlers)
  /\ stack' = Append(stack, [handler |-> index, at |-> "body"])
  /\ started' = Append(started, index)
  /\ UNCHANGED <<request, service, index, panicking, panicked,
                 stopped, writes, outcome>>

\* The loop ends, and Next returns to the handler that called it ...
LoopEnds ==
  /\ ~panicking
  /\ stack # <<>>
  /\ Top.at = "loop"
  /\ index >= Len(handlers)
  /\ Top.handler # None
  /\ Goto("after")
  /\ UNCHANGED <<request, service, index, panicking, panicked,
                 started, stopped, writes, outcome>>

\* ... or to router.handle, and the request is done.
RequestEnds ==
  /\ ~panicking
  /\ stack # <<>>
  /\ Top.at = "loop"
  /\ index >= Len(handlers)
  /\ Top.handler = None
  /\ stack' = <<>>
  /\ outcome' = "done"
  /\ UNCHANGED <<request, service, index, panicking, panicked,
                 started, stopped, writes>>

-----------------------------------------------------------------------------
(* The handlers *)

\* Logger and Recovery first call Next.
RunWrapper ==
  /\ At("body", {"Logger", "Recovery"})
  /\ CallNextFrom(index)
  /\ UNCHANGED <<request, service, panicking, panicked,
                 started, stopped, writes, outcome>>

\* What follows the call of Next does not concern the request.
AfterNext ==
  /\ At("after", Kinds)
  /\ ReturnFrom(index)
  /\ UNCHANGED <<request, service, panicking, panicked,
                 started, stopped, writes, outcome>>

\* CrossDomain answers an OPTIONS request and aborts, but calls Next all the same.
CrossDomain ==
  /\ At("body", {"CrossDomain"})
  /\ IF options
       THEN CallNextFrom(Aborted) /\ stopped' = TRUE /\ Write
       ELSE CallNextFrom(index) /\ UNCHANGED <<stopped, writes>>
  /\ UNCHANGED <<request, service, panicking, panicked, started, outcome>>

\* Injected bug: Token answers and returns without Abort.
TokenDeniesOnly ==
  /\ At("body", {"Token"})
  /\ token \in {"missing", "bad"}
  /\ ReturnFrom(index)
  /\ Write
  /\ UNCHANGED <<request, service, panicking, panicked, started, stopped, outcome>>

\* Token answers 401 and aborts ...
TokenDenies ==
  /\ At("body", {"Token"})
  /\ token \in {"missing", "bad"}
  /\ ReturnFrom(Aborted)
  /\ stopped' = TRUE
  /\ Write
  /\ UNCHANGED <<request, service, panicking, panicked, started, outcome>>

\* JWT.ParseToken finds no fault.
ParseToken == token = "good"

\* Injected bug: the claims are set before the error is looked at, or the path.
TokenAdmitsAnyone ==
  /\ At("body", {"Token"})
  /\ token = "exempt" \/ ParseToken
  /\ claims' = TRUE
  /\ CallNextFrom(index)
  /\ UNCHANGED <<request, panicking, panicked,
                 started, stopped, called, writes, outcome>>

\* ... or calls Next, with the claims of the token if it had to look at one.
TokenAdmits ==
  /\ At("body", {"Token"})
  /\ token = "exempt" \/ ParseToken
  /\ claims' = (claims \/ token # "exempt")
  /\ CallNextFrom(index)
  /\ UNCHANGED <<request, panicking, panicked,
                 started, stopped, called, writes, outcome>>

\* A middleware that does its work and returns: the loop goes on.
RunPlain ==
  /\ At("body", {"Plain"})
  /\ ReturnFrom(index)
  /\ UNCHANGED <<request, service, panicking, panicked,
                 started, stopped, writes, outcome>>

\* No route fits: the answer is 404.
NotFound ==
  /\ At("body", {"NotFound"})
  /\ ReturnFrom(index)
  /\ Write
  /\ UNCHANGED <<request, service, panicking, panicked, started, stopped, outcome>>

-----------------------------------------------------------------------------
(* The services: each answers that the request is wrong, or makes one remote *)
(* call and answers with its result or its error.                            *)

Respond ==
  /\ ReturnFrom(index)
  /\ Write
  /\ UNCHANGED <<request, service, panicking, panicked, started, stopped, outcome>>

CallRemote ==
  /\ Goto("remote")
  /\ called' = TRUE
  /\ UNCHANGED <<request, index, claims, panicking, panicked,
                 started, stopped, writes, outcome>>

\* UserRegisterService and UserLoginService ask for no claims; the latter refuses
\* what does not agree with Redis, too.
OpenService == At("body", {"Open"}) /\ (Respond \/ CallRemote)

\* UserInfoService, UserInfoUpdateService and UserAvatarUpdateService work on the
\* account the claims name.
ProfileService ==
  /\ At("body", {"Profile"})
  /\ Respond \/ (claims /\ CallRemote)

\* ArticleCategoryListService has no input to refuse, those that add, update and
\* delete a category have.
CategoryService == At("body", {"Category"}) /\ (Respond \/ CallRemote)

\* ArticleListService and ArticleAddService.  What the latter sends before it calls
\* is the matter of module Articles.
ArticleService == At("body", {"Article"}) /\ (Respond \/ CallRemote)

\* XClient.Call returns, with an error or without, and the service answers.
ServiceAnswers ==
  /\ At("remote", Services)
  /\ Respond

\* A handler of the application panics before or after it has responded.
Panic ==
  /\ At("body", {"Plain"} \cup Services) \/ At("remote", Services)
  /\ panicking' = TRUE
  /\ panicked' = TRUE
  /\ writes' \in {writes, writes + 1}
  /\ UNCHANGED <<request, service, index, stack, started, stopped, outcome>>

-----------------------------------------------------------------------------
(* Panics *)

\* Injected bug: recover is called too deep in the deferred function to see the
\* panic.
RecoversNever == FALSE

\* The handler on top is a Recovery that has called Next.
Recovers == Top.handler # None /\ handlers[Top.handler + 1] = "Recovery" /\ Top.at = "loop"

\* The panic ends a handler that does not recover.
Unwind ==
  /\ panicking
  /\ stack # <<>>
  /\ ~Recovers
  /\ stack' = Front(stack)
  /\ outcome' = IF Len(stack) = 1 THEN "crashed" ELSE "running"
  /\ UNCHANGED <<request, service, index, panicking, panicked,
                 started, stopped, writes>>

\* Injected bug: Recovery answers without skipping the handlers that are left.
RecoverOnly ==
  /\ panicking
  /\ stack # <<>>
  /\ Recovers
  /\ panicking' = FALSE
  /\ stopped' = TRUE
  /\ ReturnFrom(index)
  /\ Write
  /\ UNCHANGED <<request, service, panicked, started, outcome>>

\* Recovery answers with Fail and returns.
Recover ==
  /\ panicking
  /\ stack # <<>>
  /\ Recovers
  /\ panicking' = FALSE
  /\ stopped' = TRUE
  /\ ReturnFrom(Aborted)
  /\ Write
  /\ UNCHANGED <<request, service, panicked, started, outcome>>

-----------------------------------------------------------------------------
\* router.handle has called Next.
Init ==
  /\ handlers \in Chains
  /\ options \in BOOLEAN
  /\ token \in {"exempt", "missing", "bad", "good"}
  /\ index = 0
  /\ stack = <<[handler |-> None, at |-> "loop"]>>
  /\ claims = FALSE
  /\ panicking = FALSE
  /\ panicked = FALSE
  /\ started = <<>>
  /\ stopped = FALSE
  /\ called = FALSE
  /\ writes = 0
  /\ outcome = "running"

NextLoop == LoopCalls \/ LoopEnds \/ RequestEnds

Handler ==
  \/ RunWrapper \/ AfterNext \/ CrossDomain \/ TokenDenies \/ TokenAdmits
  \/ RunPlain \/ NotFound

Service ==
  \/ OpenService \/ ProfileService \/ CategoryService \/ ArticleService
  \/ ServiceAnswers

Next == NextLoop \/ Handler \/ Service \/ Panic \/ Unwind \/ Recover

Spec == Init /\ [][Next]_vars

-----------------------------------------------------------------------------
(* Properties *)

\* The handlers are called in their order, each of them once, however the calls
\* of Next are nested; none is left out unless the request was stopped.
InOrder ==
  /\ \A i \in 1 .. Len(started) : started[i] = i - 1
  /\ outcome = "done" /\ ~stopped => Len(started) = Len(handlers)

\* Once a request was aborted, or has failed, no handler is called any more,
\* not even by a loop that is still running further out.
StoppedIsFinal == [][stopped => started' = started]_vars

\* A service is called only behind the middlewares that stand before it: with a
\* token or on a path that needs none, and not for OPTIONS.  One that works on an
\* account calls it with a good token only, wherever it stands.
ServiceIsGuarded ==
  /\ \A i \in 1 .. Len(started) :
       handlers[started[i] + 1] \in Services =>
         \A j \in 1 .. started[i] :
           /\ handlers[j] = "Token" => token \in {"exempt", "good"}
           /\ handlers[j] = "CrossDomain" => ~options
  /\ called /\ Last(handlers) = "Profile" => token = "good"

\* A panic of a handler does not get past a Recovery that stands before it.
PanicIsContained ==
  outcome = "crashed" =>
    \A i \in 1 .. Last(started) : handlers[i] # "Recovery"

\* Every request that ends has been answered, and it is answered once: a second
\* answer, that of Recovery, is written only after a handler has panicked that had
\* answered already, and there is never a third.
Answered ==
  /\ outcome = "done" => writes >= 1
  /\ writes <= IF panicked THEN 2 ELSE 1
=============================================================================
