------------------------------ MODULE Articles ------------------------------
(***************************************************************************)
(* How an article is added: ArticleAddService of mweb/handler/handle.go,   *)
(* ArticleAdd of articleCategory_srv/biz/biz.go and the consumer of        *)
(* articleCategory_srv/main.go.                                            *)
(*                                                                         *)
(* A title that will not pass the review is announced first: a message     *)
(* that RocketMQ delivers after a delay, whereupon the articles of that    *)
(* title are deleted.  The article itself is added by a remote call, in    *)
(* which a lock in Redis, taken with SetNX and left to expire, keeps other *)
(* goroutines and processes out between the query for the title and the    *)
(* insertion.                                                              *)
(*                                                                         *)
(* Time passes in Tick, whatever the requests do: the code bounds neither  *)
(* the calls of the database nor the remote call.  So the lock may expire  *)
(* under its holder, and the message may come before the article; the      *)
(* histories overtaken and missed hold exactly the requests this has       *)
(* happened to.                                                            *)
(***************************************************************************)
EXTENDS Naturals

CONSTANTS
  Requests, \* the HTTP requests to add an article
  Titles,
  TitleOf,  \* TitleOf[r] is the title request r asks for
  Banned,   \* the titles that do not pass
  LockTTL,  \* how long the lock lives
  Delay     \* how long a message is delayed

ASSUME ArticlesAssumption ==
  /\ TitleOf \in [Requests -> Titles]
  /\ Banned \subseteq Titles
  /\ LockTTL \in Nat \ {0}
  /\ Delay \in Nat

VARIABLES
  pc,      \* where a request is: "new", "send", "call", "query", "create" or "ended"
  lock,    \* the time ArticleAdd_lock has left to live; 0 if there is none
  held,    \* time since a request took the lock, up to LockTTL
  message, \* "none", "delayed", "consumed", or "failed": consumed in vain, on an error
  age,     \* time from sending the message to its consumption, up to Delay
  rows,    \* the requests whose article is in the database
  unsure,  \* history: the requests whose query for the title failed
  overtaken, \* history: the requests that had not inserted their article when another
             \* took the lock, their own having expired
  missed     \* history: the requests that inserted their article after the message for
             \* it had been consumed, the delay being over

vars == <<pc, lock, held, message, age, rows, unsure, overtaken, missed>>

TypeOK ==
  /\ pc \in [Requests -> {"new", "send", "call", "query", "create", "ended"}]
  /\ lock \in 0 .. LockTTL
  /\ held \in [Requests -> 0 .. LockTTL]
  /\ message \in [Requests -> {"none", "delayed", "consumed", "failed"}]
  /\ age \in [Requests -> 0 .. Delay]
  /\ rows \subseteq Requests
  /\ unsure \subseteq Requests
  /\ overtaken \subseteq Requests
  /\ missed \subseteq Requests

-----------------------------------------------------------------------------
(* Helpers *)

Goto(r, label) == pc' = [pc EXCEPT ![r] = label]

IsBanned(r) == TitleOf[r] \in Banned

\* The articles with the title request r asks for.
SameTitle(r) == {q \in rows : TitleOf[q] = TitleOf[r]}

\* The requests that have taken the lock and have yet to insert their article.
Adding == {r \in Requests : pc[r] \in {"query", "create"}}

Expired(r) == held[r] = LockTTL

-----------------------------------------------------------------------------
(* ArticleAddService *)

Submit(r) ==
  /\ pc[r] = "new"
  /\ Goto(r, IF IsBanned(r) THEN "send" ELSE "call")
  /\ UNCHANGED <<lock, held, message, age, rows, unsure, overtaken, missed>>

\* NewProducer fails and returns nil; p.Start panics, and no article is added.
ProducerFails(r) ==
  /\ pc[r] = "send"
  /\ Goto(r, "ended")
  /\ UNCHANGED <<lock, held, message, age, rows, unsure, overtaken, missed>>

\* p.SendSync: RocketMQ stores the message.
SendMessage(r) ==
  /\ pc[r] = "send"
  /\ message' = [message EXCEPT ![r] = "delayed"]
  /\ Goto(r, "call")
  /\ UNCHANGED <<lock, held, age, rows, unsure, overtaken, missed>>

\* p.Start or p.SendSync fails and nothing is stored; the article is added all the
\* same.
SendFails(r) ==
  /\ pc[r] = "send"
  /\ Goto(r, "call")
  /\ UNCHANGED <<lock, held, message, age, rows, unsure, overtaken, missed>>

\* The remote call fails before the method runs, or the process that runs it ends.
CallFails(r) ==
  /\ pc[r] \in {"call", "query", "create"}
  /\ Goto(r, "ended")
  /\ UNCHANGED <<lock, held, message, age, rows, unsure, overtaken, missed>>

-----------------------------------------------------------------------------
(* ArticleAdd *)

\* Injected bug: the lock lives for a shorter time than the method takes.
LockBriefly(r) ==
  /\ pc[r] = "call"
  /\ lock = 0
  /\ lock' = 1
  /\ held' = [held EXCEPT ![r] = 0]
  /\ overtaken' = overtaken \cup {q \in Adding : Expired(q)}
  /\ Goto(r, "query")
  /\ UNCHANGED <<message, age, rows, unsure, missed>>

\* SetNX sets the key.
Lock(r) ==
  /\ pc[r] = "call"
  /\ lock = 0
  /\ lock' = LockTTL
  /\ held' = [held EXCEPT ![r] = 0]
  /\ overtaken' = overtaken \cup {q \in Adding : Expired(q)}
  /\ Goto(r, "query")
  /\ UNCHANGED <<message, age, rows, unsure, missed>>

\* SetNX finds the key, or fails: the article is refused.
LockBusy(r) ==
  /\ pc[r] = "call"
  /\ Goto(r, "ended")
  /\ UNCHANGED <<lock, held, message, age, rows, unsure, overtaken, missed>>

\* The title is there already; the lock stays.
TitleExists(r) ==
  /\ pc[r] = "query"
  /\ SameTitle(r) # {}
  /\ Goto(r, "ended")
  /\ UNCHANGED <<lock, held, message, age, rows, unsure, overtaken, missed>>

\* The title is new.
TitleIsNew(r) ==
  /\ pc[r] = "query"
  /\ SameTitle(r) = {}
  /\ Goto(r, "create")
  /\ UNCHANGED <<lock, held, message, age, rows, unsure, overtaken, missed>>

\* The query fails: no row is affected, which counts as a new title.
TitleIsUnknown(r) ==
  /\ pc[r] = "query"
  /\ unsure' = unsure \cup {r}
  /\ Goto(r, "create")
  /\ UNCHANGED <<lock, held, message, age, rows, overtaken, missed>>

\* The article is inserted; the lock stays.
Create(r) ==
  /\ pc[r] = "create"
  /\ rows' = rows \cup {r}
  /\ missed' = IF message[r] = "consumed" /\ age[r] = Delay THEN missed \cup {r} ELSE missed
  /\ Goto(r, "ended")
  /\ UNCHANGED <<lock, held, message, age, unsure, overtaken>>

-----------------------------------------------------------------------------
(* The consumer *)

\* Injected bug: the message is not delayed.
ConsumeAtOnce(r) ==
  /\ message[r] = "delayed"
  /\ message' = [message EXCEPT ![r] = "consumed"]
  /\ rows' = rows \ SameTitle(r)
  /\ UNCHANGED <<pc, lock, held, age, unsure, overtaken, missed>>

\* The message is delivered and the articles of its title are deleted.
\* RocketMQ may deliver it again.
Consume(r) ==
  /\ message[r] \in {"delayed", "consumed"}
  /\ age[r] = Delay
  /\ message' = [message EXCEPT ![r] = "consumed"]
  /\ rows' = rows \ SameTitle(r)
  /\ UNCHANGED <<pc, lock, held, age, unsure, overtaken, missed>>

\* The deletion fails: the message counts as consumed.
ConsumeFails(r) ==
  /\ message[r] = "delayed"
  /\ age[r] = Delay
  /\ message' = [message EXCEPT ![r] = "failed"]
  /\ UNCHANGED <<pc, lock, held, age, rows, unsure, overtaken, missed>>

-----------------------------------------------------------------------------
(* Time *)

Elapse(t, bound) == IF t < bound THEN t + 1 ELSE bound

Tick ==
  /\ lock' = IF lock = 0 THEN 0 ELSE lock - 1
  /\ held' = [r \in Requests |-> Elapse(held[r], LockTTL)]
  /\ age' = [r \in Requests |->
               IF message[r] = "delayed" THEN Elapse(age[r], Delay) ELSE age[r]]
  /\ UNCHANGED <<pc, message, rows, unsure, overtaken, missed>>

-----------------------------------------------------------------------------
Init ==
  /\ pc = [r \in Requests |-> "new"]
  /\ lock = 0
  /\ held = [r \in Requests |-> LockTTL]
  /\ message = [r \in Requests |-> "none"]
  /\ age = [r \in Requests |-> 0]
  /\ rows = {}
  /\ unsure = {}
  /\ overtaken = {}
  /\ missed = {}

Send(r) == ProducerFails(r) \/ SendMessage(r) \/ SendFails(r)

ArticleAdd(r) ==
  \/ Lock(r) \/ LockBusy(r)
  \/ TitleExists(r) \/ TitleIsNew(r) \/ TitleIsUnknown(r)
  \/ Create(r)

Next ==
  \/ \E r \in Requests :
       \/ Submit(r) \/ Send(r) \/ CallFails(r) \/ ArticleAdd(r)
       \/ Consume(r) \/ ConsumeFails(r)
  \/ Tick

Spec == Init /\ [][Next]_vars

\* Time passes, and RocketMQ delivers a message to the consumer, once that runs,
\* until it has been consumed.  The requests and the calls they wait for need not
\* get on.
Fairness ==
  /\ WF_vars(Tick)
  /\ \A r \in Requests : WF_vars(message[r] = "delayed" /\ (Consume(r) \/ ConsumeFails(r)))

FairSpec == Spec /\ Fairness

-----------------------------------------------------------------------------
(* Properties *)

\* No title is in the database twice, whoever asks for it at the same time, unless
\* the query for one of the articles failed, or its lock expired before it was
\* inserted and another request had taken the lock by then.
TitlesUnique ==
  \A q, r \in rows :
    TitleOf[q] = TitleOf[r] => q = r \/ {q, r} \cap (unsure \cup overtaken) # {}

\* An article whose title was announced does not stay, though the message is
\* sent before there is an article to delete: only an article that is inserted
\* when the delay is over and the message consumed may.
AnnouncedIsRemoved ==
  \A r \in Requests :
    r \in rows \ missed /\ message[r] \in {"delayed", "consumed"} ~>
      r \notin rows \/ message[r] = "failed"
=============================================================================
