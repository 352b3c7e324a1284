------------------------------ MODULE Records ------------------------------
(***************************************************************************)
(* The accounts of account_srv/biz/biz.go and the categories of            *)
(* articleCategory_srv/biz/biz.go: rows of a table that requests add,      *)
(* change and delete, each with two statements, a query and a write,       *)
(* between which other requests run.  Nothing locks a row or a name.       *)
(*                                                                         *)
(* The value of a field is the request that supplied it.  Rows are deleted *)
(* by a mark (gorm.DeletedAt) that queries leave out.  Callers come from   *)
(* the goroutines of the rpc server, of any number of processes.           *)
(***************************************************************************)
EXTENDS Naturals, Sequences, FiniteSets, FiniteSetsExt

CONSTANTS
  Callers, \* the calls of a method of AccountServer or ArticleCategoryServer
  Names,   \* the names of accounts and categories
  Blank,   \* the empty name, which gorm leaves out of a condition
  Nobody,  \* what a field holds that no request has supplied
  Asks     \* Asks[r] is the set of what call r may ask for

\* UserRegister, UserLogin, UserInfoUpdate, UserAvatarUpdate; ArticleCategoryAdd,
\* ArticleCategoryUpdate, ArticleCategoryDelete.
Methods == {"register", "login", "info", "avatar", "add", "update", "delete"}

\* The fields of the requests.  The password of a login is known by the call that
\* registered with it.
Forms == [method : Methods, name : Names, id : Nat, secret : Callers]

ASSUME RecordsAssumption ==
  /\ Blank \in Names
  /\ Nobody \notin Callers
  /\ Asks \in [Callers -> SUBSET Forms]

VARIABLES
  at,     \* where a call is: "idle", "create", "save", "delete"; or how it
          \* ended: "ok", "refused", or "failed" for an error of the database
  call,   \* what it asks for
  loaded, \* its variable account or category
  table,  \* the rows of each table; the number of a row is its ID
  blind,  \* the calls whose query for a name failed (history)
  past    \* the calls that had ended when it made its query (history)

recordsVars == <<at, call, loaded, table, blind, past>>

Tables == {"account", "category"}

TableOf(c) == IF c.method \in {"add", "update", "delete"} THEN "category" ELSE "account"

Values == Callers \cup {Nobody}

Rows == [name : Names, creator : Values, profile : Values, picture : Values,
         deleted : BOOLEAN]

NoRow == [name |-> Blank, creator |-> Nobody, profile |-> Nobody, picture |-> Nobody,
          deleted |-> FALSE]

NoCall == [method |-> "none", name |-> Blank, id |-> 0, secret |-> Nobody]

RecordsTypeOK ==
  /\ at \in [Callers -> {"idle", "create", "save", "delete", "ok", "refused", "failed"}]
  /\ call \in [Callers -> Forms \cup {NoCall}]
  /\ loaded \in [Callers -> Rows]
  /\ table \in [Tables -> Seq(Rows)]
  /\ blind \subseteq Callers
  /\ past \in [Callers -> SUBSET Callers]

-----------------------------------------------------------------------------
(* Helpers *)

Ended(r) == at[r] \in {"ok", "refused", "failed"}

Live(t) == {i \in DOMAIN table[t] : ~table[t][i].deleted}

\* The rows of Where(&model.Account{UserName: n}).
Named(t, n) == {i \in Live(t) : n = Blank \/ table[t][i].name = n}

\* The first statement of call c is made, and r goes on at label.
Query(r, c, label) ==
  /\ at[r] = "idle"
  /\ at' = [at EXCEPT ![r] = label]
  /\ call' = [call EXCEPT ![r] = c]
  /\ past' = [past EXCEPT ![r] = {q \in Callers : Ended(q)}]

Finish(r, result) ==
  /\ at' = [at EXCEPT ![r] = result]
  /\ UNCHANGED <<call, loaded, blind, past>>

-----------------------------------------------------------------------------
(* UserRegister and ArticleCategoryAdd *)

Adds(r) == {c \in Asks[r] : c.method \in {"register", "add"}}

NameExists(r) ==
  /\ \E c \in Adds(r) : Named(TableOf(c), c.name) # {} /\ Query(r, c, "refused")
  /\ UNCHANGED <<loaded, table, blind>>

\* Injected bug: the name is not looked for.
NameIsNotAsked(r) ==
  /\ \E c \in Adds(r) : Query(r, c, "create")
  /\ UNCHANGED <<loaded, table, blind>>

NameIsNew(r) ==
  /\ \E c \in Adds(r) : Named(TableOf(c), c.name) = {} /\ Query(r, c, "create")
  /\ UNCHANGED <<loaded, table, blind>>

\* The query fails: no row is affected, which counts as a new name.
NameIsUnknown(r) ==
  /\ \E c \in Adds(r) : Query(r, c, "create")
  /\ blind' = blind \cup {r}
  /\ UNCHANGED <<loaded, table>>

\* DB.Create(&account)
InsertRow(r) ==
  /\ at[r] = "create"
  /\ table' = [table EXCEPT ![TableOf(call[r])] =
                 Append(@, [NoRow EXCEPT !.name = call[r].name, !.creator = r])]
  /\ Finish(r, "ok")

-----------------------------------------------------------------------------
(* UserLogin *)

Logins(r) == {c \in Asks[r] : c.method = "login"}

\* Injected bug: the last row of the name is taken.
LastPasswordVerified(c) ==
  LET rows == Named("account", c.name)
  IN  rows # {} /\ table["account"][Max(rows)].creator = c.secret

\* The password is that of the first row of the name.
PasswordVerified(c) ==
  LET rows == Named("account", c.name)
  IN  rows # {} /\ table["account"][Min(rows)].creator = c.secret

UserLogin(r) ==
  /\ \E c \in Logins(r) : Query(r, c, IF PasswordVerified(c) THEN "ok" ELSE "refused")
  /\ UNCHANGED <<loaded, table, blind>>

-----------------------------------------------------------------------------
(* UserInfoUpdate, UserAvatarUpdate, ArticleCategoryUpdate, ArticleCategoryDelete *)

Changes(r) == {c \in Asks[r] : c.method \in {"info", "avatar", "update", "delete"}}

After(c) == IF c.method = "delete" THEN "delete" ELSE "save"

\* Injected bug: that no row is found is not looked at.
LoadUnchecked(r) ==
  /\ \E c \in Changes(r) :
       /\ c.id \in DOMAIN table[TableOf(c)]
       /\ Query(r, c, After(c))
       /\ loaded' = [loaded EXCEPT ![r] = IF c.id \in Live(TableOf(c)) THEN table[TableOf(c)][c.id] ELSE NoRow]
  /\ UNCHANGED <<table, blind>>

\* DB.First(&account, req.Id)
Load(r) ==
  /\ \E c \in Changes(r) :
       /\ c.id \in Live(TableOf(c))
       /\ Query(r, c, After(c))
       /\ loaded' = [loaded EXCEPT ![r] = table[TableOf(c)][c.id]]
  /\ UNCHANGED <<table, blind>>

LoadsNothing(r) ==
  /\ \E c \in Changes(r) : c.id \notin Live(TableOf(c)) /\ Query(r, c, "refused")
  /\ UNCHANGED <<loaded, table, blind>>

\* Injected bug: the fields of the request are put in a new record.
ChangedRecord(r) ==
  [NoRow EXCEPT !.name = call[r].name, !.creator = loaded[r].creator, !.profile = r]

\* The record with the fields of the request.
Changed(r) ==
  IF call[r].method = "avatar"
  THEN [loaded[r] EXCEPT !.picture = r]
  ELSE [loaded[r] EXCEPT !.name = call[r].name, !.profile = r]

\* DB.Save(&account) writes every field, the mark of a row deleted meanwhile too ...
Save(r) ==
  /\ at[r] = "save"
  /\ table' = [table EXCEPT ![TableOf(call[r])][call[r].id] = Changed(r)]
  /\ Finish(r, "ok")

\* ... or nothing in this case, which may or may not be an error.
SaveIsLost(r) ==
  /\ at[r] = "save"
  /\ call[r].id \notin Live(TableOf(call[r]))
  /\ UNCHANGED table
  /\ Finish(r, "ok") \/ Finish(r, "failed")

\* DB.Delete(&model.Category{}, req.Id)
DeleteRow(r) ==
  /\ at[r] = "delete"
  /\ table' = [table EXCEPT !["category"][call[r].id].deleted = TRUE]
  /\ Finish(r, "ok")

-----------------------------------------------------------------------------
(* Errors of the database *)

\* A query other than for a new name finds no row.
QueryFails(r) ==
  /\ \E c \in Logins(r) \cup Changes(r) : Query(r, c, "failed")
  /\ UNCHANGED <<loaded, table, blind>>

WriteFails(r) ==
  /\ at[r] \in {"create", "save", "delete"}
  /\ Finish(r, "failed")
  /\ UNCHANGED table

-----------------------------------------------------------------------------
RecordsInit ==
  /\ at = [r \in Callers |-> "idle"]
  /\ call = [r \in Callers |-> NoCall]
  /\ loaded = [r \in Callers |-> NoRow]
  /\ table = [t \in Tables |-> <<>>]
  /\ blind = {}
  /\ past = [r \in Callers |-> {}]

RecordsStep(r) ==
  \/ NameExists(r) \/ NameIsNew(r) \/ NameIsUnknown(r) \/ InsertRow(r)
  \/ UserLogin(r)
  \/ Load(r) \/ LoadsNothing(r) \/ Save(r) \/ SaveIsLost(r)
  \/ DeleteRow(r)
  \/ QueryFails(r) \/ WriteFails(r)

RecordsNext == \E r \in Callers : RecordsStep(r)

RecordsSpec == RecordsInit /\ [][RecordsNext]_recordsVars

-----------------------------------------------------------------------------
(* Properties *)

Called(r, method) == call[r].method = method

\* Each was called before the other had ended.
Overlap(q, r) == q \notin past[r] /\ r \notin past[q]

SameRow(q, r) ==
  /\ call[q].method \in {"info", "avatar", "update", "delete"}
  /\ TableOf(call[q]) = TableOf(call[r])
  /\ call[q].id = call[r].id

\* The call gives a row of the table another name.
Renames(q, t) == Called(q, IF t = "account" THEN "info" ELSE "update")

\* Two rows of one name were added by calls that overlapped, or after a query
\* that failed, or one of them was given the name by an update: nothing else
\* keeps a name from being registered twice.
SerialNamesUnique ==
  \A t \in Tables : \A i, j \in Live(t) :
    LET first == table[t][i]
        second == table[t][j]
    IN  i < j /\ first.name = second.name =>
          \/ Overlap(first.creator, second.creator)
          \/ second.creator \in blind
          \/ \E q \in Callers : Renames(q, t)

\* Whoever has registered can log in, whatever updates write the whole row,
\* unless another registration of the name overlapped, the query for the name
\* failed, or a user was renamed before.
RegisteredCanLogIn ==
  \A r, l \in Callers :
    /\ Called(r, "register") /\ at[r] = "ok"
    /\ Called(l, "login") /\ at[l] = "refused"
    /\ call[l].name = call[r].name /\ call[l].secret = r
    /\ r \in past[l]
    => \/ r \in blind
       \/ \E q \in Callers \ {r} :
            \/ Called(q, "info") /\ l \notin past[q]
            \/ Called(q, "register") /\ Overlap(q, r)

\* What an update has written stays until the next update of the same field,
\* unless another update of the row overlapped, which may overwrite it with
\* what it has read before, or a deletion.
Field(row, c) == IF c.method = "avatar" THEN row.picture ELSE row.profile

Overwritten(r) ==
  \E q \in Callers \ {r} :
    /\ SameRow(q, r)
    /\ Overlap(q, r) \/ (r \in past[q] /\ call[q].method = call[r].method)

UpdateKept ==
  \A r \in Callers :
    call[r].method \in {"info", "avatar", "update"} /\ at[r] = "ok" =>
      \/ Field(table[TableOf(call[r])][call[r].id], call[r]) = r
      \/ Overwritten(r)

\* A category that was deleted comes back only by an update that overlapped the
\* deletion.
Restored(r) == \E q \in Callers : Called(q, "update") /\ SameRow(q, r) /\ Overlap(q, r)

DeletionKept ==
  \A r \in Callers :
    Called(r, "delete") /\ at[r] = "ok" =>
      table["category"][call[r].id].deleted \/ Restored(r)
=============================================================================
