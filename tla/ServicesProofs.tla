--------------------------- MODULE ServicesProofs ---------------------------
(***************************************************************************)
(* Theorems about Records and Articles, for any callers, names, requests,  *)
(* titles and times that satisfy their assumptions.                        *)
(*                                                                         *)
(* Records: a call makes a query, which starts it, and then at most one    *)
(* write, which ends it.  What a caller has read is still true when it     *)
(* writes, but for what was written by calls that overlap it: that is what *)
(* the parts of the inductive invariant say, each for one of the things a  *)
(* query looks at.                                                         *)
(*                                                                         *)
(* Articles: the time the lock has left and the time since it was taken    *)
(* add up to its lifetime for whoever is between the query and the         *)
(* insertion, until another takes the lock.  So nobody takes it from a     *)
(* request whose time is not over, and of all that add an article one at   *)
(* most has not been overtaken.                                            *)
(***************************************************************************)
EXTENDS Articles, Records, WellFoundedInduction, TLAPS

-----------------------------------------------------------------------------
(* The steps *)

\* The query of r.
Starts(r) ==
  /\ at[r] = "idle"
  /\ at'[r] \in {"create", "save", "delete", "ok", "refused", "failed"}
  /\ call'[r] \in Asks[r]
  /\ past'[r] = {q \in Callers : Ended(q)}
  /\ table' = table
  /\ at'[r] = "create" =>
       /\ call'[r].method \in {"register", "add"}
       /\ r \in blind' \/ Named(TableOf(call'[r]), call'[r].name) = {}
  /\ at'[r] \in {"save", "delete"} =>
       /\ call'[r].method \in {"info", "avatar", "update", "delete"}
       /\ at'[r] = "delete" <=> call'[r].method = "delete"
       /\ call'[r].id \in Live(TableOf(call'[r]))
       /\ loaded'[r] = table[TableOf(call'[r])][call'[r].id]
  /\ at'[r] = "ok" => call'[r].method = "login"
  /\ at'[r] = "refused" /\ call'[r].method = "login" => ~PasswordVerified(call'[r])

\* The write of r ends it.
Ends(r) ==
  /\ at[r] \in {"create", "save", "delete"}
  /\ at'[r] \in {"ok", "failed"}
  /\ UNCHANGED <<call, loaded, blind, past>>

\* What the write does to the rows.
Inserts(r) ==
  LET t == TableOf(call[r]) IN
  /\ at[r] = "create" /\ at'[r] = "ok"
  /\ \A u \in Tables \ {t} : table'[u] = table[u]
  /\ DOMAIN table'[t] = DOMAIN table[t] \cup {Len(table[t]) + 1}
  /\ \A i \in DOMAIN table[t] : table'[t][i] = table[t][i]
  /\ table'[t][Len(table[t]) + 1] = [NoRow EXCEPT !.name = call[r].name, !.creator = r]

Replaces(r, row) ==
  LET t == TableOf(call[r]) IN
  /\ at'[r] = "ok"
  /\ \A u \in Tables : DOMAIN table'[u] = DOMAIN table[u]
  /\ \A u \in Tables : \A i \in DOMAIN table[u] :
       table'[u][i] = IF u = t /\ i = call[r].id THEN row ELSE table[u][i]

Saves(r) == at[r] = "save" /\ Replaces(r, Changed(r))

Deletes(r) ==
  /\ at[r] = "delete"
  /\ Replaces(r, [table[TableOf(call[r])][call[r].id] EXCEPT !.deleted = TRUE])

Loses(r) ==
  /\ at[r] = "save" /\ at'[r] = "ok"
  /\ call[r].id \notin Live(TableOf(call[r]))
  /\ table' = table

Fails(r) == at'[r] = "failed" /\ table' = table

Others(r) ==
  /\ \A q \in Callers \ {r} :
       at'[q] = at[q] /\ call'[q] = call[q] /\ loaded'[q] = loaded[q] /\ past'[q] = past[q]
  /\ blind \subseteq blind' /\ blind' \subseteq blind \cup {r}

-----------------------------------------------------------------------------
(* Type correctness, and what belongs to each place in a call *)

\* A call is at a place of its own method, and the row it found stays.
Places ==
  \A r \in Callers :
    /\ at[r] = "idle" <=> call[r] = NoCall
    /\ at[r] = "idle" => past[r] = {}
    /\ \A q \in past[r] : Ended(q)
    /\ at[r] = "create" => call[r].method \in {"register", "add"}
    /\ at[r] = "save" => call[r].method \in {"info", "avatar", "update"}
    /\ at[r] = "delete" => call[r].method = "delete"
    /\ /\ at[r] \in {"save", "delete", "ok"}
       /\ call[r].method \in {"info", "avatar", "update", "delete"}
       => call[r].id \in DOMAIN table[TableOf(call[r])]

Base == RecordsTypeOK /\ Places

\* What is asked for is a form, and no form is that of a call that is idle.
LEMMA AsksAreForms ==
  \A r \in Callers : \A c \in Asks[r] : c \in Forms /\ c # NoCall /\ TableOf(c) \in Tables
BY RecordsAssumption DEF Forms, Methods, NoCall, TableOf, Tables

\* A table is a sequence of rows, and a call has one of the tables.
LEMMA TablesAreSeqs ==
  ASSUME RecordsTypeOK
  PROVE  /\ \A t \in Tables : /\ table[t] \in Seq(Rows)
                              /\ Len(table[t]) \in Nat
                              /\ DOMAIN table[t] = 1 .. Len(table[t])
                              /\ \A i \in DOMAIN table[t] : table[t][i] \in Rows
         /\ \A r \in Callers : TableOf(call[r]) \in Tables
BY DEF RecordsTypeOK, TableOf, Tables

\* An empty table, and the call of one that is idle.
LEMMA InitBase == RecordsInit => Base
<1> SUFFICES ASSUME RecordsInit PROVE Base
  OBVIOUS
<1>1. NoRow \in Rows
  BY RecordsAssumption DEF NoRow, Rows, Values
<1>2. RecordsTypeOK
  BY <1>1 DEF RecordsInit, RecordsTypeOK
<1>3. Places
  BY DEF RecordsInit, Places, Ended, NoCall
<1>4. QED
  BY <1>2, <1>3 DEF Base

\* A query changes nothing but what its caller knows.
LEMMA QueryStarts ==
  ASSUME RecordsTypeOK, NEW r \in Callers, NEW c \in Asks[r],
         NEW label \in {"create", "save", "delete", "ok", "refused", "failed"},
         Query(r, c, label),
         \A q \in Callers \ {r} : loaded'[q] = loaded[q],
         blind \subseteq blind', blind' \subseteq blind \cup {r},
         table' = table
  PROVE  /\ Others(r)
         /\ at[r] = "idle" /\ at'[r] = label /\ call'[r] = c
         /\ call'[r] \in Asks[r]
         /\ past'[r] = {q \in Callers : Ended(q)}
BY DEF Query, Others, RecordsTypeOK

\* A write changes nothing but the table.
LEMMA FinishEnds ==
  ASSUME RecordsTypeOK, NEW r \in Callers, NEW result \in {"ok", "failed"},
         at[r] \in {"create", "save", "delete"}, Finish(r, result)
  PROVE  Others(r) /\ Ends(r) /\ at'[r] = result
BY DEF Finish, Others, Ends, RecordsTypeOK

\* What a write does to the rows of all the tables.
LEMMA RowsReplaced ==
  ASSUME Base, NEW r \in Callers, NEW row \in Rows,
         at[r] \in {"save", "delete"}, at'[r] = "ok",
         table' = [table EXCEPT ![TableOf(call[r])][call[r].id] = row]
  PROVE  Replaces(r, row)
<1> DEFINE t == TableOf(call[r])
<1>1. t \in Tables /\ call[r].id \in DOMAIN table[t]
  BY DEF Base, Places, TableOf, Tables
<1>2. table \in [Tables -> Seq(Rows)]
  BY DEF Base, RecordsTypeOK
<1>3. table' = [table EXCEPT ![t] = [table[t] EXCEPT ![call[r].id] = row]]
  BY <1>1, <1>2
<1>4. ASSUME NEW u \in Tables PROVE table'[u] = IF u = t THEN [table[t] EXCEPT ![call[r].id] = row]
                                                        ELSE table[u]
  BY <1>2, <1>3
<1>5. table[t] \in Seq(Rows)
  BY <1>1, <1>2
<1>6. /\ DOMAIN [table[t] EXCEPT ![call[r].id] = row] = DOMAIN table[t]
      /\ \A i \in DOMAIN table[t] :
           [table[t] EXCEPT ![call[r].id] = row][i] = IF i = call[r].id THEN row ELSE table[t][i]
  BY <1>5
<1>7. QED
  BY <1>4, <1>6 DEF Replaces

\* What a call changes is a row.
LEMMA ChangedIsRow ==
  ASSUME Base, NEW r \in Callers, at[r] \in {"create", "save", "delete"}
  PROVE  /\ at[r] = "save" => Changed(r) \in Rows
         /\ at[r] = "delete" =>
              [table[TableOf(call[r])][call[r].id] EXCEPT !.deleted = TRUE] \in Rows
         /\ [NoRow EXCEPT !.name = call[r].name, !.creator = r] \in Rows
<1>1. call[r] \in Forms /\ call[r].name \in Names
  BY DEF Base, RecordsTypeOK, Places, Forms
<1>2. loaded[r] \in Rows
  BY DEF Base, RecordsTypeOK
<1>3. at[r] = "save" => Changed(r) \in Rows
  BY <1>1, <1>2 DEF Changed, Rows, Values
<1>4. at[r] = "delete" => table[TableOf(call[r])][call[r].id] \in Rows
  BY TablesAreSeqs DEF Base, Places
<1>5. at[r] = "delete" =>
        [table[TableOf(call[r])][call[r].id] EXCEPT !.deleted = TRUE] \in Rows
  BY <1>4 DEF Rows
<1>6. [NoRow EXCEPT !.name = call[r].name, !.creator = r] \in Rows
  BY <1>1, RecordsAssumption DEF NoRow, Rows, Values
<1>7. QED
  BY <1>3, <1>5, <1>6

\* Each step is a query or one of five writes.
Kinds(r) ==
  /\ Others(r)
  /\ \/ Starts(r)
     \/ Ends(r) /\ (Inserts(r) \/ Saves(r) \/ Deletes(r) \/ Loses(r) \/ Fails(r))

LEMMA StepKinds ==
  ASSUME Base, NEW r \in Callers, RecordsStep(r)
  PROVE  Kinds(r)
<1> USE DEF Base
<1>1. ASSUME NameExists(r) PROVE Kinds(r)
  <2>1. PICK c \in Adds(r) : Query(r, c, "refused")
    BY <1>1 DEF NameExists
  <2>2. c \in Asks[r] /\ c.method # "login"
    BY DEF Adds
  <2>3. QED
    BY <1>1, <2>1, <2>2, QueryStarts DEF NameExists, Kinds, Starts
<1>2. ASSUME NameIsNew(r) PROVE Kinds(r)
  <2>1. PICK c \in Adds(r) : Named(TableOf(c), c.name) = {} /\ Query(r, c, "create")
    BY <1>2 DEF NameIsNew
  <2>2. c \in Asks[r] /\ c.method \in {"register", "add"}
    BY DEF Adds
  <2>3. /\ Others(r) /\ at[r] = "idle" /\ at'[r] = "create" /\ call'[r] = c
        /\ call'[r] \in Asks[r] /\ past'[r] = {q \in Callers : Ended(q)}
    BY <1>2, <2>1, <2>2, QueryStarts DEF NameIsNew
  <2>4. QED
    BY <1>2, <2>1, <2>2, <2>3 DEF NameIsNew, Kinds, Starts
<1>3. ASSUME NameIsUnknown(r) PROVE Kinds(r)
  <2>1. PICK c \in Adds(r) : Query(r, c, "create")
    BY <1>3 DEF NameIsUnknown
  <2>2. c \in Asks[r] /\ c.method \in {"register", "add"}
    BY DEF Adds
  <2>3. r \in blind' /\ blind \subseteq blind' /\ blind' \subseteq blind \cup {r}
    BY <1>3 DEF NameIsUnknown
  <2>4. /\ Others(r) /\ at[r] = "idle" /\ at'[r] = "create" /\ call'[r] = c
        /\ call'[r] \in Asks[r] /\ past'[r] = {q \in Callers : Ended(q)}
    BY <1>3, <2>1, <2>2, <2>3, QueryStarts DEF NameIsUnknown
  <2>5. QED
    BY <1>3, <2>2, <2>3, <2>4 DEF NameIsUnknown, Kinds, Starts
<1>4. ASSUME UserLogin(r) PROVE Kinds(r)
  <2>1. PICK c \in Logins(r) : Query(r, c, IF PasswordVerified(c) THEN "ok" ELSE "refused")
    BY <1>4 DEF UserLogin
  <2>2. c \in Asks[r] /\ c.method = "login"
    BY DEF Logins
  <2> DEFINE label == IF PasswordVerified(c) THEN "ok" ELSE "refused"
  <2>3. label \in {"ok", "refused"} /\ (label = "refused" => ~PasswordVerified(c))
    OBVIOUS
  <2>4. Query(r, c, label)
    BY <2>1
  <2> HIDE DEF label
  <2>5. /\ Others(r) /\ at[r] = "idle" /\ at'[r] = label /\ call'[r] = c
        /\ call'[r] \in Asks[r] /\ past'[r] = {q \in Callers : Ended(q)}
    BY <1>4, <2>2, <2>3, <2>4, QueryStarts DEF UserLogin
  <2>6. QED
    BY <1>4, <2>2, <2>3, <2>5 DEF UserLogin, Kinds, Starts
<1>5. ASSUME Load(r) PROVE Kinds(r)
  <2>1. PICK c \in Changes(r) :
          /\ c.id \in Live(TableOf(c))
          /\ Query(r, c, After(c))
          /\ loaded' = [loaded EXCEPT ![r] = table[TableOf(c)][c.id]]
    BY <1>5 DEF Load
  <2>2. c \in Asks[r] /\ c.method \in {"info", "avatar", "update", "delete"}
    BY DEF Changes
  <2>3. After(c) \in {"save", "delete"} /\ (After(c) = "delete" <=> c.method = "delete")
    BY DEF After
  <2>4. /\ \A q \in Callers \ {r} : loaded'[q] = loaded[q]
        /\ loaded'[r] = table[TableOf(c)][c.id]
    BY <2>1 DEF RecordsTypeOK
  <2>5. table' = table /\ blind' = blind
    BY <1>5 DEF Load
  <2>6. /\ Others(r) /\ at[r] = "idle" /\ at'[r] = After(c) /\ call'[r] = c
        /\ call'[r] \in Asks[r] /\ past'[r] = {q \in Callers : Ended(q)}
    BY <2>1, <2>2, <2>3, <2>4, <2>5, QueryStarts
  <2>7. QED
    BY <2>1, <2>2, <2>3, <2>4, <2>5, <2>6 DEF Kinds, Starts
<1>6. ASSUME LoadsNothing(r) PROVE Kinds(r)
  <2>1. PICK c \in Changes(r) : Query(r, c, "refused")
    BY <1>6 DEF LoadsNothing
  <2>2. c \in Asks[r] /\ c.method # "login"
    BY DEF Changes
  <2>3. QED
    BY <1>6, <2>1, <2>2, QueryStarts DEF LoadsNothing, Kinds, Starts
<1>7. ASSUME QueryFails(r) PROVE Kinds(r)
  <2>1. PICK c \in Logins(r) \cup Changes(r) : Query(r, c, "failed")
    BY <1>7 DEF QueryFails
  <2>2. c \in Asks[r]
    BY DEF Changes, Logins
  <2>3. QED
    BY <1>7, <2>1, <2>2, QueryStarts DEF QueryFails, Kinds, Starts
<1>8. ASSUME InsertRow(r) PROVE Kinds(r)
  <2> DEFINE t == TableOf(call[r])
             row == [NoRow EXCEPT !.name = call[r].name, !.creator = r]
  <2>1. Others(r) /\ Ends(r) /\ at[r] = "create" /\ at'[r] = "ok"
    BY <1>8, FinishEnds DEF InsertRow
  <2>2. t \in Tables /\ table[t] \in Seq(Rows) /\ row \in Rows
    BY <2>1, TablesAreSeqs, ChangedIsRow
  <2>3. /\ \A u \in Tables \ {t} : table'[u] = table[u]
        /\ table'[t] = Append(table[t], row)
    BY <1>8, <2>2 DEF InsertRow, RecordsTypeOK
  <2> HIDE DEF row, t
  <2>4. /\ DOMAIN Append(table[t], row) = DOMAIN table[t] \cup {Len(table[t]) + 1}
        /\ \A i \in DOMAIN table[t] : Append(table[t], row)[i] = table[t][i]
        /\ Append(table[t], row)[Len(table[t]) + 1] = row
    BY <2>2
  <2>5. Inserts(r)
    BY <2>1, <2>3, <2>4 DEF Inserts, row, t
  <2>6. QED
    BY <2>1, <2>5 DEF Kinds
<1>9. ASSUME Save(r) PROVE Kinds(r)
  <2>1. Others(r) /\ Ends(r) /\ at[r] = "save" /\ at'[r] = "ok"
    BY <1>9, FinishEnds DEF Save
  <2>2. Saves(r)
    BY <1>9, <2>1, ChangedIsRow, RowsReplaced DEF Save, Saves
  <2>3. QED
    BY <2>1, <2>2 DEF Kinds
<1>10. ASSUME SaveIsLost(r) PROVE Kinds(r)
  <2>1. PICK result \in {"ok", "failed"} : Finish(r, result)
    BY <1>10 DEF SaveIsLost
  <2>2. Others(r) /\ Ends(r) /\ at[r] = "save" /\ at'[r] \in {"ok", "failed"}
    BY <1>10, <2>1, FinishEnds DEF SaveIsLost
  <2>3. QED
    BY <1>10, <2>2 DEF SaveIsLost, Kinds, Loses, Fails
<1>11. ASSUME DeleteRow(r) PROVE Kinds(r)
  <2> DEFINE t == TableOf(call[r])
             row == [table[t][call[r].id] EXCEPT !.deleted = TRUE]
  <2>1. Others(r) /\ Ends(r) /\ at[r] = "delete" /\ at'[r] = "ok"
    BY <1>11, FinishEnds DEF DeleteRow
  <2>2. call[r].method = "delete" /\ t = "category"
    BY <2>1 DEF Places, TableOf
  <2>3. row \in Rows
    BY <2>1, ChangedIsRow
  <2>4. table' = [table EXCEPT ![t][call[r].id] = row]
    BY <1>11, <2>2 DEF DeleteRow, RecordsTypeOK, Tables
  <2>5. Deletes(r)
    BY <2>1, <2>3, <2>4, RowsReplaced DEF Deletes
  <2>6. QED
    BY <2>1, <2>5 DEF Kinds
<1>12. ASSUME WriteFails(r) PROVE Kinds(r)
  <2>1. Others(r) /\ Ends(r) /\ at'[r] = "failed"
    BY <1>12, FinishEnds DEF WriteFails
  <2>2. QED
    BY <1>12, <2>1 DEF WriteFails, Kinds, Fails
<1>13. QED
  BY <1>1, <1>2, <1>3, <1>4, <1>5, <1>6, <1>7, <1>8, <1>9, <1>10, <1>11, <1>12
     DEF RecordsStep

LEMMA TypePreserved ==
  ASSUME Base, NEW r \in Callers, RecordsStep(r)
  PROVE  RecordsTypeOK'
<1> USE DEF Base
<1>1. Kinds(r)
  BY StepKinds
<1>2. /\ at' \in [Callers -> {"idle", "create", "save", "delete", "ok", "refused", "failed"}]
      /\ call' \in [Callers -> Forms \cup {NoCall}]
      /\ past' \in [Callers -> SUBSET Callers]
      /\ blind' \subseteq Callers
  <2>1. CASE \E c \in Asks[r] : \E label \in {"create", "save", "delete", "ok", "refused", "failed"} :
               Query(r, c, label)
    BY <1>1, <2>1, AsksAreForms DEF Query, RecordsTypeOK, Kinds, Others
  <2>2. CASE \E result \in {"ok", "failed"} : Finish(r, result)
    BY <2>2 DEF Finish, RecordsTypeOK
  <2>3. \/ \E c \in Asks[r] : \E label \in {"create", "save", "delete", "ok", "refused", "failed"} :
               Query(r, c, label)
        \/ \E result \in {"ok", "failed"} : Finish(r, result)
    BY DEF RecordsStep, NameExists, NameIsNew, NameIsUnknown, InsertRow, UserLogin, Load,
         LoadsNothing, Save, SaveIsLost, DeleteRow, QueryFails, WriteFails, Adds, Logins,
         Changes, After
  <2>4. QED
    BY <2>1, <2>2, <2>3
<1>3. loaded' \in [Callers -> Rows]
  <2>1. CASE loaded' = loaded
    BY <2>1 DEF RecordsTypeOK
  <2>2. CASE Load(r)
    <3>1. PICK c \in Changes(r) : /\ c.id \in Live(TableOf(c))
                                  /\ loaded' = [loaded EXCEPT ![r] = table[TableOf(c)][c.id]]
      BY <2>2 DEF Load
    <3>2. table[TableOf(c)][c.id] \in Rows
      BY <3>1, TablesAreSeqs, AsksAreForms DEF Changes, Live
    <3>3. QED
      BY <3>1, <3>2 DEF RecordsTypeOK
  <2>3. loaded' = loaded \/ Load(r)
    BY DEF RecordsStep, NameExists, NameIsNew, NameIsUnknown, InsertRow, UserLogin,
         LoadsNothing, Save, SaveIsLost, DeleteRow, QueryFails, WriteFails, Finish
  <2>4. QED
    BY <2>1, <2>2, <2>3
<1>4. table' \in [Tables -> Seq(Rows)]
  <2>1. CASE table' = table
    BY <2>1 DEF RecordsTypeOK
  <2>2. CASE InsertRow(r)
    <3> DEFINE row == [NoRow EXCEPT !.name = call[r].name, !.creator = r]
    <3>1. row \in Rows /\ TableOf(call[r]) \in Tables
      BY <2>2, ChangedIsRow, TablesAreSeqs DEF InsertRow
    <3>2. table' = [table EXCEPT ![TableOf(call[r])] = Append(@, row)]
      BY <2>2 DEF InsertRow
    <3> HIDE DEF row
    <3>3. QED
      BY <3>1, <3>2 DEF RecordsTypeOK
  <2>3. ASSUME NEW t \in Tables, NEW i \in DOMAIN table[t], NEW row \in Rows,
               table' = [table EXCEPT ![t][i] = row]
        PROVE  table' \in [Tables -> Seq(Rows)]
    <3>1. [table[t] EXCEPT ![i] = row] \in Seq(Rows)
      BY <2>3 DEF RecordsTypeOK
    <3>2. table' = [table EXCEPT ![t] = [table[t] EXCEPT ![i] = row]]
      BY <2>3 DEF RecordsTypeOK
    <3>3. QED
      BY <3>1, <3>2 DEF RecordsTypeOK
  <2>4. CASE Save(r)
    <3>1. Changed(r) \in Rows /\ TableOf(call[r]) \in Tables
          /\ call[r].id \in DOMAIN table[TableOf(call[r])]
      BY <2>4, ChangedIsRow, TablesAreSeqs DEF Save, Places
    <3>2. QED
      BY <2>3, <2>4, <3>1 DEF Save
  <2>5. CASE DeleteRow(r)
    <3> DEFINE row == [table["category"][call[r].id] EXCEPT !.deleted = TRUE]
    <3>1. TableOf(call[r]) = "category" /\ "category" \in Tables
      BY <2>5 DEF DeleteRow, Places, TableOf, Tables
    <3>2. row \in Rows /\ call[r].id \in DOMAIN table["category"]
      BY <2>5, <3>1, ChangedIsRow DEF DeleteRow, Places
    <3>3. table' = [table EXCEPT !["category"][call[r].id] = row]
      BY <2>5, <3>1 DEF DeleteRow, RecordsTypeOK
    <3>4. QED
      BY <2>3, <3>1, <3>2, <3>3
  <2>6. table' = table \/ InsertRow(r) \/ Save(r) \/ DeleteRow(r)
    BY DEF RecordsStep, NameExists, NameIsNew, NameIsUnknown, UserLogin, Load,
         LoadsNothing, SaveIsLost, QueryFails, WriteFails
  <2>7. QED
    BY <2>1, <2>2, <2>4, <2>5, <2>6
<1>5. QED
  BY <1>2, <1>3, <1>4 DEF RecordsTypeOK

\* A row has its number for ever.
LEMMA RowsStay ==
  ASSUME Base, NEW r \in Callers, Kinds(r)
  PROVE  \A t \in Tables : DOMAIN table[t] \subseteq DOMAIN table'[t]
<1>1. CASE Starts(r) \/ Loses(r) \/ Fails(r)
  BY <1>1 DEF Starts, Loses, Fails
<1>2. CASE Inserts(r)
  BY <1>2 DEF Inserts
<1>3. CASE Saves(r) \/ Deletes(r)
  BY <1>3 DEF Saves, Deletes, Replaces
<1>4. QED
  BY <1>1, <1>2, <1>3 DEF Kinds

\* Whoever has made its query keeps what it asks for and whom it came after, and
\* whoever has ended stays so.
LEMMA CallsStay ==
  ASSUME Base, NEW r \in Callers, Kinds(r), NEW q \in Callers, at[q] # "idle"
  PROVE  /\ at'[q] # "idle" /\ call'[q] = call[q] /\ past'[q] = past[q]
         /\ Ended(q) => at'[q] = at[q]
BY DEF Kinds, Others, Starts, Ends, Ended

LEMMA PlacesPreserved ==
  ASSUME Base, NEW r \in Callers, Kinds(r)
  PROVE  Places'
<1> USE DEF Base
<1> SUFFICES ASSUME NEW s \in Callers PROVE
      /\ at'[s] = "idle" <=> call'[s] = NoCall
      /\ at'[s] = "idle" => past'[s] = {}
      /\ \A q \in past'[s] : Ended(q)'
      /\ at'[s] = "create" => call'[s].method \in {"register", "add"}
      /\ at'[s] = "save" => call'[s].method \in {"info", "avatar", "update"}
      /\ at'[s] = "delete" => call'[s].method = "delete"
      /\ /\ at'[s] \in {"save", "delete", "ok"}
         /\ call'[s].method \in {"info", "avatar", "update", "delete"}
         => call'[s].id \in DOMAIN table'[TableOf(call'[s])]
  BY DEF Places
<1>1. \A q \in Callers : Ended(q) => Ended(q)'
  BY CallsStay DEF Ended
<1>2. CASE s # r
  <2>1. at'[s] = at[s] /\ call'[s] = call[s] /\ past'[s] = past[s]
    BY <1>2 DEF Kinds, Others
  <2>2. TableOf(call[s]) \in Tables
    BY TablesAreSeqs
  <2>3. past[s] \subseteq Callers
    BY DEF RecordsTypeOK
  <2>4. QED
    BY <1>1, <2>1, <2>2, <2>3, RowsStay DEF Places
<1>3. CASE s = r /\ Starts(r)
  <2>1. call'[r] \in Forms /\ call'[r] # NoCall
    BY <1>3, AsksAreForms DEF Starts
  <2>2. \A q \in past'[r] : Ended(q)'
    BY <1>1, <1>3 DEF Starts
  <2>3. at'[r] \in {"save", "delete", "ok"} /\ call'[r].method \in {"info", "avatar", "update", "delete"}
        => call'[r].id \in DOMAIN table'[TableOf(call'[r])]
    BY <1>3 DEF Starts, Live
  <2>4. /\ at'[r] = "create" => call'[r].method \in {"register", "add"}
        /\ at'[r] = "save" => call'[r].method \in {"info", "avatar", "update"}
        /\ at'[r] = "delete" => call'[r].method = "delete"
    BY <1>3 DEF Starts
  <2>5. at'[r] # "idle"
    BY <1>3 DEF Starts
  <2>6. QED
    BY <1>3, <2>1, <2>2, <2>3, <2>4, <2>5
<1>4. CASE s = r /\ Ends(r)
  <2>1. call'[r] = call[r] /\ past'[r] = past[r] /\ at'[r] \in {"ok", "failed"}
    BY <1>4 DEF Ends
  <2>2. call[r] # NoCall
    BY <1>4 DEF Ends, Places
  <2>3. past[r] \subseteq Callers
    BY DEF RecordsTypeOK
  <2>4. call[r].method \in {"info", "avatar", "update", "delete"} =>
          call[r].id \in DOMAIN table[TableOf(call[r])]
    BY <1>4 DEF Ends, Places
  <2>5. TableOf(call[r]) \in Tables
    BY TablesAreSeqs
  <2>6. QED
    BY <1>1, <1>4, <2>1, <2>2, <2>3, <2>4, <2>5, RowsStay DEF Places
<1>5. QED
  BY <1>2, <1>3, <1>4 DEF Kinds

-----------------------------------------------------------------------------
(* What was said of calls that have made their queries stays true *)

NoRenames(t) == \A q \in Callers : ~Renames(q, t)

\* Two calls that have overlapped, and two on one row.
LEMMA PairsStay ==
  ASSUME Base, NEW r \in Callers, Kinds(r),
         NEW q \in Callers, NEW s \in Callers, at[s] # "idle"
  PROVE  /\ at[q] # "idle" /\ Overlap(q, s) => Overlap(q, s)'
         /\ at[q] # "idle" /\ Overlap(s, q) => Overlap(s, q)'
         /\ SameRow(q, s) => at[q] # "idle" /\ SameRow(q, s)'
<1>1. call'[s] = call[s] /\ past'[s] = past[s]
  BY CallsStay
<1>2. at[q] # "idle" => call'[q] = call[q] /\ past'[q] = past[q]
  BY CallsStay
<1>3. SameRow(q, s) => at[q] # "idle"
  BY DEF SameRow, Base, Places, NoCall
<1>4. at[q] # "idle" /\ Overlap(q, s) => Overlap(q, s)'
  BY <1>1, <1>2 DEF Overlap
<1>5. at[q] # "idle" /\ Overlap(s, q) => Overlap(s, q)'
  BY <1>1, <1>2 DEF Overlap
<1>6. SameRow(q, s) => SameRow(q, s)'
  BY <1>1, <1>2, <1>3 DEF SameRow, TableOf
<1>7. QED
  BY <1>3, <1>4, <1>5, <1>6

\* An update that may have been overwritten, and a deletion that may have been undone.
LEMMA ExcusesStay ==
  ASSUME Base, NEW r \in Callers, Kinds(r), NEW s \in Callers, at[s] # "idle"
  PROVE  /\ Overwritten(s) => Overwritten(s)'
         /\ Restored(s) => Restored(s)'
<1>1. ASSUME Overwritten(s) PROVE Overwritten(s)'
  <2>1. PICK q \in Callers \ {s} :
          /\ SameRow(q, s)
          /\ Overlap(q, s) \/ (s \in past[q] /\ call[q].method = call[s].method)
    BY <1>1 DEF Overwritten
  <2>2. at[q] # "idle" /\ SameRow(q, s)'
    BY <2>1, PairsStay
  <2>3. call'[q] = call[q] /\ past'[q] = past[q] /\ call'[s] = call[s]
    BY <2>2, CallsStay
  <2>4. Overlap(q, s) => Overlap(q, s)'
    BY <2>2, PairsStay
  <2>5. QED
    BY <2>1, <2>2, <2>3, <2>4 DEF Overwritten
<1>2. ASSUME Restored(s) PROVE Restored(s)'
  <2>1. PICK q \in Callers : Called(q, "update") /\ SameRow(q, s) /\ Overlap(q, s)
    BY <1>2 DEF Restored
  <2>2. at[q] # "idle" /\ SameRow(q, s)' /\ Overlap(q, s)'
    BY <2>1, PairsStay
  <2>3. call'[q] = call[q]
    BY <2>2, CallsStay
  <2>4. QED
    BY <2>1, <2>2, <2>3 DEF Restored, Called
<1>3. QED
  BY <1>1, <1>2

\* A renaming that was asked for.
LEMMA RenamesStay ==
  ASSUME Base, NEW r \in Callers, Kinds(r), NEW t \in Tables, NoRenames(t)'
  PROVE  NoRenames(t)
<1>1. ASSUME NEW q \in Callers, Renames(q, t) PROVE Renames(q, t)'
  <2>1. at[q] # "idle"
    BY <1>1 DEF Renames, Called, Base, Places, NoCall
  <2>2. call'[q] = call[q]
    BY <2>1, CallsStay
  <2>3. QED
    BY <1>1, <2>2 DEF Renames, Called
<1>2. QED
  BY <1>1 DEF NoRenames

-----------------------------------------------------------------------------
(* Rows that were read *)

\* Accounts are not deleted; and a caller about to save has read a row that was
\* not, of the same creator and, unless it can be renamed, of the same name.
Loaded ==
  /\ \A i \in DOMAIN table["account"] : ~table["account"][i].deleted
  /\ \A s \in Callers : at[s] = "save" =>
       LET t == TableOf(call[s])
           row == table[t][call[s].id]
       IN  /\ ~loaded[s].deleted
           /\ loaded[s].creator = row.creator
           /\ NoRenames(t) => loaded[s].name = row.name

\* What a save leaves of a row.
LEMMA ChangedKeeps ==
  ASSUME Base, NEW r \in Callers, at[r] = "save"
  PROVE  /\ Changed(r).deleted = loaded[r].deleted
         /\ Changed(r).creator = loaded[r].creator
         /\ NoRenames(TableOf(call[r])) =>
              call[r].method = "avatar" /\ Changed(r).name = loaded[r].name
         /\ call[r].method = "avatar" =>
              Changed(r).picture = r /\ Changed(r).profile = loaded[r].profile
         /\ call[r].method # "avatar" =>
              Changed(r).profile = r /\ Changed(r).picture = loaded[r].picture
<1>1. loaded[r] \in Rows /\ call[r].method \in {"info", "avatar", "update"}
  BY DEF Base, RecordsTypeOK, Places
<1>2. NoRenames(TableOf(call[r])) => call[r].method = "avatar"
  BY <1>1 DEF NoRenames, Renames, Called, TableOf
<1>3. QED
  BY <1>1, <1>2 DEF Changed, Rows

\* What a step leaves of a row that is there: its creator, and its name if it
\* cannot be renamed.
LEMMA RowsKeep ==
  ASSUME Base, Loaded, NEW r \in Callers, Kinds(r),
         NEW t \in Tables, NEW i \in DOMAIN table[t]
  PROVE  /\ table'[t][i].creator = table[t][i].creator
         /\ NoRenames(t) => table'[t][i].name = table[t][i].name
<1>1. CASE table'[t][i] = table[t][i]
  BY <1>1
<1>2. CASE Saves(r) /\ t = TableOf(call[r]) /\ i = call[r].id
  <2>1. at[r] = "save" /\ table'[t][i] = Changed(r)
    BY <1>2 DEF Saves, Replaces
  <2>2. loaded[r].creator = table[t][i].creator
        /\ (NoRenames(t) => loaded[r].name = table[t][i].name)
    BY <1>2, <2>1 DEF Loaded
  <2>3. QED
    BY <1>2, <2>1, <2>2, ChangedKeeps
<1>3. CASE Deletes(r) /\ t = TableOf(call[r]) /\ i = call[r].id
  <2>1. table'[t][i] = [table[t][i] EXCEPT !.deleted = TRUE]
    BY <1>3 DEF Deletes, Replaces
  <2>2. table[t][i] \in Rows
    BY TablesAreSeqs DEF Base
  <2>3. QED
    BY <2>1, <2>2 DEF Rows
<1>4. \/ table'[t][i] = table[t][i]
      \/ (Saves(r) \/ Deletes(r)) /\ t = TableOf(call[r]) /\ i = call[r].id
  <2>1. CASE Starts(r) \/ Loses(r) \/ Fails(r)
    BY <2>1 DEF Starts, Loses, Fails
  <2>2. CASE Inserts(r)
    BY <2>2 DEF Inserts
  <2>3. CASE Saves(r) \/ Deletes(r)
    BY <2>3 DEF Saves, Deletes, Replaces
  <2>4. QED
    BY <2>1, <2>2, <2>3 DEF Kinds
<1>5. QED
  BY <1>1, <1>2, <1>3, <1>4

\* What a step leaves of the mark of a deletion.
LEMMA MarksKeep ==
  ASSUME Base, Loaded, NEW r \in Callers, Kinds(r),
         NEW t \in Tables, NEW i \in DOMAIN table[t]
  PROVE  \/ table'[t][i].deleted = table[t][i].deleted
         \/ Saves(r) /\ t = TableOf(call[r]) /\ i = call[r].id /\ ~table'[t][i].deleted
         \/ Deletes(r) /\ t = TableOf(call[r]) /\ i = call[r].id /\ table'[t][i].deleted
<1>1. CASE Starts(r) \/ Loses(r) \/ Fails(r)
  BY <1>1 DEF Starts, Loses, Fails
<1>2. CASE Inserts(r)
  BY <1>2 DEF Inserts
<1>3. CASE Saves(r)
  <2>1. ~Changed(r).deleted
    BY <1>3, ChangedKeeps DEF Saves, Loaded
  <2>2. QED
    BY <1>3, <2>1 DEF Saves, Replaces
<1>4. CASE Deletes(r)
  <2>1. table[t][i] \in Rows
    BY TablesAreSeqs DEF Base
  <2>2. QED
    BY <1>4, <2>1 DEF Deletes, Replaces, Rows
<1>5. QED
  BY <1>1, <1>2, <1>3, <1>4 DEF Kinds

LEMMA LoadedPreserved ==
  ASSUME Base, Loaded, RecordsTypeOK', NEW r \in Callers, Kinds(r)
  PROVE  Loaded'
<1> USE DEF Base
<1>1. ASSUME NEW i \in DOMAIN table'["account"] PROVE ~table'["account"][i].deleted
  <2>1. "account" \in Tables
    BY DEF Tables
  <2>2. CASE i \in DOMAIN table["account"]
    <3>1. ~Deletes(r) \/ TableOf(call[r]) # "account"
      BY DEF Deletes, Places, TableOf
    <3>2. QED
      BY <2>1, <2>2, <3>1, MarksKeep DEF Loaded
  <2>3. CASE i \notin DOMAIN table["account"]
    <3>1. Inserts(r) /\ TableOf(call[r]) = "account"
      BY <2>1, <2>3, <1>1 DEF Kinds, Starts, Inserts, Saves, Deletes, Replaces, Loses, Fails
    <3>2. table'["account"][i] = [NoRow EXCEPT !.name = call[r].name, !.creator = r]
      BY <1>1, <2>3, <3>1 DEF Inserts
    <3>3. QED
      BY <3>2 DEF NoRow
  <2>4. QED
    BY <2>2, <2>3
<1>2. ASSUME NEW s \in Callers, at'[s] = "save", NEW t \in Tables, NEW i \in Nat,
             t = TableOf(call'[s]), i = call'[s].id
      PROVE  /\ ~loaded'[s].deleted
             /\ loaded'[s].creator = table'[t][i].creator
             /\ NoRenames(t)' => loaded'[s].name = table'[t][i].name
  <2>1. CASE s = r
    <3>1. Starts(r)
      BY <1>2, <2>1 DEF Kinds, Ends
    <3>2. /\ call'[r].id \in Live(TableOf(call'[r]))
          /\ loaded'[r] = table[TableOf(call'[r])][call'[r].id]
          /\ table' = table
      BY <1>2, <2>1, <3>1 DEF Starts
    <3>3. QED
      BY <1>2, <2>1, <3>2 DEF Live
  <2>2. CASE s # r
    <3>1. at[s] = "save" /\ call'[s] = call[s] /\ loaded'[s] = loaded[s]
      BY <1>2, <2>2 DEF Kinds, Others
    <3>2. t = TableOf(call[s]) /\ i = call[s].id
      BY <1>2, <3>1
    <3>3. i \in DOMAIN table[t]
      BY <3>1, <3>2 DEF Places
    <3>4. ~loaded[s].deleted /\ loaded[s].creator = table[t][i].creator
          /\ (NoRenames(t) => loaded[s].name = table[t][i].name)
      BY <3>1, <3>2 DEF Loaded
    <3>5. table'[t][i].creator = table[t][i].creator
          /\ (NoRenames(t) => table'[t][i].name = table[t][i].name)
      BY <3>3, RowsKeep
    <3>6. NoRenames(t)' => NoRenames(t)
      BY RenamesStay
    <3>7. QED
      BY <3>1, <3>4, <3>5, <3>6
  <2>3. QED
    BY <2>1, <2>2
<1>3. RecordsTypeOK'
  OBVIOUS
<1>4. ASSUME NEW s \in Callers, at'[s] = "save"
      PROVE  TableOf(call'[s]) \in Tables /\ call'[s].id \in Nat
  BY <1>3, <1>4, PlacesPreserved DEF Places, RecordsTypeOK, TableOf, Tables, Forms
<1>5. QED
  BY <1>1, <1>2, <1>4 DEF Loaded, NoRenames, Renames, Called

-----------------------------------------------------------------------------
(* Updates and deletions *)

\* What a caller about to save has read holds the updates that came before it;
\* a row that was deleted since was deleted by a call that overlaps it, and one
\* that was deleted before has been restored.
Seen ==
  \A s \in Callers : at[s] = "save" =>
    /\ \A u \in past[s] :
         at[u] = "ok" /\ SameRow(u, s) =>
           IF call[u].method = "delete" THEN Restored(u)
           ELSE Field(loaded[s], call[u]) = u \/ Overwritten(u)
    /\ table[TableOf(call[s])][call[s].id].deleted =>
         \E q \in Callers \ {s} : SameRow(q, s) /\ Overlap(q, s)

RowsInv == Base /\ Loaded /\ Seen /\ UpdateKept /\ DeletionKept

\* An update was made as it ends, or was lost to a deletion that overlaps it.
LEMMA OwnUpdateKept ==
  ASSUME RowsInv, NEW r \in Callers, Kinds(r),
         NEW t \in Tables, NEW i \in DOMAIN table[t],
         t = TableOf(call'[r]), i = call'[r].id,
         call'[r].method \in {"info", "avatar", "update"}, at'[r] = "ok"
  PROVE  Field(table'[t][i], call'[r]) = r \/ Overwritten(r)'
<1> USE DEF RowsInv, Base
<1>1. Ends(r) /\ (Saves(r) \/ Loses(r))
  BY DEF Kinds, Starts, Ends, Inserts, Deletes, Fails, Places
<1>2. at[r] = "save" /\ call'[r] = call[r]
  BY <1>1 DEF Ends, Saves, Loses
<1>3. CASE Saves(r)
  <2>1. table'[t][i] = Changed(r)
    BY <1>2, <1>3 DEF Saves, Replaces
  <2>2. QED
    BY <1>2, <2>1, ChangedKeeps DEF Field
<1>4. CASE Loses(r)
  <2>1. table[t][i].deleted
    BY <1>2, <1>4 DEF Loses, Live
  <2>2. PICK q \in Callers \ {r} : SameRow(q, r) /\ Overlap(q, r)
    BY <1>2, <2>1 DEF Seen
  <2>3. Overwritten(r)
    BY <2>2 DEF Overwritten
  <2>4. QED
    BY <1>2, <2>3, ExcusesStay
<1>5. QED
  BY <1>1, <1>3, <1>4

\* The save of another caller overlaps the update, has the same fields, or has
\* read the update.
LEMMA OtherUpdateKept ==
  ASSUME RowsInv, NEW r \in Callers, Kinds(r), NEW u \in Callers \ {r},
         NEW t \in Tables, NEW i \in DOMAIN table[t],
         t = TableOf(call[u]), i = call[u].id,
         call[u].method \in {"info", "avatar", "update"}, at[u] = "ok"
  PROVE  Field(table'[t][i], call[u]) = u \/ Overwritten(u)'
<1> USE DEF RowsInv, Base
<1>1. Overwritten(u) => Overwritten(u)'
  BY ExcusesStay
<1>2. Field(table[t][i], call[u]) = u \/ Overwritten(u)
  BY DEF UpdateKept
<1>3. CASE Saves(r) /\ t = TableOf(call[r]) /\ i = call[r].id
  <2>1. /\ at[r] = "save" /\ table'[t][i] = Changed(r)
        /\ call[r].method \in {"info", "avatar", "update"}
    BY <1>3 DEF Saves, Replaces, Places
  <2>2. SameRow(u, r) /\ SameRow(r, u)
    BY <1>3, <2>1 DEF SameRow
  <2>3. CASE u \notin past[r]
    <3>1. r \notin past[u]
      BY <2>1 DEF Places, Ended
    <3>2. Overwritten(u)
      BY <2>2, <2>3, <3>1 DEF Overwritten, Overlap
    <3>3. QED
      BY <1>1, <3>2
  <2>4. CASE u \in past[r] /\ call[u].method = call[r].method
    <3>1. Overwritten(u)
      BY <2>2, <2>4 DEF Overwritten
    <3>2. QED
      BY <1>1, <3>1
  <2>5. CASE u \in past[r] /\ call[u].method # call[r].method
    <3>1. Field(loaded[r], call[u]) = u \/ Overwritten(u)
      BY <2>1, <2>2, <2>5 DEF Seen
    <3>2. call[u].method = "avatar" <=> call[r].method # "avatar"
      BY <1>3, <2>1, <2>5 DEF TableOf
    <3>3. Field(Changed(r), call[u]) = Field(loaded[r], call[u])
      BY <2>1, <3>2, ChangedKeeps DEF Field
    <3>4. QED
      BY <1>1, <2>1, <3>1, <3>3
  <2>6. QED
    BY <2>3, <2>4, <2>5
<1>4. CASE ~(Saves(r) /\ t = TableOf(call[r]) /\ i = call[r].id)
  <2>1. table[t][i] \in Rows
    BY TablesAreSeqs
  <2>2. /\ table'[t][i].profile = table[t][i].profile
        /\ table'[t][i].picture = table[t][i].picture
    <3>1. CASE Starts(r) \/ Loses(r) \/ Fails(r)
      BY <3>1 DEF Starts, Loses, Fails
    <3>2. CASE Inserts(r)
      BY <3>2 DEF Inserts
    <3>3. CASE Saves(r)
      BY <1>4, <3>3 DEF Saves, Replaces
    <3>4. CASE Deletes(r)
      BY <2>1, <3>4 DEF Deletes, Replaces, Rows
    <3>5. QED
      BY <3>1, <3>2, <3>3, <3>4 DEF Kinds
  <2>3. QED
    BY <1>1, <1>2, <2>2 DEF Field
<1>5. QED
  BY <1>3, <1>4

LEMMA UpdatesPreserved ==
  ASSUME RowsInv, NEW r \in Callers, Kinds(r), Base'
  PROVE  UpdateKept'
<1> USE DEF RowsInv, Base
<1>1. ASSUME NEW u \in Callers, call'[u].method \in {"info", "avatar", "update"}, at'[u] = "ok",
             NEW t \in Tables, NEW i \in Nat, t = TableOf(call'[u]), i = call'[u].id
      PROVE  Field(table'[t][i], call'[u]) = u \/ Overwritten(u)'
  <2>1. CASE u = r
    <3>1. Ends(r)
      BY <1>1, <2>1 DEF Kinds, Starts
    <3>2. call'[r] = call[r] /\ call[r].id \in DOMAIN table[TableOf(call[r])]
      BY <1>1, <2>1, <3>1 DEF Ends, Places
    <3>3. i \in DOMAIN table[t]
      BY <1>1, <2>1, <3>2
    <3>4. QED
      BY <1>1, <2>1, <3>3, OwnUpdateKept
  <2>2. CASE u # r
    <3>1. at[u] = "ok" /\ call'[u] = call[u]
      BY <1>1, <2>2 DEF Kinds, Others
    <3>2. i \in DOMAIN table[t]
      BY <1>1, <3>1 DEF Places
    <3>3. QED
      BY <1>1, <2>2, <3>1, <3>2, OtherUpdateKept
  <2>3. QED
    BY <2>1, <2>2
<1>2. ASSUME NEW u \in Callers, call'[u].method \in {"info", "avatar", "update"}, at'[u] = "ok"
      PROVE  TableOf(call'[u]) \in Tables /\ call'[u].id \in Nat
  BY <1>2 DEF Places, RecordsTypeOK, TableOf, Tables, Forms
<1>3. QED
  BY <1>1, <1>2 DEF UpdateKept

\* The save of another caller overlaps the deletion, or has read what was restored.
LEMMA OtherDeletionKept ==
  ASSUME RowsInv, NEW r \in Callers, Kinds(r), NEW d \in Callers \ {r},
         NEW i \in DOMAIN table["category"],
         call[d].method = "delete", at[d] = "ok", i = call[d].id
  PROVE  table'["category"][i].deleted \/ Restored(d)'
<1> USE DEF RowsInv, Base
<1>1. Restored(d) => Restored(d)'
  BY ExcusesStay
<1>2. table["category"][i].deleted \/ Restored(d)
  BY DEF DeletionKept, Called
<1>3. "category" \in Tables /\ TableOf(call[d]) = "category"
  BY DEF Tables, TableOf
<1>4. CASE Saves(r) /\ "category" = TableOf(call[r]) /\ i = call[r].id
  <2>1. at[r] = "save" /\ call[r].method = "update"
    BY <1>4 DEF Saves, Places, TableOf
  <2>2. SameRow(d, r) /\ SameRow(r, d)
    BY <1>3, <1>4, <2>1 DEF SameRow
  <2>3. CASE d \in past[r]
    <3>1. Restored(d)
      BY <2>1, <2>2, <2>3 DEF Seen
    <3>2. QED
      BY <1>1, <3>1
  <2>4. CASE d \notin past[r]
    <3>1. r \notin past[d]
      BY <2>1 DEF Places, Ended
    <3>2. Restored(d)
      BY <2>1, <2>2, <2>4, <3>1 DEF Restored, Called, Overlap
    <3>3. QED
      BY <1>1, <3>2
  <2>5. QED
    BY <2>3, <2>4
<1>5. CASE ~(Saves(r) /\ "category" = TableOf(call[r]) /\ i = call[r].id)
  <2>1. table["category"][i].deleted => table'["category"][i].deleted
    BY <1>3, <1>5, MarksKeep
  <2>2. QED
    BY <1>1, <1>2, <2>1
<1>6. QED
  BY <1>4, <1>5

LEMMA DeletionsPreserved ==
  ASSUME RowsInv, NEW r \in Callers, Kinds(r), Base'
  PROVE  DeletionKept'
<1> USE DEF RowsInv, Base
<1>1. ASSUME NEW d \in Callers, call'[d].method = "delete", at'[d] = "ok",
             NEW i \in Nat, i = call'[d].id
      PROVE  table'["category"][i].deleted \/ Restored(d)'
  <2>1. CASE d = r
    <3>1. Ends(r) /\ Deletes(r)
      BY <1>1, <2>1 DEF Kinds, Starts, Ends, Inserts, Saves, Loses, Fails, Places
    <3>2. TableOf(call[r]) = "category" /\ "category" \in Tables /\ call[r].id = i
          /\ i \in DOMAIN table["category"]
      BY <1>1, <2>1, <3>1 DEF Ends, Deletes, Places, TableOf, Tables
    <3>3. table["category"][i] \in Rows
      BY <3>2, TablesAreSeqs
    <3>4. table'["category"][i] = [table["category"][i] EXCEPT !.deleted = TRUE]
      BY <3>1, <3>2 DEF Deletes, Replaces
    <3>5. QED
      BY <3>3, <3>4 DEF Rows
  <2>2. CASE d # r
    <3>1. at[d] = "ok" /\ call'[d] = call[d]
      BY <1>1, <2>2 DEF Kinds, Others
    <3>2. i \in DOMAIN table["category"]
      BY <1>1, <3>1 DEF Places, TableOf
    <3>3. QED
      BY <1>1, <2>2, <3>1, <3>2, OtherDeletionKept
  <2>3. QED
    BY <2>1, <2>2
<1>2. ASSUME NEW d \in Callers, call'[d].method = "delete", at'[d] = "ok"
      PROVE  call'[d].id \in Nat
  BY <1>2 DEF Places, RecordsTypeOK, Forms
<1>3. QED
  BY <1>1, <1>2 DEF DeletionKept, Called

\* What r reads as it starts to save.
LEMMA SeenAtStart ==
  ASSUME RowsInv, NEW r \in Callers, Kinds(r), at'[r] = "save",
         NEW t \in Tables, NEW i \in Nat, t = TableOf(call'[r]), i = call'[r].id
  PROVE  /\ ~table'[t][i].deleted
         /\ \A u \in past'[r] :
              at'[u] = "ok" /\ SameRow(u, r)' =>
                IF call'[u].method = "delete" THEN Restored(u)'
                ELSE Field(loaded'[r], call'[u]) = u \/ Overwritten(u)'
<1> USE DEF RowsInv, Base
<1>1. Starts(r)
  BY DEF Kinds, Ends
<1>2. table' = table /\ i \in Live(t) /\ loaded'[r] = table[t][i]
  BY <1>1 DEF Starts
<1>3. ~table[t][i].deleted
  BY <1>2 DEF Live
<1>4. ASSUME NEW u \in past'[r], at'[u] = "ok", SameRow(u, r)'
      PROVE  IF call'[u].method = "delete" THEN Restored(u)'
             ELSE Field(loaded'[r], call'[u]) = u \/ Overwritten(u)'
  <2>1. u \in Callers /\ Ended(u) /\ at[u] # "idle"
    BY <1>1, <1>4 DEF Starts, Ended
  <2>2. at[u] = "ok" /\ call'[u] = call[u]
    BY <1>4, <2>1, CallsStay
  <2>3. /\ call[u].method \in {"info", "avatar", "update", "delete"}
        /\ TableOf(call[u]) = t /\ call[u].id = i
    BY <1>4, <2>2 DEF SameRow, TableOf
  <2>4. CASE call[u].method = "delete"
    <3>1. t = "category"
      BY <2>3, <2>4 DEF TableOf
    <3>2. Restored(u)
      BY <1>3, <2>1, <2>2, <2>3, <2>4, <3>1 DEF DeletionKept, Called
    <3>3. QED
      BY <2>1, <2>2, <2>4, <3>2, ExcusesStay
  <2>5. CASE call[u].method # "delete"
    <3>1. Field(table[t][i], call[u]) = u \/ Overwritten(u)
      BY <2>1, <2>2, <2>3, <2>5 DEF UpdateKept
    <3>2. QED
      BY <1>2, <2>1, <2>2, <2>5, <3>1, ExcusesStay
  <2>6. QED
    BY <2>4, <2>5
<1>5. QED
  BY <1>2, <1>3, <1>4

\* What others have read.
LEMMA SeenByOthers ==
  ASSUME RowsInv, NEW r \in Callers, Kinds(r), NEW s \in Callers \ {r}, at'[s] = "save",
         NEW t \in Tables, NEW i \in Nat, t = TableOf(call'[s]), i = call'[s].id
  PROVE  /\ table'[t][i].deleted => \E q \in Callers \ {s} : SameRow(q, s)' /\ Overlap(q, s)'
         /\ \A u \in past'[s] :
              at'[u] = "ok" /\ SameRow(u, s)' =>
                IF call'[u].method = "delete" THEN Restored(u)'
                ELSE Field(loaded'[s], call'[u]) = u \/ Overwritten(u)'
<1> USE DEF RowsInv, Base
<1>1. /\ at[s] = "save" /\ call'[s] = call[s] /\ loaded'[s] = loaded[s] /\ past'[s] = past[s]
      /\ t = TableOf(call[s]) /\ i = call[s].id
  BY DEF Kinds, Others
<1>2. i \in DOMAIN table[t]
  BY <1>1 DEF Places
<1>3. ASSUME table'[t][i].deleted
      PROVE  \E q \in Callers \ {s} : SameRow(q, s)' /\ Overlap(q, s)'
  <2>1. CASE table[t][i].deleted
    <3>1. PICK q \in Callers \ {s} : SameRow(q, s) /\ Overlap(q, s)
      BY <1>1, <2>1 DEF Seen
    <3>2. SameRow(q, s)' /\ Overlap(q, s)'
      BY <1>1, <3>1, PairsStay
    <3>3. QED
      BY <3>1, <3>2
  <2>2. CASE ~table[t][i].deleted
    <3>1. Deletes(r) /\ t = TableOf(call[r]) /\ i = call[r].id
      BY <1>2, <1>3, <2>2, MarksKeep
    <3>2. at[r] = "delete" /\ call[r].method = "delete"
      BY <3>1 DEF Deletes, Places
    <3>3. SameRow(r, s)
      BY <1>1, <3>1, <3>2 DEF SameRow
    <3>4. Overlap(r, s)
      BY <1>1, <3>2 DEF Overlap, Places, Ended
    <3>5. SameRow(r, s)' /\ Overlap(r, s)'
      BY <1>1, <3>2, <3>3, <3>4, PairsStay
    <3>6. QED
      BY <3>5
  <2>3. QED
    BY <2>1, <2>2
<1>4. ASSUME NEW u \in past'[s], at'[u] = "ok", SameRow(u, s)'
      PROVE  IF call'[u].method = "delete" THEN Restored(u)'
             ELSE Field(loaded'[s], call'[u]) = u \/ Overwritten(u)'
  <2>1. u \in past[s] /\ u \in Callers /\ Ended(u) /\ at[u] # "idle"
    BY <1>1, <1>4 DEF Places, Ended, RecordsTypeOK
  <2>2. at[u] = "ok" /\ call'[u] = call[u]
    BY <1>4, <2>1, CallsStay
  <2>3. SameRow(u, s)
    BY <1>1, <1>4, <2>2 DEF SameRow, TableOf
  <2>4. IF call[u].method = "delete" THEN Restored(u)
        ELSE Field(loaded[s], call[u]) = u \/ Overwritten(u)
    BY <1>1, <2>1, <2>2, <2>3 DEF Seen
  <2>5. QED
    BY <1>1, <2>1, <2>2, <2>4, ExcusesStay
<1>5. QED
  BY <1>3, <1>4

LEMMA SeenPreserved ==
  ASSUME RowsInv, NEW r \in Callers, Kinds(r), Base'
  PROVE  Seen'
<1> USE DEF RowsInv, Base
<1>1. ASSUME NEW s \in Callers, at'[s] = "save",
             NEW t \in Tables, NEW i \in Nat, t = TableOf(call'[s]), i = call'[s].id
      PROVE  /\ table'[t][i].deleted => \E q \in Callers \ {s} : SameRow(q, s)' /\ Overlap(q, s)'
             /\ \A u \in past'[s] :
                  at'[u] = "ok" /\ SameRow(u, s)' =>
                    IF call'[u].method = "delete" THEN Restored(u)'
                    ELSE Field(loaded'[s], call'[u]) = u \/ Overwritten(u)'
  BY <1>1, SeenAtStart, SeenByOthers
<1>2. ASSUME NEW s \in Callers, at'[s] = "save"
      PROVE  TableOf(call'[s]) \in Tables /\ call'[s].id \in Nat
  BY <1>2 DEF Places, RecordsTypeOK, TableOf, Tables, Forms
<1>3. QED
  BY <1>1, <1>2 DEF Seen

-----------------------------------------------------------------------------
(* Names *)

\* A row was added by a call that succeeded, with its name unless it can be
\* renamed, and every registration that succeeded has added one.
Added ==
  /\ \A t \in Tables : \A i \in DOMAIN table[t] :
       LET c == table[t][i].creator
       IN  /\ c \in Callers /\ at[c] = "ok"
           /\ call[c].method \in {"register", "add"} /\ TableOf(call[c]) = t
           /\ NoRenames(t) => table[t][i].name = call[c].name
  /\ \A c \in Callers :
       at[c] = "ok" /\ Called(c, "register") =>
         \E i \in DOMAIN table["account"] : table["account"][i].creator = c

\* A name that was new for a caller is that of no row added before.
Unseen ==
  \A r \in Callers : \A t \in Tables :
    at[r] = "create" /\ r \notin blind /\ t = TableOf(call[r]) /\ NoRenames(t) =>
      \A i \in Live(t) : table[t][i].creator \in past[r] =>
        call[r].name # Blank /\ table[t][i].name # call[r].name

\* A row has another name than those before it, or was added by a call that
\* overlaps the one that added the other.
Serial ==
  \A t \in Tables : NoRenames(t) =>
    \A i, j \in DOMAIN table[t] :
      i < j /\ i \in Live(t) =>
        \/ Overlap(table[t][i].creator, table[t][j].creator)
        \/ table[t][j].creator \in blind
        \/ table[t][j].name # Blank /\ table[t][i].name # table[t][j].name

NamesInv == Base /\ Loaded /\ Added /\ Unseen /\ Serial

\* A row that is new was inserted.
LEMMA NewRow ==
  ASSUME Base, NEW r \in Callers, Kinds(r), NEW t \in Tables,
         NEW i \in DOMAIN table'[t], i \notin DOMAIN table[t]
  PROVE  /\ at[r] = "create" /\ at'[r] = "ok" /\ call'[r] = call[r] /\ t = TableOf(call[r])
         /\ i = Len(table[t]) + 1
         /\ table'[t][i].name = call[r].name /\ table'[t][i].creator = r
         /\ past'[r] = past[r] /\ blind' = blind
<1>1. Ends(r) /\ Inserts(r) /\ t = TableOf(call[r])
  BY DEF Kinds, Starts, Inserts, Saves, Deletes, Replaces, Loses, Fails
<1>2. i = Len(table[t]) + 1
  BY <1>1 DEF Inserts
<1>3. table'[t][i] = [NoRow EXCEPT !.name = call[r].name, !.creator = r]
  BY <1>1, <1>2 DEF Inserts
<1>4. QED
  BY <1>1, <1>2, <1>3 DEF Ends, Inserts, NoRow

\* Without renamings no row comes back.
LEMMA LiveShrinks ==
  ASSUME Base, Loaded, NEW r \in Callers, Kinds(r), NEW t \in Tables, NoRenames(t),
         NEW i \in DOMAIN table[t], ~table'[t][i].deleted
  PROVE  i \in Live(t)
<1>1. CASE Saves(r) /\ t = TableOf(call[r]) /\ i = call[r].id
  <2>1. call[r].method = "avatar"
    BY <1>1, ChangedKeeps DEF Saves
  <2>2. t = "account"
    BY <1>1, <2>1 DEF TableOf
  <2>3. QED
    BY <2>2 DEF Loaded, Live
<1>2. CASE ~(Saves(r) /\ t = TableOf(call[r]) /\ i = call[r].id)
  BY <1>2, MarksKeep DEF Live
<1>3. QED
  BY <1>1, <1>2

LEMMA AddedPreserved ==
  ASSUME NamesInv, NEW r \in Callers, Kinds(r), Base'
  PROVE  Added'
<1> USE DEF NamesInv
<1>1. ASSUME NEW t \in Tables, NEW i \in DOMAIN table'[t], NEW c, c = table'[t][i].creator
      PROVE  /\ c \in Callers /\ at'[c] = "ok"
             /\ call'[c].method \in {"register", "add"} /\ TableOf(call'[c]) = t
             /\ NoRenames(t)' => table'[t][i].name = call'[c].name
  <2>1. CASE i \in DOMAIN table[t]
    <3>1. c = table[t][i].creator /\ (NoRenames(t) => table'[t][i].name = table[t][i].name)
      BY <1>1, <2>1, RowsKeep
    <3>2. /\ c \in Callers /\ at[c] = "ok"
          /\ call[c].method \in {"register", "add"} /\ TableOf(call[c]) = t
          /\ NoRenames(t) => table[t][i].name = call[c].name
      BY <2>1, <3>1 DEF Added
    <3>3. at'[c] = at[c] /\ call'[c] = call[c]
      BY <3>2, CallsStay DEF Ended
    <3>4. NoRenames(t)' => NoRenames(t)
      BY RenamesStay
    <3>5. QED
      BY <3>1, <3>2, <3>3, <3>4
  <2>2. CASE i \notin DOMAIN table[t]
    <3>1. /\ at[r] = "create" /\ at'[r] = "ok" /\ call'[r] = call[r] /\ t = TableOf(call[r])
          /\ table'[t][i].name = call[r].name /\ c = r
      BY <1>1, <2>2, NewRow
    <3>2. call[r].method \in {"register", "add"}
      BY <3>1 DEF Base, Places
    <3>3. QED
      BY <3>1, <3>2
  <2>3. QED
    BY <2>1, <2>2
<1>2. ASSUME NEW c \in Callers, at'[c] = "ok", call'[c].method = "register"
      PROVE  \E i \in DOMAIN table'["account"] : table'["account"][i].creator = c
  <2>1. "account" \in Tables
    BY DEF Tables
  <2>2. CASE at[c] = "ok"
    <3>1. call[c].method = "register"
      BY <1>2, <2>2, CallsStay
    <3>2. PICK i \in DOMAIN table["account"] : table["account"][i].creator = c
      BY <2>2, <3>1 DEF Added, Called
    <3>3. i \in DOMAIN table'["account"] /\ table'["account"][i].creator = c
      BY <2>1, <3>2, RowsStay, RowsKeep
    <3>4. QED
      BY <3>3
  <2>3. CASE at[c] # "ok"
    <3>1. c = r /\ Ends(r)
      BY <1>2, <2>3 DEF Kinds, Others, Starts
    <3>2. call[r].method = "register" /\ TableOf(call[r]) = "account"
      BY <1>2, <3>1 DEF Ends, TableOf
    <3>3. Inserts(r)
      BY <1>2, <3>1, <3>2 DEF Kinds, Starts, Ends, Saves, Deletes, Loses, Fails, Base, Places
    <3> DEFINE i == Len(table["account"]) + 1
    <3>4. i \in DOMAIN table'["account"]
          /\ table'["account"][i] = [NoRow EXCEPT !.name = call[r].name, !.creator = r]
      BY <3>2, <3>3 DEF Inserts
    <3>5. table'["account"][i].creator = c
      BY <3>1, <3>4 DEF NoRow
    <3>6. QED
      BY <3>4, <3>5
  <2>4. QED
    BY <2>2, <2>3
<1>3. QED
  BY <1>1, <1>2 DEF Added, Called

LEMMA UnseenPreserved ==
  ASSUME NamesInv, NEW r \in Callers, Kinds(r), Base'
  PROVE  Unseen'
<1> USE DEF NamesInv
<1>1. ASSUME NEW s \in Callers, NEW t \in Tables, at'[s] = "create", s \notin blind',
             t = TableOf(call'[s]), NoRenames(t)', NEW i \in DOMAIN table'[t],
             ~table'[t][i].deleted, table'[t][i].creator \in past'[s]
      PROVE  call'[s].name # Blank /\ table'[t][i].name # call'[s].name
  <2>1. NoRenames(t)
    BY <1>1, RenamesStay
  <2>2. CASE s = r
    <3>1. Starts(r)
      BY <1>1, <2>2 DEF Kinds, Ends
    <3>2. table' = table /\ Named(t, call'[r].name) = {}
      BY <1>1, <2>2, <3>1 DEF Starts
    <3>3. i \in Live(t)
      BY <1>1, <3>2 DEF Live
    <3>4. QED
      BY <2>2, <3>2, <3>3 DEF Named
  <2>3. CASE s # r
    <3>1. /\ at[s] = "create" /\ call'[s] = call[s] /\ past'[s] = past[s]
          /\ s \notin blind /\ t = TableOf(call[s])
      BY <1>1, <2>3 DEF Kinds, Others
    <3>2. CASE i \in DOMAIN table[t]
      <4>1. i \in Live(t)
        BY <1>1, <2>1, <3>2, LiveShrinks
      <4>2. table'[t][i].creator = table[t][i].creator /\ table'[t][i].name = table[t][i].name
        BY <2>1, <3>2, RowsKeep
      <4>3. QED
        BY <1>1, <2>1, <3>1, <4>1, <4>2 DEF Unseen
    <3>3. CASE i \notin DOMAIN table[t]
      <4>1. at[r] = "create" /\ r \in past[s]
        BY <1>1, <3>1, <3>3, NewRow
      <4>2. QED
        BY <4>1 DEF Base, Places, Ended
    <3>4. QED
      BY <3>2, <3>3
  <2>4. QED
    BY <2>2, <2>3
<1>2. QED
  BY <1>1 DEF Unseen, Live

LEMMA SerialPreserved ==
  ASSUME NamesInv, NEW r \in Callers, Kinds(r), Base'
  PROVE  Serial'
<1> USE DEF NamesInv
<1>1. ASSUME NEW t \in Tables, NoRenames(t)', NEW i \in DOMAIN table'[t], NEW j \in DOMAIN table'[t],
             i < j, ~table'[t][i].deleted,
             NEW c, NEW d, c = table'[t][i].creator, d = table'[t][j].creator
      PROVE  \/ Overlap(c, d)'
             \/ d \in blind'
             \/ table'[t][j].name # Blank /\ table'[t][i].name # table'[t][j].name
  <2>1. NoRenames(t)
    BY <1>1, RenamesStay
  <2>2. /\ table[t] \in Seq(Rows) /\ Len(table[t]) \in Nat
        /\ DOMAIN table[t] = 1 .. Len(table[t]) /\ DOMAIN table'[t] \subseteq Nat
    <3>1. table'[t] \in Seq(Rows)
      BY DEF Base, RecordsTypeOK
    <3>2. QED
      BY <3>1, TablesAreSeqs DEF Base
  <2>3. i \in DOMAIN table[t]
    <3>1. i \notin DOMAIN table[t] => i = Len(table[t]) + 1
      BY NewRow
    <3>2. j \notin DOMAIN table[t] => j = Len(table[t]) + 1
      BY NewRow
    <3>3. QED
      BY <1>1, <2>2, <3>1, <3>2
  <2>4. /\ i \in Live(t)
        /\ c = table[t][i].creator /\ table'[t][i].name = table[t][i].name
    BY <1>1, <2>1, <2>3, LiveShrinks, RowsKeep
  <2>5. c \in Callers /\ at[c] = "ok"
    BY <2>3, <2>4 DEF Added
  <2>6. CASE j \in DOMAIN table[t]
    <3>1. d = table[t][j].creator /\ table'[t][j].name = table[t][j].name
      BY <1>1, <2>1, <2>6, RowsKeep
    <3>2. d \in Callers /\ at[d] = "ok"
      BY <2>6, <3>1 DEF Added
    <3>3. \/ Overlap(c, d)
          \/ d \in blind
          \/ table[t][j].name # Blank /\ table[t][i].name # table[t][j].name
      BY <1>1, <2>1, <2>3, <2>4, <2>6, <3>1 DEF Serial
    <3>4. Overlap(c, d) => Overlap(c, d)'
      BY <2>5, <3>2, PairsStay
    <3>5. blind \subseteq blind'
      BY DEF Kinds, Others
    <3>6. QED
      BY <2>4, <3>1, <3>3, <3>4, <3>5
  <2>7. CASE j \notin DOMAIN table[t]
    <3>1. /\ at[r] = "create" /\ t = TableOf(call[r]) /\ d = r
          /\ table'[t][j].name = call[r].name /\ blind' = blind
      BY <1>1, <2>7, NewRow
    <3>2. CASE r \notin blind /\ c \in past[r]
      BY <2>1, <2>4, <3>1, <3>2 DEF Unseen
    <3>3. CASE c \notin past[r]
      <4>1. Overlap(c, r)
        BY <2>5, <3>1, <3>3 DEF Overlap, Base, Places, Ended
      <4>2. Overlap(c, r)'
        BY <2>5, <3>1, <4>1, PairsStay
      <4>3. QED
        BY <3>1, <4>2
    <3>4. QED
      BY <3>1, <3>2, <3>3
  <2>8. QED
    BY <2>6, <2>7
<1>2. QED
  BY <1>1 DEF Serial, Live, Overlap

-----------------------------------------------------------------------------
(* Logging in *)

\* The first of some rows.
LEMMA MinOfRows ==
  ASSUME NEW named \in SUBSET Nat, named # {}
  PROVE  Min(named) \in named /\ \A i \in named : Min(named) <= i
<1>1. PICK m \in named : \A i \in named : ~(<<i, m>> \in OpToRel(<, Nat))
  BY NatLessThanWellFounded, WFMin
<1>2. ASSUME NEW i \in named, i < m PROVE FALSE
  <2>1. <<i, m>> \in Nat \X Nat /\ <<i, m>>[1] < <<i, m>>[2]
    BY <1>2
  <2>2. <<i, m>> \in OpToRel(<, Nat)
    BY <2>1, Zenon DEF OpToRel
  <2>3. QED
    BY <1>1, <2>2
<1>3. \A i \in named : m <= i
  BY <1>2
<1>4. QED
  BY <1>3 DEF Min

\* The password of a user who has registered is that of the first row of the
\* name, unless another registration of the name overlapped his own.
LEMMA LoginWorks ==
  ASSUME NamesInv, NEW r \in Callers, call[r].method = "register", at[r] = "ok",
         r \notin blind, NoRenames("account"),
         NEW c, c.name = call[r].name, c.secret = r, ~PasswordVerified(c)
  PROVE  \E q \in Callers \ {r} : call[q].method = "register" /\ Overlap(q, r)
<1> USE DEF NamesInv
<1> DEFINE named == Named("account", c.name)
           m == Min(named)
<1>1. "account" \in Tables
  BY DEF Tables
<1>2. PICK i \in DOMAIN table["account"] : table["account"][i].creator = r
  BY DEF Added, Called
<1>3. table["account"][i].name = c.name
  BY <1>1, <1>2 DEF Added
<1>4. i \in named
  BY <1>2, <1>3 DEF Named, Live, Loaded
<1>5. named \in SUBSET Nat
  BY <1>1, TablesAreSeqs DEF Base, Named, Live
<1>6. m \in named /\ m <= i
  BY <1>4, <1>5, MinOfRows
<1>7. table["account"][m].creator # r
  BY <1>4 DEF PasswordVerified
<1>8. PICK k \in named : k = m
  BY <1>6
<1> HIDE DEF m
<1>9. k \in DOMAIN table["account"] /\ k \in Live("account")
  BY DEF Named, Live
<1>10. k < i
  BY <1>2, <1>4, <1>5, <1>6, <1>7, <1>8
<1>11. c.name # Blank => table["account"][k].name = c.name
  BY <1>8 DEF Named
<1>12. Overlap(table["account"][k].creator, r)
  BY <1>1, <1>2, <1>3, <1>9, <1>10, <1>11 DEF Serial
<1>13. PICK q \in Callers : /\ q = table["account"][k].creator
                            /\ call[q].method \in {"register", "add"}
                            /\ TableOf(call[q]) = "account"
  BY <1>1, <1>9 DEF Added
<1>14. QED
  BY <1>7, <1>8, <1>12, <1>13 DEF TableOf

LEMMA LoginsPreserved ==
  ASSUME NamesInv, RegisteredCanLogIn, NEW s \in Callers, Kinds(s), Base'
  PROVE  RegisteredCanLogIn'
<1> USE DEF NamesInv
<1>1. ASSUME NEW r \in Callers, NEW l \in Callers,
             call'[r].method = "register", at'[r] = "ok",
             call'[l].method = "login", at'[l] = "refused",
             call'[l].name = call'[r].name, call'[l].secret = r, r \in past'[l],
             r \notin blind'
      PROVE  \E q \in Callers \ {r} :
               \/ call'[q].method = "info" /\ l \notin past'[q]
               \/ call'[q].method = "register" /\ Overlap(q, r)'
  <2>1. r \notin blind
    BY <1>1 DEF Kinds, Others
  <2>2. CASE at[l] # "idle"
    <3>1. /\ call'[l] = call[l] /\ past'[l] = past[l] /\ at[l] = "refused"
      <4>1. call'[l] = call[l] /\ past'[l] = past[l]
        BY <2>2, CallsStay
      <4>2. l = s => ~Starts(s) /\ ~Ends(s)
        BY <1>1, <2>2 DEF Starts, Ends
      <4>3. l # s => at'[l] = at[l]
        BY DEF Kinds, Others
      <4>4. QED
        BY <1>1, <4>1, <4>2, <4>3 DEF Kinds
    <3>2. Ended(r) /\ at[r] # "idle"
      BY <1>1, <3>1 DEF Base, Places, Ended
    <3>3. call'[r] = call[r] /\ at[r] = "ok"
      BY <1>1, <3>2, CallsStay
    <3>4. PICK q \in Callers \ {r} :
            \/ call[q].method = "info" /\ l \notin past[q]
            \/ call[q].method = "register" /\ Overlap(q, r)
      BY <1>1, <2>1, <3>1, <3>3 DEF RegisteredCanLogIn, Called
    <3>5. at[q] # "idle"
      BY <3>4 DEF Base, Places, NoCall
    <3>6. call'[q] = call[q] /\ past'[q] = past[q] /\ (Overlap(q, r) => Overlap(q, r)')
      BY <3>2, <3>5, CallsStay, PairsStay
    <3>7. QED
      BY <3>4, <3>6
  <2>3. CASE at[l] = "idle"
    <3>1. l = s /\ Starts(s)
      BY <1>1, <2>3 DEF Kinds, Others, Ends
    <3>2. /\ ~PasswordVerified(call'[l]) /\ Ended(r)
      BY <1>1, <3>1 DEF Starts
    <3>3. at[r] # "idle" /\ call'[r] = call[r] /\ at[r] = "ok"
      BY <1>1, <3>2, CallsStay DEF Ended
    <3>4. CASE NoRenames("account")
      <4>1. PICK q \in Callers \ {r} : call[q].method = "register" /\ Overlap(q, r)
        BY <1>1, <2>1, <3>2, <3>3, <3>4, LoginWorks
      <4>2. at[q] # "idle"
        BY <4>1 DEF Base, Places, NoCall
      <4>3. call'[q] = call[q] /\ Overlap(q, r)'
        BY <3>3, <4>1, <4>2, CallsStay, PairsStay
      <4>4. QED
        BY <4>1, <4>3
    <3>5. CASE ~NoRenames("account")
      <4>1. PICK q \in Callers : call[q].method = "info"
        BY <3>5 DEF NoRenames, Renames, Called
      <4>2. at[q] # "idle" /\ q # r
        BY <1>1, <3>3, <4>1 DEF Base, Places, NoCall
      <4>3. call'[q] = call[q] /\ past'[q] = past[q]
        BY <4>2, CallsStay
      <4>4. l \notin past[q]
        BY <2>3 DEF Base, Places, Ended
      <4>5. QED
        BY <4>1, <4>2, <4>3, <4>4
    <3>6. QED
      BY <3>4, <3>5
  <2>4. QED
    BY <2>2, <2>3
<1>2. QED
  BY <1>1 DEF RegisteredCanLogIn, Called, Overlap

-----------------------------------------------------------------------------
(* The invariant and its consequences *)

RecordsInv == RowsInv /\ NamesInv /\ RegisteredCanLogIn

\* No call is made and no row is there.
LEMMA InitRecordsInv == RecordsInit => RecordsInv
<1> SUFFICES ASSUME RecordsInit PROVE RecordsInv
  OBVIOUS
<1>1. Base
  BY InitBase
<1>2. /\ \A r \in Callers : at[r] = "idle" /\ call[r].method = "none"
      /\ \A t \in Tables : table[t] = <<>>
      /\ "account" \in Tables
  BY DEF RecordsInit, NoCall, Tables
<1>3. \A t \in Tables : DOMAIN table[t] = {}
  BY <1>2
<1>4. Loaded /\ Seen
  BY <1>2, <1>3 DEF Loaded, Seen
<1>5. UpdateKept /\ DeletionKept /\ RegisteredCanLogIn
  BY <1>2 DEF UpdateKept, DeletionKept, RegisteredCanLogIn
<1>6. Added /\ Unseen /\ Serial
  BY <1>2, <1>3 DEF Added, Unseen, Serial
<1>7. QED
  BY <1>1, <1>4, <1>5, <1>6 DEF RecordsInv, RowsInv, NamesInv

\* Nothing is said of anything but the variables.
LEMMA Unchanged == RecordsInv /\ UNCHANGED recordsVars => RecordsInv'
<1> SUFFICES ASSUME RecordsInv, UNCHANGED recordsVars PROVE RecordsInv'
  OBVIOUS
<1>1. /\ at' = at /\ call' = call /\ loaded' = loaded
      /\ table' = table /\ blind' = blind /\ past' = past
  BY DEF recordsVars
<1>2. RecordsTypeOK' = RecordsTypeOK
  BY <1>1 DEF RecordsTypeOK
<1>3. Places' = Places
  BY <1>1 DEF Places, Ended, TableOf
<1>4. \A t \in Tables : NoRenames(t)' = NoRenames(t) /\ Live(t)' = Live(t)
  BY <1>1 DEF NoRenames, Renames, Called, Live
<1>5. \A q, r \in Callers : Overlap(q, r)' = Overlap(q, r) /\ SameRow(q, r)' = SameRow(q, r)
  BY <1>1 DEF Overlap, SameRow, TableOf
<1>6. \A r \in Callers : Overwritten(r)' = Overwritten(r) /\ Restored(r)' = Restored(r)
  BY <1>1, <1>5 DEF Overwritten, Restored, Called
<1>7. Loaded'
  <2>1. Loaded /\ RecordsTypeOK
    BY DEF RecordsInv, RowsInv, Base
  <2>2. \A r \in Callers : TableOf(call[r]) \in Tables
    BY <2>1, TablesAreSeqs
  <2>3. QED
    BY <1>1, <1>4, <2>1, <2>2 DEF Loaded, TableOf
<1>8. Seen'
  BY <1>1, <1>5, <1>6 DEF RecordsInv, RowsInv, Base, RecordsTypeOK, Seen, TableOf, Field
<1>9. UpdateKept' /\ DeletionKept'
  BY <1>1, <1>6 DEF RecordsInv, RowsInv, UpdateKept, DeletionKept, Called, TableOf, Field
<1>10. Added'
  BY <1>1, <1>4 DEF RecordsInv, NamesInv, Added, Called, TableOf
<1>11. Unseen'
  BY <1>1, <1>4 DEF RecordsInv, NamesInv, Unseen, TableOf
<1>12. Serial'
  <2>1. Serial /\ Added
    BY DEF RecordsInv, NamesInv
  <2>2. ASSUME NEW c, NEW d PROVE Overlap(c, d)' = Overlap(c, d)
    BY <1>1 DEF Overlap
  <2>3. QED
    BY <1>1, <1>4, <2>1, <2>2 DEF Serial, Overlap
<1>13. RegisteredCanLogIn'
  BY <1>1, <1>5 DEF RecordsInv, RegisteredCanLogIn, Called
<1>14. QED
  BY <1>2, <1>3, <1>7, <1>8, <1>9, <1>10, <1>11, <1>12, <1>13
     DEF RecordsInv, RowsInv, NamesInv, Base

LEMMA StepRecordsInv == RecordsInv /\ [RecordsNext]_recordsVars => RecordsInv'
<1> SUFFICES ASSUME RecordsInv, [RecordsNext]_recordsVars PROVE RecordsInv'
  OBVIOUS
<1>1. ASSUME NEW r \in Callers, RecordsStep(r) PROVE RecordsInv'
  <2>1. RowsInv /\ NamesInv /\ RegisteredCanLogIn /\ Base /\ Loaded
    BY DEF RecordsInv, RowsInv
  <2>2. Kinds(r)
    BY <1>1, <2>1, StepKinds
  <2>3. RecordsTypeOK'
    BY <1>1, <2>1, TypePreserved
  <2>4. Places'
    BY <2>1, <2>2, PlacesPreserved
  <2>5. Base'
    BY <2>3, <2>4 DEF Base
  <2>6. Loaded'
    BY <2>1, <2>2, <2>3, LoadedPreserved
  <2>7. Seen' /\ UpdateKept' /\ DeletionKept'
    BY <2>1, <2>2, <2>5, SeenPreserved, UpdatesPreserved, DeletionsPreserved
  <2>8. Added' /\ Unseen' /\ Serial'
    BY <2>1, <2>2, <2>5, AddedPreserved, UnseenPreserved, SerialPreserved
  <2>9. RegisteredCanLogIn'
    BY <2>1, <2>2, <2>5, LoginsPreserved
  <2>10. QED
    BY <2>5, <2>6, <2>7, <2>8, <2>9 DEF RecordsInv, RowsInv, NamesInv
<1>2. QED
  BY <1>1, Unchanged DEF RecordsNext

\* The inductive invariant of accounts and categories: what a caller between its
\* query and its write has read is still true, but for calls that overlap its own.
THEOREM RecordsInvariance == RecordsSpec => []RecordsInv
BY InitRecordsInv, StepRecordsInv, PTL DEF RecordsSpec

\* Variables have their types: a write finds the row its query has found.
THEOREM RecordsTypeCorrect == RecordsSpec => []RecordsTypeOK
<1>1. RecordsInv => RecordsTypeOK
  BY DEF RecordsInv, RowsInv, Base
<1>2. QED
  BY <1>1, RecordsInvariance, PTL

\* UserInfoUpdate, UserAvatarUpdate and ArticleCategoryUpdate: an update stays until
\* another one overlaps it or comes after it, or a deletion overlaps it.
THEOREM UpdatesKept == RecordsSpec => []UpdateKept
<1>1. RecordsInv => UpdateKept
  BY DEF RecordsInv, RowsInv
<1>2. QED
  BY <1>1, RecordsInvariance, PTL

\* ArticleCategoryDelete: a category stays deleted, unless an update overlaps the
\* deletion.
THEOREM DeletionsKept == RecordsSpec => []DeletionKept
<1>1. RecordsInv => DeletionKept
  BY DEF RecordsInv, RowsInv
<1>2. QED
  BY <1>1, RecordsInvariance, PTL

\* UserRegister and ArticleCategoryAdd: two rows have one name only if the calls
\* that added them overlap, a query failed or a row may have been renamed.
THEOREM NamesSerial == RecordsSpec => []SerialNamesUnique
<1>1. ASSUME Serial, NEW t \in Tables, NEW i \in Live(t), NEW j \in Live(t),
             i < j, table[t][i].name = table[t][j].name
      PROVE  \/ Overlap(table[t][i].creator, table[t][j].creator)
             \/ table[t][j].creator \in blind
             \/ \E q \in Callers : Renames(q, t)
  <2>1. i \in DOMAIN table[t] /\ j \in DOMAIN table[t]
    BY DEF Live
  <2>2. QED
    BY <1>1, <2>1 DEF Serial, NoRenames
<1>2. RecordsInv => SerialNamesUnique
  BY <1>1 DEF RecordsInv, NamesInv, SerialNamesUnique
<1>3. QED
  BY <1>2, RecordsInvariance, PTL

\* UserLogin: a user who has registered can log in, unless another registration of
\* the name overlapped his own, its query failed, or a user was renamed before.
THEOREM RegisteredLogIn == RecordsSpec => []RegisteredCanLogIn
<1>1. RecordsInv => RegisteredCanLogIn
  BY DEF RecordsInv
<1>2. QED
  BY <1>1, RecordsInvariance, PTL

-----------------------------------------------------------------------------
(* Articles *)

\* A request between its query and the insertion that nobody has overtaken.
Holder(r) == r \in Adding /\ r \notin overtaken

Excused(r) == r \in unsure \cup overtaken

\* The lock lives as long as the time since the holder took it allows.
LockLives == \A r \in Requests : Holder(r) => lock + held[r] = LockTTL

\* There is one holder at most.
Exclusive == \A q, r \in Requests : Holder(q) /\ Holder(r) => q = r

\* What the query has found still holds, but for articles inserted late or blindly.
StillNew ==
  \A r \in Requests :
    pc[r] = "create" /\ ~Excused(r) =>
      \A q \in rows : TitleOf[q] # TitleOf[r] \/ Excused(q)

\* A message is sent before the article is added and consumed after its delay.
MessageInv ==
  \A r \in Requests :
    /\ pc[r] \in {"new", "send"} => message[r] = "none"
    /\ message[r] = "consumed" => age[r] = Delay
    /\ r \in missed => message[r] = "consumed"

\* When the message has been consumed, the article it was for is in the database
\* only if it was inserted afterwards.
ConsumedIsRemoved ==
  \A r \in Requests : r \in rows /\ message[r] = "consumed" => r \in missed

ArticlesInv ==
  /\ TypeOK
  /\ LockLives
  /\ Exclusive
  /\ StillNew
  /\ TitlesUnique
  /\ MessageInv
  /\ ConsumedIsRemoved

USE ArticlesAssumption DEF ArticlesAssumption

-----------------------------------------------------------------------------
\* The initial states satisfy the invariant.
LEMMA InitArticlesInv == Init => ArticlesInv
<1> SUFFICES ASSUME Init PROVE ArticlesInv
  OBVIOUS
<1> USE DEF Init
<1>1. TypeOK
  BY DEF TypeOK
<1>2. LockLives /\ Exclusive /\ StillNew /\ TitlesUnique
  BY DEF LockLives, Exclusive, StillNew, TitlesUnique, Holder, Adding
<1>3. MessageInv /\ ConsumedIsRemoved
  BY DEF MessageInv, ConsumedIsRemoved
<1>4. QED
  BY <1>1, <1>2, <1>3 DEF ArticlesInv

\* Every step keeps the types.
LEMMA NextTypeOK == TypeOK /\ [Next]_vars => TypeOK'
<1> SUFFICES ASSUME TypeOK, [Next]_vars PROVE TypeOK'
  OBVIOUS
<1> USE DEF TypeOK, Goto
<1>1. ASSUME NEW r \in Requests, Submit(r) PROVE TypeOK'
  BY <1>1 DEF Submit
<1>2. ASSUME NEW r \in Requests, Send(r) PROVE TypeOK'
  BY <1>2 DEF Send, ProducerFails, SendMessage, SendFails
<1>3. ASSUME NEW r \in Requests, CallFails(r) PROVE TypeOK'
  BY <1>3 DEF CallFails
<1>4. ASSUME NEW r \in Requests, ArticleAdd(r) PROVE TypeOK'
  <2>1. CASE Lock(r)
    BY <2>1 DEF Lock, Adding
  <2>2. CASE LockBusy(r) \/ TitleExists(r) \/ TitleIsNew(r) \/ TitleIsUnknown(r) \/ Create(r)
    BY <2>2 DEF LockBusy, TitleExists, TitleIsNew, TitleIsUnknown, Create
  <2>3. QED
    BY <1>4, <2>1, <2>2 DEF ArticleAdd
<1>5. ASSUME NEW r \in Requests, Consume(r) \/ ConsumeFails(r) PROVE TypeOK'
  BY <1>5 DEF Consume, ConsumeFails
<1>6. CASE Tick
  <2>1. \A t \in 0 .. LockTTL : Elapse(t, LockTTL) \in 0 .. LockTTL
    BY DEF Elapse
  <2>2. \A t \in 0 .. Delay : Elapse(t, Delay) \in 0 .. Delay
    BY DEF Elapse
  <2>3. held' \in [Requests -> 0 .. LockTTL] /\ age' \in [Requests -> 0 .. Delay]
    BY <1>6, <2>1, <2>2 DEF Tick
  <2>4. lock' \in 0 .. LockTTL
    BY <1>6 DEF Tick
  <2>5. QED
    BY <1>6, <2>3, <2>4 DEF Tick
<1>7. CASE UNCHANGED vars
  BY <1>7 DEF vars
<1>8. QED
  BY <1>1, <1>2, <1>3, <1>4, <1>5, <1>6, <1>7 DEF Next

\* Lock and histories fit together: whoever takes the lock overtakes all who still
\* hold it.
LEMMA NextLock ==
  ASSUME TypeOK, LockLives, Exclusive, [Next]_vars
  PROVE  LockLives' /\ Exclusive'
<1> USE DEF TypeOK, Goto, LockLives, Exclusive, Holder, Adding
<1>1. ASSUME NEW r \in Requests, Submit(r) PROVE LockLives' /\ Exclusive'
  BY <1>1 DEF Submit
<1>2. ASSUME NEW r \in Requests, Send(r) PROVE LockLives' /\ Exclusive'
  BY <1>2 DEF Send, ProducerFails, SendMessage, SendFails
<1>3. ASSUME NEW r \in Requests, CallFails(r) \/ LockBusy(r) \/ TitleExists(r)
      PROVE  LockLives' /\ Exclusive'
  BY <1>3 DEF CallFails, LockBusy, TitleExists
<1>4. ASSUME NEW r \in Requests, Lock(r) PROVE LockLives' /\ Exclusive'
  <2>1. ASSUME NEW q \in Requests, q # r PROVE ~Holder(q)'
    <3>1. CASE Holder(q)
      BY <1>4, <2>1, <3>1 DEF Lock, Expired
    <3>2. CASE ~Holder(q)
      BY <1>4, <2>1, <3>2 DEF Lock
    <3>3. QED
      BY <3>1, <3>2
  <2>2. lock' = LockTTL /\ held'[r] = 0
    BY <1>4 DEF Lock
  <2>3. QED
    BY <2>1, <2>2
<1>5. ASSUME NEW r \in Requests, TitleIsNew(r) \/ TitleIsUnknown(r) \/ Create(r)
      PROVE  LockLives' /\ Exclusive'
  BY <1>5 DEF TitleIsNew, TitleIsUnknown, Create
<1>6. ASSUME NEW r \in Requests, Consume(r) \/ ConsumeFails(r) PROVE LockLives' /\ Exclusive'
  BY <1>6 DEF Consume, ConsumeFails
<1>7. CASE Tick
  <2>1. \A r \in Requests : Holder(r)' <=> Holder(r)
    BY <1>7 DEF Tick
  <2>2. ASSUME NEW r \in Requests, Holder(r) PROVE lock' + held'[r] = LockTTL
    <3>1. held'[r] = IF held[r] < LockTTL THEN held[r] + 1 ELSE LockTTL
      BY <1>7 DEF Tick, Elapse
    <3>2. lock' = IF lock = 0 THEN 0 ELSE lock - 1
      BY <1>7 DEF Tick
    <3>3. lock + held[r] = LockTTL /\ held[r] \in 0 .. LockTTL /\ lock \in 0 .. LockTTL
      BY <2>2
    <3>4. QED
      BY <3>1, <3>2, <3>3
  <2>3. QED
    BY <2>1, <2>2
<1>8. CASE UNCHANGED vars
  BY <1>8 DEF vars
<1>9. QED
  BY <1>1, <1>2, <1>3, <1>4, <1>5, <1>6, <1>7, <1>8 DEF Next, ArticleAdd

\* No step makes an unexcused title double: of two requests between query and
\* insertion one at least has been overtaken.
LEMMA NextTitles ==
  ASSUME TypeOK, Exclusive, StillNew, TitlesUnique, [Next]_vars
  PROVE  StillNew' /\ TitlesUnique'
<1> USE DEF TypeOK, Goto, StillNew, TitlesUnique, Excused
<1>1. ASSUME NEW r \in Requests, Submit(r) PROVE StillNew' /\ TitlesUnique'
  BY <1>1 DEF Submit
<1>2. ASSUME NEW r \in Requests, Send(r) PROVE StillNew' /\ TitlesUnique'
  BY <1>2 DEF Send, ProducerFails, SendMessage, SendFails
<1>3. ASSUME NEW r \in Requests, CallFails(r) \/ LockBusy(r) \/ TitleExists(r)
      PROVE  StillNew' /\ TitlesUnique'
  BY <1>3 DEF CallFails, LockBusy, TitleExists
<1>4. ASSUME NEW r \in Requests, Lock(r) PROVE StillNew' /\ TitlesUnique'
  BY <1>4 DEF Lock
<1>5. ASSUME NEW r \in Requests, TitleIsNew(r) PROVE StillNew' /\ TitlesUnique'
  BY <1>5 DEF TitleIsNew, SameTitle
<1>6. ASSUME NEW r \in Requests, TitleIsUnknown(r) PROVE StillNew' /\ TitlesUnique'
  BY <1>6 DEF TitleIsUnknown
<1>7. ASSUME NEW r \in Requests, Create(r) PROVE StillNew' /\ TitlesUnique'
  <2>1. /\ pc[r] = "create" /\ rows' = rows \cup {r} /\ UNCHANGED <<unsure, overtaken>>
        /\ pc' = [pc EXCEPT ![r] = "ended"]
    BY <1>7 DEF Create
  <2>2. ASSUME NEW q \in Requests, pc'[q] = "create", ~Excused(q)' PROVE Excused(r)
    BY <2>1, <2>2 DEF Exclusive, Holder, Adding
  <2>3. StillNew'
    BY <2>1, <2>2
  <2>4. TitlesUnique'
    BY <2>1
  <2>5. QED
    BY <2>3, <2>4
<1>8. ASSUME NEW r \in Requests, Consume(r) \/ ConsumeFails(r) PROVE StillNew' /\ TitlesUnique'
  BY <1>8 DEF Consume, ConsumeFails
<1>9. CASE Tick
  BY <1>9 DEF Tick
<1>10. CASE UNCHANGED vars
  BY <1>10 DEF vars
<1>11. QED
  BY <1>1, <1>2, <1>3, <1>4, <1>5, <1>6, <1>7, <1>8, <1>9, <1>10 DEF Next, ArticleAdd

\* A message that is consumed takes the article of its request away.
LEMMA NextMessage ==
  ASSUME TypeOK, MessageInv, ConsumedIsRemoved, [Next]_vars
  PROVE  MessageInv' /\ ConsumedIsRemoved'
<1> USE DEF TypeOK, Goto, MessageInv, ConsumedIsRemoved
<1>1. ASSUME NEW r \in Requests, Submit(r) PROVE MessageInv' /\ ConsumedIsRemoved'
  BY <1>1 DEF Submit
<1>2. ASSUME NEW r \in Requests, Send(r) PROVE MessageInv' /\ ConsumedIsRemoved'
  BY <1>2 DEF Send, ProducerFails, SendMessage, SendFails
<1>3. ASSUME NEW r \in Requests, CallFails(r) \/ LockBusy(r) \/ TitleExists(r)
      PROVE  MessageInv' /\ ConsumedIsRemoved'
  BY <1>3 DEF CallFails, LockBusy, TitleExists
<1>4. ASSUME NEW r \in Requests, Lock(r) \/ TitleIsNew(r) \/ TitleIsUnknown(r)
      PROVE  MessageInv' /\ ConsumedIsRemoved'
  BY <1>4 DEF Lock, TitleIsNew, TitleIsUnknown
<1>5. ASSUME NEW r \in Requests, Create(r) PROVE MessageInv' /\ ConsumedIsRemoved'
  BY <1>5 DEF Create
<1>6. ASSUME NEW r \in Requests, Consume(r) PROVE MessageInv' /\ ConsumedIsRemoved'
  BY <1>6 DEF Consume, SameTitle
<1>7. ASSUME NEW r \in Requests, ConsumeFails(r) PROVE MessageInv' /\ ConsumedIsRemoved'
  BY <1>7 DEF ConsumeFails
<1>8. CASE Tick
  <2>1. \A r \in Requests : message[r] = "consumed" => age'[r] = age[r]
    BY <1>8 DEF Tick
  <2>2. QED
    BY <1>8, <2>1 DEF Tick
<1>9. CASE UNCHANGED vars
  BY <1>9 DEF vars
<1>10. QED
  BY <1>1, <1>2, <1>3, <1>4, <1>5, <1>6, <1>7, <1>8, <1>9 DEF Next, ArticleAdd

\* The inductive invariant holds.
THEOREM ArticlesInvariance == Spec => []ArticlesInv
<1>1. Init => ArticlesInv
  BY InitArticlesInv
<1>2. ArticlesInv /\ [Next]_vars => ArticlesInv'
  BY NextTypeOK, NextLock, NextTitles, NextMessage DEF ArticlesInv
<1>3. QED
  BY <1>1, <1>2, PTL DEF Spec

\* The types are respected.
THEOREM ArticlesTypeCorrect == Spec => []TypeOK
<1>1. ArticlesInv => TypeOK
  BY DEF ArticlesInv
<1>2. QED
  BY <1>1, ArticlesInvariance, PTL

\* No title is stored twice, however long the database takes, unless a query failed
\* (biz.go:171) or another request took the expired lock (biz.go:158) before the
\* article was inserted (biz.go:180).
THEOREM TitlesAreUnique == Spec => []TitlesUnique
<1>1. ArticlesInv => TitlesUnique
  BY DEF ArticlesInv
<1>2. QED
  BY <1>1, ArticlesInvariance, PTL

\* An article whose message has been consumed (main.go:61) is there only if it was
\* inserted after that: the consumer misses no other.
THEOREM ConsumedAreRemoved == Spec => []ConsumedIsRemoved
<1>1. ArticlesInv => ConsumedIsRemoved
  BY DEF ArticlesInv
<1>2. QED
  BY <1>1, ArticlesInvariance, PTL
=============================================================================
