----------------------------- MODULE MCServices -----------------------------
(***************************************************************************)
(* Instances of Articles and Records for TLC: the methods of the two       *)
(* services.  Articles, accounts and categories share no state, so that it *)
(* is enough to let the calls on one of them run while the others rest.    *)
(***************************************************************************)
EXTENDS Articles, Records

CONSTANTS r1, r2, r3, weiguoshen, other, c1, c2, c3, c4, n1

\* Two requests for the title that does not pass, one for another.
MCTitleOf == [r \in Requests |-> IF r = r3 THEN other ELSE weiguoshen]

\* c1 and c2 add a row, c2 and c3 change the one that was added first, and c4
\* logs in with the password of c1 or deletes the first row.
MCAsks ==
  LET methods(r) == CASE r = c1 -> {"register", "add"}
                      [] r = c2 -> {"register", "info", "add", "update"}
                      [] r = c3 -> {"info", "avatar", "update"}
                      [] r = c4 -> {"login", "delete"}
      names(r) == IF r \in {c1, c4} THEN {n1} ELSE Names
  IN  [r \in Callers |->
         {c \in [method : methods(r), name : names(r), id : {1}, secret : {c1}] :
            c.method = "avatar" => c.name = Blank}]

ServicesInit == Init /\ RecordsInit

OneTable == \E t \in Tables : \A r \in Callers : at[r] = "idle" \/ TableOf(call[r]) = t

ServicesNext ==
  \/ Next /\ RecordsInit /\ UNCHANGED recordsVars
  \/ RecordsNext /\ OneTable' /\ Init /\ UNCHANGED vars

FairServices == ServicesInit /\ [][ServicesNext]_<<vars, recordsVars>> /\ Fairness
=============================================================================
