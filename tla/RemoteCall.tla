----------------------------- MODULE RemoteCall -----------------------------
(***************************************************************************)
(* What the RPC packages promise about a call, whatever connections,       *)
(* goroutines, locks and queues do in between.  Client.Call "invokes the   *)
(* named function, waits for it to complete, and returns its error status" *)
(* (client.go:328).  With a network in between this is left of it:         *)
(*                                                                         *)
(*   - the method runs at most once for a call, and only if it was begun;  *)
(*   - a call ends once, with a result or an error;                        *)
(*   - it ends with a result only after its own method has returned, and   *)
(*     the result is that of its own method on its own arguments;          *)
(*   - an error says nothing: the method may have run, may be running, or  *)
(*     may run after the caller has given up.                              *)
(***************************************************************************)
CONSTANT Calls

VARIABLES
  phase, \* of the caller: "new", "begun", "ended"
  run,   \* of the method: "none", "running", "returned"
  result \* "none" before the end, then "own" or "error"

vars == <<phase, run, result>>

Init ==
  /\ phase = [c \in Calls |-> "new"]
  /\ run = [c \in Calls |-> "none"]
  /\ result = [c \in Calls |-> "none"]

Begin(c) ==
  /\ phase[c] = "new"
  /\ phase' = [phase EXCEPT ![c] = "begun"]
  /\ UNCHANGED <<run, result>>

MethodStarts(c) ==
  /\ phase[c] # "new"
  /\ run[c] = "none"
  /\ run' = [run EXCEPT ![c] = "running"]
  /\ UNCHANGED <<phase, result>>

MethodReturns(c) ==
  /\ run[c] = "running"
  /\ run' = [run EXCEPT ![c] = "returned"]
  /\ UNCHANGED <<phase, result>>

End(c, x) ==
  /\ phase[c] = "begun"
  /\ x = "own" => run[c] = "returned"
  /\ phase' = [phase EXCEPT ![c] = "ended"]
  /\ result' = [result EXCEPT ![c] = x]
  /\ UNCHANGED run

Next ==
  \E c \in Calls :
    \/ Begin(c)
    \/ MethodStarts(c)
    \/ MethodReturns(c)
    \/ \E x \in {"own", "error"} : End(c, x)

Spec == Init /\ [][Next]_vars
=============================================================================
