-------------------------------- MODULE Rpc ---------------------------------
(***************************************************************************)
(* What the request path promises: a remote procedure call with at-most-   *)
(* once execution.  Calls are numbered and made one at a time.  A server   *)
(* executes a call at most once and never after a later one; a call that   *)
(* returns "ok" has been executed; a call that returns "error" may have    *)
(* been executed, or may still be, until the next one is.                  *)
(***************************************************************************)
EXTENDS Integers, SequencesExt

CONSTANTS Servers, MaxReq

VARIABLES
  phase,  \* of the current call
  calls,  \* number of calls made
  log     \* log[s]: the calls executed by server s, in order

rpcVars == <<phase, calls, log>>

RpcInit ==
  /\ phase = "idle"
  /\ calls = 0
  /\ log = [s \in Servers |-> << >>]

Call ==
  /\ phase = "idle"
  /\ calls < MaxReq
  /\ calls' = calls + 1
  /\ phase' = "pending"
  /\ UNCHANGED log

\* No server has executed call n, and s none after it.
MayExecute(s, n) ==
  /\ \A t \in Servers : \A i \in 1 .. Len(log[t]) : log[t][i] # n
  /\ \A i \in 1 .. Len(log[s]) : log[s][i] < n

Execute(s, n) ==
  /\ MayExecute(s, n)
  /\ log' = [log EXCEPT ![s] = Append(@, n)]
  /\ UNCHANGED <<phase, calls>>

Executed(n) == \E s \in Servers : \E i \in 1 .. Len(log[s]) : log[s][i] = n

ReturnOk ==
  /\ phase = "pending"
  /\ Executed(calls)
  /\ phase' = "ok"
  /\ UNCHANGED <<calls, log>>

ReturnError ==
  /\ phase = "pending"
  /\ phase' = "error"
  /\ UNCHANGED <<calls, log>>

Done ==
  /\ phase \in {"ok", "error"}
  /\ phase' = "idle"
  /\ UNCHANGED <<calls, log>>

RpcNext ==
  \/ Call \/ ReturnOk \/ ReturnError \/ Done
  \/ \E s \in Servers, n \in 1 .. calls : Execute(s, n)

RpcSpec == RpcInit /\ [][RpcNext]_rpcVars
=============================================================================
