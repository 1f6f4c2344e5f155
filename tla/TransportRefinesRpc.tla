------------------------ MODULE TransportRefinesRpc -------------------------
(***************************************************************************)
(* Over a network that keeps order, with a reply cache that keeps its      *)
(* entries and fewer requests than sequence numbers, the client and its    *)
(* servers implement Rpc.                                                  *)
(***************************************************************************)
EXTENDS MCTransport

\* The phase of the call as the caller of send_request sees it.
CallPhase ==
  CASE pc = "idle" -> "idle"
    [] pc \in {"prepared", "poll", "checklen", "validate"} -> "pending"
    [] pc = "use" -> "ok"
    [] pc = "failed" -> "error"

Abstract == INSTANCE Rpc
              WITH phase <- CallPhase, calls <- req.id, log <- execLog

\* The request path implements at-most-once remote procedure calls: every
\* step of the client, the network and the servers is a step of Rpc or
\* leaves its variables alone.
ImplementsRpc == Abstract!RpcSpec
=============================================================================
