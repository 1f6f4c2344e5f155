------------------------------- MODULE Server -------------------------------
(***************************************************************************)
(* The servers as one client sees them (netmount-server.cpp): the main     *)
(* loop, process_request and the client's entry of the ReplyCache.         *)
(* A server is single-threaded: one request is received, processed, cached *)
(* and answered before the next one is read.                               *)
(***************************************************************************)
EXTENDS Wire

VARIABLES
  cache,   \* cache[s]: server s's ReplyInfo for the client
  execLog  \* execLog[s]: ids of the requests s executed, in order (history)

serverVars == <<cache, execLog>>

NoReply == Junk(0)

\* recv_len = 0: an entry just created, or taken over by another client.
NoEntry == [used |-> FALSE, msg |-> RequestMsg(0, CHOOSE op \in Ops : TRUE),
            answered |-> FALSE, reply |-> NoReply]

\* answered is send_len > 0.
Entry == [used : BOOLEAN, msg : Request, answered : BOOLEAN, reply : Reply]

ServerTypeOK ==
  /\ cache \in [Servers -> Entry]
  /\ execLog \in [Servers -> Seq(Nat)]

ServerInit ==
  /\ cache = [s \in Servers |-> NoEntry]
  /\ execLog = [s \in Servers |-> << >>]

\* Mutant: no request is recognised as a retransmission.
SameRequestNever(e, m) == FALSE

\* Mutant: the sequence number is left out of the comparison.
SameRequestIgnoringSeq(e, m) == e.used /\ e.msg.op = m.op

\* The request is byte for byte the one in the cache.
SameRequest(e, m) == e.used /\ e.msg.seq = m.seq /\ e.msg.op = m.op

\* process_request executes the request; the others are answered from the
\* cache or, like an unshared drive or an unknown function, not at all.
Executes(s, m) == ~SameRequest(cache[s], m) /\ m.op \notin SilentOps

\* process_request: the new ReplyInfo.  A hit keeps the reply (or its
\* absence), a miss replaces both packets.
NewEntry(s, m) ==
  IF SameRequest(cache[s], m) THEN [cache[s] EXCEPT !.msg = m]
  ELSE [used |-> TRUE, msg |-> m, answered |-> m.op \notin SilentOps,
        reply |-> IF m.op \notin SilentOps THEN ReplyMsg(s, m) ELSE NoReply]

\* One turn of the main loop with request m.  Whoever composes the server
\* with a network sends NewEntry(s, m).reply when the entry is answered.
Serve(s, m) ==
  /\ cache' = [cache EXCEPT ![s] = NewEntry(s, m)]
  /\ execLog' = IF Executes(s, m)
                THEN [execLog EXCEPT ![s] = Append(@, m.id)]
                ELSE execLog

\* The entry is lost: the server restarts, or more clients than
\* REPLY_CACHE_SIZE make get_reply_info reuse it.
LoseEntry(s) ==
  /\ cache[s].used
  /\ cache' = [cache EXCEPT ![s] = NoEntry]
  /\ UNCHANGED execLog
=============================================================================
