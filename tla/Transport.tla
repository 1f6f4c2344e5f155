----------------------------- MODULE Transport ------------------------------
(***************************************************************************)
(* The client and its servers over a datagram network.  The network (UDP   *)
(* over Ethernet or over the SLIP line) may lose any datagram; it keeps    *)
(* the order of datagrams between two hosts unless Reorder is TRUE.        *)
(* Duplicates come from the client's own retransmissions.                  *)
(***************************************************************************)
EXTENDS Client, Server

CONSTANTS
  QueueCap,   \* bound: datagrams in flight per direction; more are lost
  Reorder,    \* may datagrams overtake one another?
  CacheLoss   \* may reply cache entries be lost?

ASSUME TransportAssumption ==
  /\ QueueCap \in Nat
  /\ Reorder \in BOOLEAN /\ CacheLoss \in BOOLEAN

VARIABLES
  c2s,  \* c2s[s]: requests on their way to server s
  s2c   \* s2c[s]: replies on their way from server s

netVars == <<c2s, s2c>>
vars == <<clientVars, serverVars, netVars>>

TypeOK ==
  /\ ClientTypeOK
  /\ ServerTypeOK
  /\ c2s \in [Servers -> Seq(Request)]
  /\ s2c \in [Servers -> Seq(Reply)]

Init ==
  /\ ClientInit
  /\ ServerInit
  /\ c2s = [s \in Servers |-> << >>]
  /\ s2c = [s \in Servers |-> << >>]

Push(q, m) == IF Len(q) < QueueCap THEN Append(q, m) ELSE q

\* The positions of q from which a datagram may be delivered next.
Deliverable(q) == {i \in 1 .. Len(q) : Reorder \/ i = 1}

\* send_frame: the current request goes out to its server.
Transmit ==
  /\ c2s' = [c2s EXCEPT ![req.srv] = Push(@, RequestMsg(req.id, req.op))]
  /\ UNCHANGED s2c

PrepareStep(s, op) == Prepare(s, op) /\ UNCHANGED <<serverVars, netVars>>
LocalStep == LocalRequest /\ UNCHANGED <<serverVars, netVars>>
StartWaitStep == StartWait /\ Transmit /\ UNCHANGED serverVars
ResendStep == Resend /\ Transmit /\ UNCHANGED serverVars
GiveUpStep == GiveUp /\ UNCHANGED <<serverVars, netVars>>
ReadLenStep == ReadLen /\ UNCHANGED <<serverVars, netVars>>
CheckLenStep == CheckLen /\ UNCHANGED <<serverVars, netVars>>
ValidateStep == Validate /\ UNCHANGED <<serverVars, netVars>>
FinishStep == Finish /\ UNCHANGED <<serverVars, netVars>>

\* A reply reaches the client's network card.
ReceiveReplyStep(s, i) ==
  /\ i \in Deliverable(s2c[s])
  /\ ReceiveReply(s2c[s][i])
  /\ s2c' = [s2c EXCEPT ![s] = RemoveAt(@, i)]
  /\ UNCHANGED <<c2s, serverVars>>

ReceiveOtherStep(n) == ReceiveOther(n) /\ UNCHANGED <<serverVars, netVars>>

\* A request reaches a server, which serves it and sends its answer, if any.
ServeStep(s, i) ==
  /\ i \in Deliverable(c2s[s])
  /\ LET m == c2s[s][i]
     IN /\ Serve(s, m)
        /\ s2c' = IF NewEntry(s, m).answered
                  THEN [s2c EXCEPT ![s] = Push(@, NewEntry(s, m).reply)]
                  ELSE s2c
  /\ c2s' = [c2s EXCEPT ![s] = RemoveAt(@, i)]
  /\ UNCHANGED clientVars

LoseEntryStep(s) ==
  /\ CacheLoss
  /\ LoseEntry(s)
  /\ UNCHANGED <<clientVars, netVars>>

LoseRequest(s, i) ==
  /\ i \in 1 .. Len(c2s[s])
  /\ c2s' = [c2s EXCEPT ![s] = RemoveAt(@, i)]
  /\ UNCHANGED <<s2c, clientVars, serverVars>>

LoseReply(s, i) ==
  /\ i \in 1 .. Len(s2c[s])
  /\ s2c' = [s2c EXCEPT ![s] = RemoveAt(@, i)]
  /\ UNCHANGED <<c2s, clientVars, serverVars>>

Foreground ==
  \/ \E s \in Servers, op \in Ops : PrepareStep(s, op)
  \/ LocalStep \/ StartWaitStep \/ ResendStep \/ GiveUpStep
  \/ ReadLenStep \/ CheckLenStep \/ ValidateStep \/ FinishStep

Interrupt ==
  \/ \E s \in Servers : \E i \in 1 .. Len(s2c[s]) : ReceiveReplyStep(s, i)
  \/ \E n \in JunkLens : ReceiveOtherStep(n)

ServerSide ==
  \E s \in Servers :
    \/ \E i \in 1 .. Len(c2s[s]) : ServeStep(s, i)
    \/ LoseEntryStep(s)

Loss ==
  \E s \in Servers :
    \/ \E i \in 1 .. Len(c2s[s]) : LoseRequest(s, i)
    \/ \E i \in 1 .. Len(s2c[s]) : LoseReply(s, i)

Next == Foreground \/ Interrupt \/ ServerSide \/ Loss

Spec == Init /\ [][Next]_vars

(***************************************************************************)
(* Scheduling.  The foreground is the only program running, and the timer  *)
(* interrupt keeps counting (the loop runs with interrupts enabled), so a  *)
(* loop that keeps coming back to its time check sees the timeout at last. *)
(* Nothing is assumed of the network or of the servers.                    *)
(***************************************************************************)
FairSpec ==
  /\ Spec
  /\ WF_vars(StartWaitStep) /\ WF_vars(CheckLenStep)
  /\ WF_vars(ValidateStep) /\ WF_vars(FinishStep)
  /\ SF_vars(ResendStep \/ GiveUpStep)

-----------------------------------------------------------------------------
(* What the client may rely on *)

\* The reply send_request hands to the INT 2Fh handler comes from the server
\* the request went to, and answers this very request: the sequence check
\* (line 771) lets another one through only if it is at least SeqCount (256)
\* requests old.  Late replies to retransmissions, replies of other servers
\* and foreign frames may reach the interrupt at any moment.
AcceptedReply ==
  pc = "use" =>
    /\ buf.src = req.srv
    /\ buf.id = req.id \/ buf.id + SeqCount <= req.id

\* The length send_request returns (line 798) is the length of the reply in
\* the buffer, although it was read (line 760) before the frame was known to
\* stay there.
AcceptedLength == pc = "use" => vlen = buf.len

\* From the length check until the handler is done with the reply, no
\* interrupt overwrites the receive buffer (lines 481-482).
ReplyHeld ==
  [][(pc \in {"validate", "use"} /\ pc' \in {"validate", "use"})
        => buf' = buf]_vars

\* While send_request waits and no response has come, only a reply to an earlier
\* request can occupy the receive buffer: one that came when nobody waited any more
\* (line 452) and that nobody takes away until this request is given up.  A reply to
\* this request, or a foreign frame, never does.
BlockedByLateReply ==
  pc = "poll" /\ srr = 0 /\ recvLen # 0 => buf.src \in Servers /\ buf.id < req.id

\* It would be better if nothing did, which does not hold.
BufferFreeWhileWaiting == pc = "poll" /\ srr = 0 => recvLen = 0

\* Whatever the network and the servers do, send_request returns and the
\* INT 2Fh handler ends.
RequestReturns == (pc = "prepared") ~> (pc = "idle")

-----------------------------------------------------------------------------
(* What the reply cache is for *)

\* A server executes no request twice, however often it is retransmitted.
ExecutedOnce ==
  \A s \in Servers : \A i, j \in 1 .. Len(execLog[s]) :
    i # j => execLog[s][i] # execLog[s][j]

\* Stronger: a server executes a client's requests in the order they were
\* issued, each at most once.
ExecutedInOrder ==
  \A s \in Servers : \A i, j \in 1 .. Len(execLog[s]) :
    i < j => execLog[s][i] < execLog[s][j]

\* The reply in the cache is the reply to the request in the cache: a reply
\* is repeated only for a retransmission of the request it answered.
CachedReplyOwn ==
  \A s \in Servers :
    cache[s].answered => cache[s].reply.id = cache[s].msg.id
-----------------------------------------------------------------------------
(* The inductive invariants behind AcceptedReply and ExecutedInOrder *)

\* Every message is about a request already issued, and carries its number.
OfIssuedRequest(m) == m.id <= req.id /\ m.seq = Sequence(m.id)

MessagesIssued ==
  \A s \in Servers :
    /\ \A i \in 1 .. Len(c2s[s]) : OfIssuedRequest(c2s[s][i])
    /\ \A i \in 1 .. Len(s2c[s]) :
         OfIssuedRequest(s2c[s][i]) /\ s2c[s][i].src = s
    /\ OfIssuedRequest(cache[s].msg)
    /\ OfIssuedRequest(cache[s].reply)
    /\ cache[s].answered => cache[s].reply.src = s

\* What the flag and the length mean while send_request waits: a frame in the
\* buffer that the flag announces is from the right server.  The flag alone
\* means nothing (IgnoreFrame leaves it set), nor does the length (StartWait
\* leaves an old frame in place).
BufferState ==
  /\ OfIssuedRequest(buf)
  /\ pc \in {"checklen", "validate", "use"} => srr = 1
  /\ pc \in {"validate", "use"} => recvLen > 0
  /\ pc \in {"poll", "checklen", "validate", "use"} /\ srr = 1 /\ recvLen > 0
       => buf.src = req.srv
  /\ pc = "use" => SequenceOK /\ ChecksumOK
  /\ pc # "idle" => req.srv \in Servers

ClientInv == TypeOK /\ MessagesIssued /\ BufferState

\* The highest request number seen by a server with cache entry e.
LastSeen(e) == IF e.used THEN e.msg.id ELSE 0

\* Requests wait in queue q in the order of their numbers, none below the
\* cached request, and nothing above the cached request was executed (l is
\* the log, r the client's current request).
FifoOrder(q, e, l, r) ==
  /\ \A i, j \in 1 .. Len(q) : i < j => q[i].id <= q[j].id
  /\ \A i \in 1 .. Len(q) : q[i].id >= 1 /\ LastSeen(e) <= q[i].id
  /\ \A i \in 1 .. Len(l) : l[i] <= LastSeen(e)
  /\ LastSeen(e) <= r.id

\* One request number, one operation: in the queue, in the cache and in the
\* client's current request.
SameIdSameOp(q, e, r) ==
  /\ \A i, j \in 1 .. Len(q) : q[i].id = q[j].id => q[i].op = q[j].op
  /\ \A i \in 1 .. Len(q) :
       /\ e.used /\ q[i].id = e.msg.id => q[i].op = e.msg.op
       /\ q[i].id = r.id => q[i].op = r.op
  /\ e.used /\ e.msg.id = r.id => e.msg.op = r.op

Increasing(l) == \A i, j \in 1 .. Len(l) : i < j => l[i] < l[j]

ServerOrder(q, e, l, r) ==
  FifoOrder(q, e, l, r) /\ SameIdSameOp(q, e, r) /\ Increasing(l)

ServerInv ==
  /\ \A s \in Servers : ServerOrder(c2s[s], cache[s], execLog[s], req)
  /\ pc # "idle" => req.id >= 1
=============================================================================
