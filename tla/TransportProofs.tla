--------------------------- MODULE TransportProofs --------------------------
(***************************************************************************)
(* Theorems about Transport, for every number of servers, operations,      *)
(* requests, retries and datagrams in flight.                              *)
(***************************************************************************)
EXTENDS Transport, SequenceTheorems, TLAPS

(***************************************************************************)
(* Sequences and sequence numbers                                          *)
(***************************************************************************)

\* Removing one element leaves the others in place and in order.
LEMMA RemoveAtFacts ==
  ASSUME NEW S, NEW q \in Seq(S), NEW i \in 1 .. Len(q)
  PROVE  /\ RemoveAt(q, i) \in Seq(S)
         /\ Len(RemoveAt(q, i)) = Len(q) - 1
         /\ \A k \in 1 .. Len(RemoveAt(q, i)) :
              \/ k < i /\ RemoveAt(q, i)[k] = q[k]
              \/ k >= i /\ RemoveAt(q, i)[k] = q[k + 1]
<1> DEFINE a == SubSeq(q, 1, i - 1)
           b == SubSeq(q, i + 1, Len(q))
<1>1. \A k \in 1 .. Len(q) : q[k] \in S
  BY ElementOfSeq
<1>2. /\ a \in Seq(S)
      /\ Len(a) = i - 1
      /\ \A k \in 1 .. (i - 1) : a[k] = q[k]
  <2>1. \A k \in 1 .. (i - 1) : q[k] \in S
    BY <1>1
  <2>2. /\ a \in Seq(S)
        /\ Len(a) = IF 1 <= i - 1 THEN i - 1 - 1 + 1 ELSE 0
        /\ \A k \in 1 .. (i - 1) - 1 + 1 : a[k] = q[1 + k - 1]
    BY <2>1, SubSeqProperties, i - 1 \in Int, 1 \in Int
  <2> QED BY <2>2
<1>3. /\ b \in Seq(S)
      /\ Len(b) = Len(q) - i
      /\ \A k \in 1 .. (Len(q) - i) : b[k] = q[i + k]
  <2>1. \A k \in (i + 1) .. Len(q) : q[k] \in S
    BY <1>1
  <2>2. /\ b \in Seq(S)
        /\ Len(b) = IF i + 1 <= Len(q) THEN Len(q) - (i + 1) + 1 ELSE 0
        /\ \A k \in 1 .. Len(q) - (i + 1) + 1 : b[k] = q[(i + 1) + k - 1]
    BY <2>1, SubSeqProperties, i + 1 \in Int, Len(q) \in Int
  <2> QED BY <2>2
<1> HIDE DEF a, b
<1>4. /\ a \o b \in Seq(S)
      /\ Len(a \o b) = Len(a) + Len(b)
      /\ \A k \in 1 .. Len(a) + Len(b) :
           (a \o b)[k] = IF k <= Len(a) THEN a[k] ELSE b[k - Len(a)]
  BY <1>2, <1>3, ConcatProperties
<1>5. RemoveAt(q, i) = a \o b
  BY DEF RemoveAt, a, b
<1>6. Len(q) \in Nat /\ i \in Nat
  OBVIOUS
<1>7. Len(a \o b) = Len(q) - 1
  BY <1>2, <1>3, <1>4, <1>6
<1>8. ASSUME NEW k \in 1 .. Len(a \o b)
      PROVE  \/ k < i /\ (a \o b)[k] = q[k]
             \/ k >= i /\ (a \o b)[k] = q[k + 1]
  <2>1. CASE k < i
    BY <2>1, <1>2, <1>3, <1>4, <1>6, <1>7
  <2>2. CASE k >= i
    <3>1. k - (i - 1) \in 1 .. (Len(q) - i) /\ i + (k - (i - 1)) = k + 1
      BY <2>2, <1>6, <1>7
    <3>2. (a \o b)[k] = b[k - (i - 1)]
      BY <2>2, <1>2, <1>3, <1>4, <1>6, <1>7
    <3> QED BY <3>1, <3>2, <2>2, <1>3
  <2> QED BY <2>1, <2>2, <1>6
<1> QED BY <1>4, <1>5, <1>7, <1>8

\* No new element appears.
LEMMA RemoveAtElement ==
  ASSUME NEW S, NEW q \in Seq(S), NEW i \in 1 .. Len(q),
         NEW k \in 1 .. Len(RemoveAt(q, i))
  PROVE  \E j \in 1 .. Len(q) : RemoveAt(q, i)[k] = q[j]
<1>1. Len(RemoveAt(q, i)) = Len(q) - 1 /\ Len(q) \in Nat
  BY RemoveAtFacts
<1>2. \/ k < i /\ RemoveAt(q, i)[k] = q[k]
      \/ k >= i /\ RemoveAt(q, i)[k] = q[k + 1]
  BY RemoveAtFacts
<1>3. k \in 1 .. Len(q) /\ k + 1 \in 1 .. Len(q)
  BY <1>1
<1> QED BY <1>2, <1>3

\* Sending adds the datagram at the end, or loses it.
LEMMA PushFacts ==
  ASSUME NEW S, NEW q \in Seq(S), NEW m \in S
  PROVE  /\ Push(q, m) \in Seq(S)
         /\ \A k \in 1 .. Len(Push(q, m)) :
              \/ k \in 1 .. Len(q) /\ Push(q, m)[k] = q[k]
              \/ k = Len(q) + 1 /\ Push(q, m)[k] = m
BY DEF Push

\* Sequence numbers are naturals.
LEMMA SequenceType == \A id \in Nat : Sequence(id) \in Nat
BY WireAssumption DEF Sequence

\* A positive multiple of SeqCount is at least SeqCount.
LEMMA MultipleBound ==
  ASSUME NEW m \in Nat \ {0}, NEW k \in Nat, k >= 1
  PROVE  m * k >= m
BY SMT

\* Two requests with one sequence number are the same one or at least
\* SeqCount apart: the uint8_t counter of send_request.
LEMMA SequenceWraps ==
  ASSUME NEW a \in Nat, NEW b \in Nat, a <= b, Sequence(a) = Sequence(b)
  PROVE  a = b \/ a + SeqCount <= b
<1> DEFINE m == SeqCount
           p == a \div m
           q == b \div m
           r == a % m
<1>1. m \in Nat \ {0}
  BY WireAssumption
<1> HIDE DEF m
<1>2. /\ p \in Nat /\ q \in Nat /\ r \in Nat
      /\ a = m * p + r /\ b = m * q + r
  BY <1>1, SMT DEF Sequence, m
<1> HIDE DEF p, q, r
<1>3. CASE q > p
  <2>1. m * (q - p) >= m
    BY <1>1, <1>2, <1>3, MultipleBound, q - p \in Nat, q - p >= 1
  <2>2. m * (q - p) = m * q - m * p
    BY <1>1, <1>2
  <2> QED BY <2>1, <2>2, <1>1, <1>2 DEF m
<1>4. CASE q = p
  BY <1>2, <1>4
<1>5. CASE q < p
  <2>1. m * (p - q) >= m
    BY <1>1, <1>2, <1>5, MultipleBound, p - q \in Nat, p - q >= 1
  <2>2. m * (p - q) = m * p - m * q
    BY <1>1, <1>2
  <2> QED BY <2>1, <2>2, <1>1, <1>2
<1> QED BY <1>2, <1>3, <1>4, <1>5

(***************************************************************************)
(* Types                                                                   *)
(***************************************************************************)

\* The reply of a server has the type of replies.
LEMMA ReplyMsgType ==
  ASSUME NEW s \in Servers, NEW m \in Request
  PROVE  ReplyMsg(s, m) \in Reply
<1>1. m.op \in Ops /\ m.id \in Nat /\ m.seq \in Nat
  BY DEF Request
<1>2. ReplyLen[m.op] \in HdrLen .. 1458
  BY <1>1, WireAssumption
<1>3. \A n \in HdrLen .. 1458 : n \in Nat
  BY DEF HdrLen
<1> QED BY <1>1, <1>2, <1>3 DEF ReplyMsg, Reply

\* What send_request builds has the type of requests.
LEMMA RequestMsgType ==
  ASSUME NEW id \in Nat, NEW op \in Ops
  PROVE  RequestMsg(id, op) \in Request
BY SequenceType DEF RequestMsg, Request

\* A foreign frame in the buffer has the type of replies.
LEMMA JunkType == \A n \in Nat : Junk(n) \in Reply
BY DEF Junk, Reply

\* The operation of NoRequest is one of Ops.
LEMMA SomeOp == (CHOOSE op \in Ops : TRUE) \in Ops
BY WireAssumption

\* process_request leaves a well-typed cache entry.
LEMMA NewEntryType ==
  ASSUME TypeOK, NEW s \in Servers, NEW m \in Request
  PROVE  NewEntry(s, m) \in Entry
<1>1. cache[s] \in Entry
  BY DEF TypeOK, ServerTypeOK
<1>2. NoReply \in Reply
  BY JunkType DEF NoReply
<1> QED BY <1>1, <1>2, ReplyMsgType DEF NewEntry, Entry

\* The first state is well typed.
LEMMA InitType == Init => TypeOK
<1> SUFFICES ASSUME Init PROVE TypeOK
  OBVIOUS
<1>1. ClientTypeOK
  BY SomeOp, JunkType, ClientAssumption
  DEF Init, ClientInit, ClientTypeOK, NoRequest, PC
<1>2. NoEntry \in Entry
  BY SomeOp, JunkType, RequestMsgType DEF NoEntry, Entry, NoReply
<1>3. ServerTypeOK
  BY <1>2, EmptySeq DEF Init, ServerInit, ServerTypeOK
<1> QED BY <1>1, <1>3, EmptySeq DEF Init, TypeOK

\* The steps that leave the servers and the network alone.
LEMMA ClientStepType ==
  ASSUME TypeOK, UNCHANGED <<serverVars, netVars>>, ClientTypeOK'
  PROVE  TypeOK'
BY DEF TypeOK, ServerTypeOK, serverVars, netVars

\* Sending keeps the queues well typed.
LEMMA TransmitType ==
  ASSUME TypeOK, req.srv \in Servers, Transmit
  PROVE  /\ c2s' \in [Servers -> Seq(Request)]
         /\ s2c' \in [Servers -> Seq(Reply)]
<1>1. RequestMsg(req.id, req.op) \in Request
  BY RequestMsgType DEF TypeOK, ClientTypeOK
<1>2. Push(c2s[req.srv], RequestMsg(req.id, req.op)) \in Seq(Request)
  BY <1>1, PushFacts DEF TypeOK
<1> QED BY <1>2 DEF TypeOK, Transmit

\* The receive interrupt keeps the client well typed.
LEMMA ReceiveReplyType ==
  ASSUME TypeOK, NEW f \in Reply, ReceiveReply(f)
  PROVE  ClientTypeOK'
<1>1. FrameLen(f.len) \in Nat
  BY DEF Reply, FrameLen, UdpDataOffset
<1> QED BY <1>1 DEF TypeOK, ClientTypeOK, ReceiveReply

\* The conjunct of BufferState that typing needs.
Targeted == pc # "idle" => req.srv \in Servers

\* Every step keeps all variables well typed.
LEMMA NextType ==
  ASSUME TypeOK, Targeted, [Next]_vars
  PROVE  TypeOK'
<1>1. ASSUME NEW s \in Servers, NEW op \in Ops, PrepareStep(s, op)
      PROVE  TypeOK'
  <2>1. ClientTypeOK'
    BY <1>1, ClientAssumption DEF PrepareStep, Prepare, TypeOK, ClientTypeOK, PC
  <2> QED BY <1>1, <2>1, ClientStepType DEF PrepareStep
<1>2. CASE LocalStep
  <2>1. ClientTypeOK'
    BY <1>2 DEF LocalStep, LocalRequest, TypeOK, ClientTypeOK
  <2> QED BY <1>2, <2>1, ClientStepType DEF LocalStep
<1>3. CASE StartWaitStep
  <2>1. ClientTypeOK'
    BY <1>3, ClientAssumption
    DEF StartWaitStep, StartWait, TypeOK, ClientTypeOK, PC
  <2>2. req.srv \in Servers
    BY <1>3 DEF StartWaitStep, StartWait, Targeted
  <2> QED BY <1>3, <2>1, <2>2, TransmitType
          DEF StartWaitStep, TypeOK, ServerTypeOK, serverVars
<1>4. CASE ResendStep
  <2>1. ClientTypeOK'
    BY <1>4, ClientAssumption DEF ResendStep, Resend, TypeOK, ClientTypeOK
  <2>2. req.srv \in Servers
    BY <1>4 DEF ResendStep, Resend, Targeted
  <2> QED BY <1>4, <2>1, <2>2, TransmitType
          DEF ResendStep, TypeOK, ServerTypeOK, serverVars
<1>5. CASE GiveUpStep
  <2>1. ClientTypeOK'
    BY <1>5 DEF GiveUpStep, GiveUp, TypeOK, ClientTypeOK, PC
  <2> QED BY <1>5, <2>1, ClientStepType DEF GiveUpStep
<1>6. CASE ReadLenStep
  <2>1. ClientTypeOK'
    BY <1>6 DEF ReadLenStep, ReadLen, TypeOK, ClientTypeOK, PC, Reply
  <2> QED BY <1>6, <2>1, ClientStepType DEF ReadLenStep
<1>7. CASE CheckLenStep
  <2>1. ClientTypeOK'
    BY <1>7 DEF CheckLenStep, CheckLen, IgnoreFrame, TypeOK, ClientTypeOK, PC
  <2> QED BY <1>7, <2>1, ClientStepType DEF CheckLenStep
<1>8. CASE ValidateStep
  <2>1. ClientTypeOK'
    BY <1>8 DEF ValidateStep, Validate, IgnoreFrame, TypeOK, ClientTypeOK, PC
  <2> QED BY <1>8, <2>1, ClientStepType DEF ValidateStep
<1>9. CASE FinishStep
  <2>1. ClientTypeOK'
    BY <1>9 DEF FinishStep, Finish, TypeOK, ClientTypeOK, PC
  <2> QED BY <1>9, <2>1, ClientStepType DEF FinishStep
<1>10. ASSUME NEW s \in Servers, NEW i \in 1 .. Len(s2c[s]),
              ReceiveReplyStep(s, i)
       PROVE  TypeOK'
  <2>1. s2c[s] \in Seq(Reply) /\ s2c[s][i] \in Reply
    BY ElementOfSeq DEF TypeOK
  <2>2. ClientTypeOK'
    BY <1>10, <2>1, ReceiveReplyType DEF ReceiveReplyStep
  <2>3. RemoveAt(s2c[s], i) \in Seq(Reply)
    BY <2>1, RemoveAtFacts
  <2> QED BY <1>10, <2>2, <2>3
          DEF ReceiveReplyStep, TypeOK, ServerTypeOK, serverVars
<1>11. ASSUME NEW n \in JunkLens, ReceiveOtherStep(n)
       PROVE  TypeOK'
  <2>1. ClientTypeOK'
    BY <1>11, JunkType, ClientAssumption
    DEF ReceiveOtherStep, ReceiveOther, TypeOK, ClientTypeOK
  <2> QED BY <1>11, <2>1, ClientStepType DEF ReceiveOtherStep
<1>12. ASSUME NEW s \in Servers, NEW i \in 1 .. Len(c2s[s]), ServeStep(s, i)
       PROVE  TypeOK'
  <2> DEFINE m == c2s[s][i]
  <2>1. c2s[s] \in Seq(Request) /\ m \in Request /\ m.id \in Nat
    <3>1. c2s[s] \in Seq(Request)
      BY DEF TypeOK
    <3>2. m \in Request
      BY <3>1, ElementOfSeq
    <3> QED BY <3>1, <3>2 DEF Request
  <2>2. NewEntry(s, m) \in Entry
    BY <2>1, NewEntryType
  <2>3. NewEntry(s, m).reply \in Reply
    BY <2>2 DEF Entry
  <2>4. /\ s2c[s] \in Seq(Reply)
        /\ Push(s2c[s], NewEntry(s, m).reply) \in Seq(Reply)
    BY <2>3, PushFacts DEF TypeOK
  <2>5. RemoveAt(c2s[s], i) \in Seq(Request)
    BY <2>1, RemoveAtFacts
  <2>6. execLog[s] \in Seq(Nat) /\ Append(execLog[s], m.id) \in Seq(Nat)
    BY <2>1 DEF TypeOK, ServerTypeOK
  <2> HIDE DEF m
  <2>7. Serve(s, m) /\ UNCHANGED clientVars
    BY <1>12 DEF ServeStep, m
  <2>8. ServerTypeOK'
    BY <2>2, <2>6, <2>7 DEF Serve, TypeOK, ServerTypeOK
  <2>9. s2c' \in [Servers -> Seq(Reply)]
    <3>1. s2c' = IF NewEntry(s, m).answered
                 THEN [s2c EXCEPT ![s] = Push(@, NewEntry(s, m).reply)]
                 ELSE s2c
      BY <1>12 DEF ServeStep, m
    <3> QED BY <3>1, <2>4 DEF TypeOK
  <2>10. c2s' \in [Servers -> Seq(Request)]
    BY <1>12, <2>5 DEF ServeStep, TypeOK
  <2>11. ClientTypeOK'
    BY <2>7 DEF TypeOK, ClientTypeOK, clientVars
  <2> QED BY <2>8, <2>9, <2>10, <2>11 DEF TypeOK
<1>13. ASSUME NEW s \in Servers, LoseEntryStep(s)
       PROVE  TypeOK'
  <2>1. NoEntry \in Entry
    BY SomeOp, JunkType, RequestMsgType DEF NoEntry, Entry, NoReply
  <2> QED BY <1>13, <2>1
          DEF LoseEntryStep, LoseEntry, TypeOK, ServerTypeOK, ClientTypeOK,
              clientVars, netVars
<1>14. ASSUME NEW s \in Servers, NEW i \in 1 .. Len(c2s[s]), LoseRequest(s, i)
       PROVE  TypeOK'
  <2>1. RemoveAt(c2s[s], i) \in Seq(Request)
    BY RemoveAtFacts DEF TypeOK
  <2> QED BY <1>14, <2>1
          DEF LoseRequest, TypeOK, ServerTypeOK, ClientTypeOK, clientVars,
              serverVars
<1>15. ASSUME NEW s \in Servers, NEW i \in 1 .. Len(s2c[s]), LoseReply(s, i)
       PROVE  TypeOK'
  <2>1. RemoveAt(s2c[s], i) \in Seq(Reply)
    BY RemoveAtFacts DEF TypeOK
  <2> QED BY <1>15, <2>1
          DEF LoseReply, TypeOK, ServerTypeOK, ClientTypeOK, clientVars,
              serverVars
<1>16. CASE UNCHANGED vars
  BY <1>16 DEF vars, clientVars, serverVars, netVars, TypeOK, ClientTypeOK,
               ServerTypeOK
<1> QED
  BY <1>1, <1>2, <1>3, <1>4, <1>5, <1>6, <1>7, <1>8, <1>9, <1>10, <1>11,
     <1>12, <1>13, <1>14, <1>15, <1>16
  DEF Next, Foreground, Interrupt, ServerSide, Loss

(***************************************************************************)
(* Messages are about requests already issued                              *)
(***************************************************************************)

\* Removing a datagram leaves only datagrams of issued requests.
LEMMA RemoveKeepsIssued ==
  ASSUME TypeOK, MessagesIssued, NEW s \in Servers
  PROVE  /\ \A i \in 1 .. Len(c2s[s]) : \A k \in 1 .. Len(RemoveAt(c2s[s], i)) :
              OfIssuedRequest(RemoveAt(c2s[s], i)[k])
         /\ \A i \in 1 .. Len(s2c[s]) : \A k \in 1 .. Len(RemoveAt(s2c[s], i)) :
              /\ OfIssuedRequest(RemoveAt(s2c[s], i)[k])
              /\ RemoveAt(s2c[s], i)[k].src = s
<1>1. c2s[s] \in Seq(Request) /\ s2c[s] \in Seq(Reply)
  BY DEF TypeOK
<1>2. ASSUME NEW i \in 1 .. Len(c2s[s]), NEW k \in 1 .. Len(RemoveAt(c2s[s], i))
      PROVE  OfIssuedRequest(RemoveAt(c2s[s], i)[k])
  <2>1. PICK j \in 1 .. Len(c2s[s]) : RemoveAt(c2s[s], i)[k] = c2s[s][j]
    BY <1>1, <1>2, RemoveAtElement
  <2> QED BY <2>1 DEF MessagesIssued
<1>3. ASSUME NEW i \in 1 .. Len(s2c[s]), NEW k \in 1 .. Len(RemoveAt(s2c[s], i))
      PROVE  /\ OfIssuedRequest(RemoveAt(s2c[s], i)[k])
             /\ RemoveAt(s2c[s], i)[k].src = s
  <2>1. PICK j \in 1 .. Len(s2c[s]) : RemoveAt(s2c[s], i)[k] = s2c[s][j]
    BY <1>1, <1>3, RemoveAtElement
  <2> QED BY <2>1 DEF MessagesIssued
<1> QED BY <1>2, <1>3

\* The server's new cache entry for an issued request.
LEMMA NewEntryIssued ==
  ASSUME TypeOK, MessagesIssued, NEW s \in Servers,
         NEW m \in Request, OfIssuedRequest(m)
  PROVE  /\ OfIssuedRequest(NewEntry(s, m).msg)
         /\ OfIssuedRequest(NewEntry(s, m).reply)
         /\ NewEntry(s, m).answered => NewEntry(s, m).reply.src = s
<1>1. cache[s] \in Entry
  BY DEF TypeOK, ServerTypeOK
<1>2. OfIssuedRequest(NoReply)
  BY WireAssumption DEF OfIssuedRequest, NoReply, Junk, Sequence, TypeOK, ClientTypeOK
<1>3. OfIssuedRequest(ReplyMsg(s, m)) /\ ReplyMsg(s, m).src = s
  BY DEF OfIssuedRequest, ReplyMsg
<1>4. CASE SameRequest(cache[s], m)
  BY <1>1, <1>4 DEF NewEntry, Entry, MessagesIssued
<1>5. CASE ~SameRequest(cache[s], m)
  BY <1>2, <1>3, <1>5 DEF NewEntry
<1> QED BY <1>4, <1>5

\* The steps of the client that send nothing.
LEMMA QuietStepIssued ==
  ASSUME TypeOK, MessagesIssued, UNCHANGED <<serverVars, netVars>>,
         req'.id \in Nat, req.id <= req'.id
  PROVE  MessagesIssued'
<1>1. ASSUME NEW m, m.id \in Nat, OfIssuedRequest(m)
      PROVE  m.id <= req'.id /\ m.seq = Sequence(m.id)
  BY <1>1 DEF OfIssuedRequest, TypeOK, ClientTypeOK
<1>2. c2s' = c2s /\ s2c' = s2c /\ cache' = cache
  BY DEF serverVars, netVars
<1> SUFFICES ASSUME NEW s \in Servers
    PROVE  /\ \A i \in 1 .. Len(c2s[s]) :
                c2s[s][i].id <= req'.id /\ c2s[s][i].seq = Sequence(c2s[s][i].id)
           /\ \A i \in 1 .. Len(s2c[s]) :
                /\ s2c[s][i].id <= req'.id
                /\ s2c[s][i].seq = Sequence(s2c[s][i].id)
                /\ s2c[s][i].src = s
           /\ cache[s].msg.id <= req'.id
           /\ cache[s].msg.seq = Sequence(cache[s].msg.id)
           /\ cache[s].reply.id <= req'.id
           /\ cache[s].reply.seq = Sequence(cache[s].reply.id)
           /\ cache[s].answered => cache[s].reply.src = s
  BY <1>2 DEF MessagesIssued, OfIssuedRequest
<1>3. c2s[s] \in Seq(Request) /\ s2c[s] \in Seq(Reply) /\ cache[s] \in Entry
  BY DEF TypeOK, ServerTypeOK
<1>4. \A i \in 1 .. Len(c2s[s]) : c2s[s][i] \in Request
  BY <1>3, ElementOfSeq
<1>5. \A i \in 1 .. Len(s2c[s]) : s2c[s][i] \in Reply
  BY <1>3, ElementOfSeq
<1>6. /\ \A i \in 1 .. Len(c2s[s]) : c2s[s][i].id \in Nat
      /\ \A i \in 1 .. Len(s2c[s]) : s2c[s][i].id \in Nat
      /\ cache[s].msg.id \in Nat /\ cache[s].reply.id \in Nat
  BY <1>3, <1>4, <1>5 DEF Request, Reply, Entry
<1> QED BY <1>1, <1>6 DEF MessagesIssued

\* The request sent is an issued one, with its own number.
LEMMA TransmitIssued ==
  ASSUME TypeOK, MessagesIssued, req.srv \in Servers, Transmit,
         UNCHANGED serverVars, req' = req
  PROVE  MessagesIssued'
<1> DEFINE m == RequestMsg(req.id, req.op)
<1>1. m \in Request /\ OfIssuedRequest(m)
  BY RequestMsgType
  DEF TypeOK, ClientTypeOK, OfIssuedRequest, RequestMsg
<1> HIDE DEF m
<1>2. /\ c2s' = [c2s EXCEPT ![req.srv] = Push(@, m)]
      /\ s2c' = s2c /\ cache' = cache
  BY DEF Transmit, m, serverVars
<1>3. ASSUME NEW s \in Servers, NEW i \in 1 .. Len(c2s'[s])
      PROVE  OfIssuedRequest(c2s'[s][i])
  <2>1. CASE s = req.srv
    <3>1. c2s[s] \in Seq(Request) /\ c2s'[s] = Push(c2s[s], m)
      BY <1>2, <2>1 DEF TypeOK
    <3>2. \A k \in 1 .. Len(Push(c2s[s], m)) :
            \/ k \in 1 .. Len(c2s[s]) /\ Push(c2s[s], m)[k] = c2s[s][k]
            \/ Push(c2s[s], m)[k] = m
      <4>1. c2s[s] \in Seq(Request) /\ m \in Request
        BY <3>1, <1>1
      <4> QED BY <4>1, PushFacts
    <3>3. \/ i \in 1 .. Len(c2s[s]) /\ c2s'[s][i] = c2s[s][i]
          \/ c2s'[s][i] = m
      BY <3>1, <3>2
    <3> QED BY <3>3, <1>1 DEF MessagesIssued
  <2>2. CASE s # req.srv
    BY <1>2, <2>2 DEF TypeOK, MessagesIssued
  <2> QED BY <2>1, <2>2
<1> QED BY <1>2, <1>3 DEF MessagesIssued, OfIssuedRequest

\* A datagram is taken out of a queue of requests or of replies.
LEMMA RemoveRequestIssued ==
  ASSUME TypeOK, MessagesIssued,
         NEW s \in Servers, NEW i \in 1 .. Len(c2s[s]),
         c2s' = [c2s EXCEPT ![s] = RemoveAt(@, i)]
  PROVE  \A t \in Servers : \A k \in 1 .. Len(c2s'[t]) :
           OfIssuedRequest(c2s'[t][k])
<1> TAKE t \in Servers
<1>1. CASE t = s
  <2>1. c2s'[t] = RemoveAt(c2s[s], i)
    BY <1>1 DEF TypeOK
  <2>2. \A k \in 1 .. Len(RemoveAt(c2s[s], i)) :
          OfIssuedRequest(RemoveAt(c2s[s], i)[k])
    BY RemoveKeepsIssued
  <2> QED BY <2>1, <2>2
<1>2. CASE t # s
  <2>1. c2s'[t] = c2s[t]
    BY <1>2 DEF TypeOK
  <2> QED BY <2>1 DEF MessagesIssued
<1> QED BY <1>1, <1>2

\* Taking a reply out of the network keeps MessagesIssued.
LEMMA RemoveReplyIssued ==
  ASSUME TypeOK, MessagesIssued,
         NEW s \in Servers, NEW i \in 1 .. Len(s2c[s]),
         s2c' = [s2c EXCEPT ![s] = RemoveAt(@, i)]
  PROVE  \A t \in Servers : \A k \in 1 .. Len(s2c'[t]) :
           OfIssuedRequest(s2c'[t][k]) /\ s2c'[t][k].src = t
<1> TAKE t \in Servers
<1>1. CASE t = s
  <2>1. s2c'[t] = RemoveAt(s2c[s], i)
    BY <1>1 DEF TypeOK
  <2> QED BY <1>1, <2>1, RemoveKeepsIssued
<1>2. CASE t # s
  <2>1. s2c'[t] = s2c[t]
    BY <1>2 DEF TypeOK
  <2> QED BY <2>1 DEF MessagesIssued
<1> QED BY <1>1, <1>2

\* The reply of a server carries the number of an issued request.
LEMMA ServeIssued ==
  ASSUME TypeOK, MessagesIssued,
         NEW s \in Servers, NEW i \in 1 .. Len(c2s[s]), ServeStep(s, i)
  PROVE  MessagesIssued'
<1> DEFINE m == c2s[s][i]
           e == NewEntry(s, m)
<1>1. m \in Request /\ OfIssuedRequest(m)
  <2>1. c2s[s] \in Seq(Request)
    BY DEF TypeOK
  <2> QED BY <2>1, ElementOfSeq DEF MessagesIssued
<1>2. /\ OfIssuedRequest(e.msg) /\ OfIssuedRequest(e.reply)
      /\ e.answered => e.reply.src = s
      /\ e.reply \in Reply
  <2>1. e \in Entry
    BY <1>1, NewEntryType
  <2> QED BY <2>1, <1>1, NewEntryIssued DEF Entry
<1>3. /\ cache' = [cache EXCEPT ![s] = e]
      /\ s2c' = IF e.answered THEN [s2c EXCEPT ![s] = Push(@, e.reply)] ELSE s2c
      /\ c2s' = [c2s EXCEPT ![s] = RemoveAt(@, i)]
      /\ req' = req
  BY DEF ServeStep, Serve, clientVars
<1> HIDE DEF m, e
<1>4. ASSUME NEW t \in Servers, NEW k \in 1 .. Len(c2s'[t])
      PROVE  OfIssuedRequest(c2s'[t][k])
  BY <1>3, RemoveRequestIssued
<1>5. ASSUME NEW t \in Servers, NEW k \in 1 .. Len(s2c'[t])
      PROVE  OfIssuedRequest(s2c'[t][k]) /\ s2c'[t][k].src = t
  <2>1. CASE t = s /\ e.answered
    <3>1. s2c[s] \in Seq(Reply) /\ s2c'[s] = Push(s2c[s], e.reply)
      BY <1>3, <2>1 DEF TypeOK
    <3>2. \A j \in 1 .. Len(Push(s2c[s], e.reply)) :
            \/ j \in 1 .. Len(s2c[s]) /\ Push(s2c[s], e.reply)[j] = s2c[s][j]
            \/ Push(s2c[s], e.reply)[j] = e.reply
      BY <3>1, <1>2, PushFacts
    <3>3. \/ k \in 1 .. Len(s2c[s]) /\ s2c'[s][k] = s2c[s][k]
          \/ s2c'[s][k] = e.reply
      BY <3>1, <3>2, <2>1
    <3> QED BY <3>3, <2>1, <1>2 DEF MessagesIssued
  <2>2. CASE ~(t = s /\ e.answered)
    BY <1>3, <2>2 DEF TypeOK, MessagesIssued
  <2> QED BY <2>1, <2>2
<1>6. ASSUME NEW t \in Servers
      PROVE  /\ OfIssuedRequest(cache'[t].msg) /\ OfIssuedRequest(cache'[t].reply)
             /\ cache'[t].answered => cache'[t].reply.src = t
  BY <1>2, <1>3 DEF TypeOK, ServerTypeOK, MessagesIssued
<1> QED BY <1>3, <1>4, <1>5, <1>6 DEF MessagesIssued, OfIssuedRequest

\* Every step keeps the messages about issued requests.
LEMMA NextIssued ==
  ASSUME TypeOK, TypeOK', MessagesIssued, Targeted, [Next]_vars
  PROVE  MessagesIssued'
<1>1. req.id \in Nat /\ req'.id \in Nat
  BY DEF TypeOK, ClientTypeOK
<1>2. ASSUME NEW s \in Servers, NEW op \in Ops, PrepareStep(s, op)
      PROVE  MessagesIssued'
  <2>1. req.id <= req'.id
    BY <1>1, <1>2 DEF PrepareStep, Prepare
  <2> QED BY <1>1, <1>2, <2>1, QuietStepIssued DEF PrepareStep
<1>3. CASE \/ LocalStep \/ GiveUpStep \/ ReadLenStep \/ CheckLenStep
           \/ ValidateStep \/ FinishStep \/ \E n \in JunkLens : ReceiveOtherStep(n)
  <2>1. UNCHANGED <<serverVars, netVars>> /\ req' = req
    BY <1>3 DEF LocalStep, LocalRequest, GiveUpStep, GiveUp, ReadLenStep,
                ReadLen, CheckLenStep, CheckLen, ValidateStep, Validate,
                IgnoreFrame, FinishStep, Finish, ReceiveOtherStep, ReceiveOther
  <2> QED BY <1>1, <2>1, QuietStepIssued
<1>4. CASE StartWaitStep \/ ResendStep
  <2>1. req.srv \in Servers
    BY <1>4 DEF StartWaitStep, StartWait, ResendStep, Resend, Targeted
  <2> QED BY <1>4, <2>1, TransmitIssued
          DEF StartWaitStep, StartWait, ResendStep, Resend
<1>5. ASSUME NEW s \in Servers, NEW i \in 1 .. Len(s2c[s]),
             ReceiveReplyStep(s, i) \/ LoseReply(s, i)
      PROVE  MessagesIssued'
  <2>1. /\ s2c' = [s2c EXCEPT ![s] = RemoveAt(@, i)]
        /\ c2s' = c2s /\ cache' = cache /\ req' = req
    BY <1>5 DEF ReceiveReplyStep, ReceiveReply, LoseReply, serverVars, clientVars
  <2>2. \A t \in Servers : \A k \in 1 .. Len(s2c'[t]) :
          OfIssuedRequest(s2c'[t][k]) /\ s2c'[t][k].src = t
    BY <2>1, RemoveReplyIssued
  <2> QED BY <2>1, <2>2 DEF MessagesIssued, OfIssuedRequest
<1>6. ASSUME NEW s \in Servers, NEW i \in 1 .. Len(c2s[s]), LoseRequest(s, i)
      PROVE  MessagesIssued'
  <2>1. /\ c2s' = [c2s EXCEPT ![s] = RemoveAt(@, i)]
        /\ s2c' = s2c /\ cache' = cache /\ req' = req
    BY <1>6 DEF LoseRequest, serverVars, clientVars
  <2>2. \A t \in Servers : \A k \in 1 .. Len(c2s'[t]) :
          OfIssuedRequest(c2s'[t][k])
    BY <2>1, RemoveRequestIssued
  <2> QED BY <2>1, <2>2 DEF MessagesIssued, OfIssuedRequest
<1>7. ASSUME NEW s \in Servers, NEW i \in 1 .. Len(c2s[s]), ServeStep(s, i)
      PROVE  MessagesIssued'
  BY <1>7, ServeIssued
<1>8. ASSUME NEW s \in Servers, LoseEntryStep(s)
      PROVE  MessagesIssued'
  <2>1. /\ c2s' = c2s /\ s2c' = s2c /\ req' = req
        /\ cache' = [cache EXCEPT ![s] = NoEntry]
    BY <1>8 DEF LoseEntryStep, LoseEntry, clientVars, netVars
  <2>2. /\ OfIssuedRequest(NoEntry.msg) /\ OfIssuedRequest(NoEntry.reply)
        /\ ~NoEntry.answered
    BY <1>1, WireAssumption
    DEF OfIssuedRequest, NoEntry, NoReply, Junk, RequestMsg, Sequence
  <2>3. ASSUME NEW t \in Servers
        PROVE  /\ OfIssuedRequest(cache'[t].msg)
               /\ OfIssuedRequest(cache'[t].reply)
               /\ cache'[t].answered => cache'[t].reply.src = t
    BY <2>1, <2>2 DEF MessagesIssued, TypeOK, ServerTypeOK
  <2> QED BY <2>1, <2>3 DEF MessagesIssued, OfIssuedRequest
<1>9. CASE UNCHANGED vars
  BY <1>9 DEF vars, clientVars, serverVars, netVars, MessagesIssued,
              OfIssuedRequest
<1> QED
  BY <1>2, <1>3, <1>4, <1>5, <1>6, <1>7, <1>8, <1>9
  DEF Next, Foreground, Interrupt, ServerSide, Loss

(***************************************************************************)
(* The receive buffer                                                      *)
(***************************************************************************)

\* Every step keeps what the flag, the length and the buffer mean.
LEMMA NextBuffer ==
  ASSUME TypeOK, TypeOK', MessagesIssued, BufferState, [Next]_vars
  PROVE  BufferState'
<1> USE DEF BufferState, OfIssuedRequest, SequenceOK, ChecksumOK
<1>1. /\ req.id \in Nat /\ req'.id \in Nat /\ recvLen \in Nat
      /\ buf.id \in Nat /\ recvLen' \in Nat
  BY DEF TypeOK, ClientTypeOK, Reply
<1>2. ASSUME NEW s \in Servers, NEW op \in Ops, PrepareStep(s, op)
      PROVE  BufferState'
  BY <1>1, <1>2 DEF PrepareStep, Prepare
<1>3. CASE LocalStep
  BY <1>3 DEF LocalStep, LocalRequest
<1>4. CASE StartWaitStep
  BY <1>4 DEF StartWaitStep, StartWait
<1>5. CASE ResendStep
  BY <1>5 DEF ResendStep, Resend
<1>6. CASE GiveUpStep
  BY <1>6 DEF GiveUpStep, GiveUp
<1>7. CASE ReadLenStep
  BY <1>7 DEF ReadLenStep, ReadLen
<1>8. CASE CheckLenStep
  <2>1. LengthOK => recvLen > 0
    BY <1>1 DEF LengthOK, HdrLen, TypeOK, ClientTypeOK
  <2> QED BY <1>8, <2>1 DEF CheckLenStep, CheckLen, IgnoreFrame
<1>9. CASE ValidateStep
  BY <1>9 DEF ValidateStep, Validate, IgnoreFrame
<1>10. CASE FinishStep
  BY <1>10 DEF FinishStep, Finish
<1>11. ASSUME NEW s \in Servers, NEW i \in 1 .. Len(s2c[s]),
              ReceiveReplyStep(s, i)
       PROVE  BufferState'
  <2>1. OfIssuedRequest(s2c[s][i])
    BY DEF MessagesIssued
  <2>2. CASE recvLen = 0
    BY <1>11, <2>1, <2>2
    DEF ReceiveReplyStep, ReceiveReply, BufferFree, FromLastRemote
  <2>3. CASE recvLen # 0
    BY <1>11, <2>3 DEF ReceiveReplyStep, ReceiveReply, BufferFree
  <2> QED BY <2>2, <2>3
<1>12. ASSUME NEW n \in JunkLens, ReceiveOtherStep(n)
       PROVE  BufferState'
  <2>1. 0 = Sequence(0)
    BY WireAssumption DEF Sequence
  <2> QED BY <1>1, <1>12, <2>1
          DEF ReceiveOtherStep, ReceiveOther, Junk, BufferFree
<1>13. CASE UNCHANGED clientVars
  BY <1>13 DEF clientVars
<1>14. ASSUME NEW s \in Servers,
              \/ \E i \in 1 .. Len(c2s[s]) : ServeStep(s, i) \/ LoseRequest(s, i)
              \/ \E i \in 1 .. Len(s2c[s]) : LoseReply(s, i)
              \/ LoseEntryStep(s)
       PROVE  UNCHANGED clientVars
  BY <1>14 DEF ServeStep, LoseRequest, LoseReply, LoseEntryStep
<1> QED
  BY <1>2, <1>3, <1>4, <1>5, <1>6, <1>7, <1>8, <1>9, <1>10, <1>11, <1>12,
     <1>13, <1>14
  DEF Next, Foreground, Interrupt, ServerSide, Loss, vars

(***************************************************************************)
(* The client's theorems                                                   *)
(***************************************************************************)

\* ClientInv holds at the start.
LEMMA InitClientInv == Init => ClientInv
<1> SUFFICES ASSUME Init PROVE ClientInv
  OBVIOUS
<1>1. TypeOK
  BY InitType
<1>2. 0 = Sequence(0) /\ req.id = 0
  BY WireAssumption DEF Sequence, Init, ClientInit, NoRequest
<1>3. MessagesIssued
  BY <1>2 DEF Init, ServerInit, MessagesIssued, OfIssuedRequest, NoEntry,
              NoReply, Junk, RequestMsg
<1>4. BufferState
  BY <1>2 DEF Init, ClientInit, BufferState, OfIssuedRequest, Junk
<1> QED BY <1>1, <1>3, <1>4 DEF ClientInv

\* ClientInv is inductive.
LEMMA NextClientInv == ClientInv /\ [Next]_vars => ClientInv'
<1> SUFFICES ASSUME ClientInv, [Next]_vars PROVE ClientInv'
  OBVIOUS
<1>1. TypeOK /\ MessagesIssued /\ BufferState /\ Targeted
  BY DEF ClientInv, BufferState, Targeted
<1>2. TypeOK'
  BY <1>1, NextType
<1>3. MessagesIssued'
  BY <1>1, <1>2, NextIssued
<1>4. BufferState'
  BY <1>1, <1>2, NextBuffer
<1> QED BY <1>2, <1>3, <1>4 DEF ClientInv

\* The types, the messages' numbers and the meaning of the flag and the
\* length of the receive buffer are inductive.
THEOREM ClientInvariant == Spec => []ClientInv
BY InitClientInv, NextClientInv, PTL DEF Spec

\* Whatever the network loses, delays or reorders and whichever cache entries
\* are lost, send_request accepts only replies of the server it asked, to
\* the request it sent or to one at least SeqCount requests old.
THEOREM AcceptedReplyHolds == Spec => []AcceptedReply
<1>1. ClientInv => AcceptedReply
  <2> SUFFICES ASSUME ClientInv, pc = "use" PROVE AcceptedReply
    BY DEF AcceptedReply
  <2>1. /\ OfIssuedRequest(buf) /\ buf.src = req.srv
        /\ buf.seq = Sequence(req.id)
    BY DEF ClientInv, BufferState, SequenceOK
  <2>2. buf.id \in Nat /\ req.id \in Nat
    BY DEF ClientInv, TypeOK, ClientTypeOK, Reply
  <2>3. buf.id <= req.id /\ Sequence(buf.id) = Sequence(req.id)
    BY <2>1 DEF OfIssuedRequest
  <2>4. buf.id = req.id \/ buf.id + SeqCount <= req.id
    BY <2>2, <2>3, SequenceWraps
  <2> QED BY <2>1, <2>4 DEF AcceptedReply
<1> QED BY <1>1, ClientInvariant, PTL

\* With the drive's checksums enabled, send_request returns the length of the
\* reply it accepted, in spite of the early read of the length field.
THEOREM AcceptedLengthHolds ==
  ASSUME ChecksumEnabled
  PROVE  Spec => []AcceptedLength
<1>1. ClientInv => AcceptedLength
  BY DEF ClientInv, BufferState, ChecksumOK, AcceptedLength
<1> QED BY <1>1, ClientInvariant, PTL

\* No interrupt overwrites a reply between its length check and the end of
\* its use.
THEOREM ReplyHeldHolds == Spec => ReplyHeld
<1>1. ASSUME ClientInv, [Next]_vars, pc \in {"validate", "use"},
             pc' \in {"validate", "use"}
      PROVE  buf' = buf
  <2>1. recvLen # 0
    BY <1>1 DEF ClientInv, BufferState, TypeOK, ClientTypeOK
  <2> QED
    BY <1>1, <2>1
    DEF Next, Foreground, Interrupt, ServerSide, Loss, vars, clientVars,
        PrepareStep, Prepare, LocalStep, LocalRequest, StartWaitStep,
        StartWait, ResendStep, Resend, GiveUpStep, GiveUp, ReadLenStep,
        ReadLen, CheckLenStep, CheckLen, ValidateStep, Validate, IgnoreFrame,
        FinishStep, Finish, ReceiveReplyStep, ReceiveReply, ReceiveOtherStep,
        ReceiveOther, BufferFree, ServeStep, LoseEntryStep, LoseRequest,
        LoseReply
<1>2. ClientInv /\ [Next]_vars =>
        [(pc \in {"validate", "use"} /\ pc' \in {"validate", "use"})
           => buf' = buf]_vars
  BY <1>1
<1> QED BY <1>2, ClientInvariant, PTL DEF Spec, ReplyHeld

(***************************************************************************)
(* The server's theorem: a network that keeps order, a cache that keeps    *)
(* its entries                                                             *)
(***************************************************************************)

\* The types of one server's queue, log and cache entry, element by element.
LEMMA ServerElements ==
  ASSUME TypeOK, NEW s \in Servers
  PROVE  /\ c2s[s] \in Seq(Request) /\ Len(c2s[s]) \in Nat
         /\ \A i \in 1 .. Len(c2s[s]) :
              c2s[s][i] \in Request /\ c2s[s][i].id \in Nat
         /\ execLog[s] \in Seq(Nat) /\ Len(execLog[s]) \in Nat
         /\ \A i \in 1 .. Len(execLog[s]) : execLog[s][i] \in Nat
         /\ cache[s] \in Entry /\ cache[s].msg.id \in Nat
         /\ LastSeen(cache[s]) \in Nat
<1>1. c2s[s] \in Seq(Request) /\ execLog[s] \in Seq(Nat) /\ cache[s] \in Entry
  BY DEF TypeOK, ServerTypeOK
<1>2. \A i \in 1 .. Len(c2s[s]) : c2s[s][i] \in Request
  BY <1>1, ElementOfSeq
<1>3. \A i \in 1 .. Len(execLog[s]) : execLog[s][i] \in Nat
  BY <1>1, ElementOfSeq
<1>4. cache[s].msg.id \in Nat
  BY <1>1 DEF Entry, Request
<1> QED BY <1>1, <1>2, <1>3, <1>4 DEF Request, LastSeen

\* A new request: no message can carry its number yet.
LEMMA PrepareOrder ==
  ASSUME TypeOK, MessagesIssued, ServerInv, NEW t \in Servers, NEW op \in Ops,
         Prepare(t, op), UNCHANGED <<serverVars, netVars>>
  PROVE  ServerInv'
<1>1. /\ c2s' = c2s /\ cache' = cache /\ execLog' = execLog
      /\ req'.id = req.id + 1 /\ req.id \in Nat
  BY DEF Prepare, serverVars, netVars, TypeOK, ClientTypeOK
<1>2. ASSUME NEW s \in Servers
      PROVE  ServerOrder(c2s[s], cache[s], execLog[s], req')
  <2>1. ServerOrder(c2s[s], cache[s], execLog[s], req)
    BY DEF ServerInv
  <2>2. /\ \A i \in 1 .. Len(c2s[s]) : c2s[s][i].id <= req.id
        /\ cache[s].msg.id <= req.id
    BY DEF MessagesIssued, OfIssuedRequest
  <2> QED BY <1>1, <2>1, <2>2, ServerElements
          DEF ServerOrder, FifoOrder, SameIdSameOp
<1>3. req'.id >= 1
  BY <1>1
<1> QED BY <1>1, <1>2, <1>3 DEF ServerInv

\* Taking one request out of the queue keeps the order of the others.
LEMMA RemoveOrder ==
  ASSUME NEW q \in Seq(Request), NEW i \in 1 .. Len(q), NEW e, NEW l, NEW r,
         ServerOrder(q, e, l, r)
  PROVE  ServerOrder(RemoveAt(q, i), e, l, r)
<1> DEFINE p == RemoveAt(q, i)
<1>1. Len(p) = Len(q) - 1 /\ Len(q) \in Nat
  BY RemoveAtFacts
<1>2. \A k \in 1 .. Len(p) :
        \/ k < i /\ p[k] = q[k]
        \/ k >= i /\ p[k] = q[k + 1]
  BY RemoveAtFacts
<1>3. \A k \in 1 .. Len(p) : \E j \in 1 .. Len(q) : p[k] = q[j]
  BY RemoveAtElement
<1> HIDE DEF p
<1>4. ASSUME NEW a \in 1 .. Len(p), NEW b \in 1 .. Len(p), a < b
      PROVE  p[a].id <= p[b].id
  <2>1. PICK c \in {a, a + 1} : p[a] = q[c] /\ (a < i => c = a)
    BY <1>2
  <2>2. PICK d \in {b, b + 1} : p[b] = q[d] /\ (b >= i => d = b + 1)
    BY <1>2
  <2>3. c \in 1 .. Len(q) /\ d \in 1 .. Len(q) /\ c < d
    BY <1>1, <1>4, <2>1, <2>2
  <2> QED BY <2>1, <2>2, <2>3 DEF ServerOrder, FifoOrder
<1>5. \A k \in 1 .. Len(p) : p[k].id >= 1 /\ LastSeen(e) <= p[k].id
  BY <1>3 DEF ServerOrder, FifoOrder
<1>6. FifoOrder(p, e, l, r)
  BY <1>4, <1>5 DEF ServerOrder, FifoOrder
<1>7. ASSUME NEW a \in 1 .. Len(p), NEW b \in 1 .. Len(p), p[a].id = p[b].id
      PROVE  p[a].op = p[b].op
  <2>1. PICK c \in 1 .. Len(q) : p[a] = q[c]
    BY <1>3
  <2>2. PICK d \in 1 .. Len(q) : p[b] = q[d]
    BY <1>3
  <2> QED BY <1>7, <2>1, <2>2 DEF ServerOrder, SameIdSameOp
<1>8. SameIdSameOp(p, e, r)
  BY <1>3, <1>7 DEF ServerOrder, SameIdSameOp
<1> QED BY <1>6, <1>8 DEF ServerOrder, p

\* Sending the current request keeps the order: no number is higher.
LEMMA PushOrder ==
  ASSUME NEW q \in Seq(Request), NEW m \in Request, NEW e, NEW l, NEW r,
         ServerOrder(q, e, l, r), r.id \in Nat, r.id >= 1,
         m.id = r.id, m.op = r.op,
         \A k \in 1 .. Len(q) : q[k].id <= r.id
  PROVE  ServerOrder(Push(q, m), e, l, r)
<1> DEFINE p == Push(q, m)
<1>1. \A k \in 1 .. Len(p) :
        \/ k \in 1 .. Len(q) /\ p[k] = q[k]
        \/ k = Len(q) + 1 /\ p[k] = m
  BY PushFacts
<1>2. Len(p) \in Nat /\ Len(q) \in Nat
  BY PushFacts
<1> HIDE DEF p
<1>3. ASSUME NEW a \in 1 .. Len(p), NEW b \in 1 .. Len(p), a < b
      PROVE  p[a].id <= p[b].id
  <2>1. CASE b \in 1 .. Len(q) /\ p[b] = q[b]
    <3>1. a \in 1 .. Len(q) /\ p[a] = q[a]
      BY <1>1, <1>2, <1>3, <2>1
    <3> QED BY <2>1, <3>1, <1>3 DEF ServerOrder, FifoOrder
  <2>2. CASE b = Len(q) + 1 /\ p[b] = m
    <3>1. a \in 1 .. Len(q) /\ p[a] = q[a]
      BY <1>1, <1>2, <1>3, <2>2
    <3> QED BY <2>2, <3>1
  <2> QED BY <2>1, <2>2, <1>1
<1>4. ASSUME NEW k \in 1 .. Len(p)
      PROVE  /\ p[k].id >= 1 /\ LastSeen(e) <= p[k].id
             /\ e.used /\ p[k].id = e.msg.id => p[k].op = e.msg.op
             /\ p[k].id = r.id => p[k].op = r.op
  <2>1. CASE k \in 1 .. Len(q) /\ p[k] = q[k]
    BY <2>1 DEF ServerOrder, FifoOrder, SameIdSameOp
  <2>2. CASE p[k] = m
    BY <2>2 DEF ServerOrder, FifoOrder, SameIdSameOp
  <2> QED BY <2>1, <2>2, <1>1
<1>5. FifoOrder(p, e, l, r)
  BY <1>3, <1>4 DEF ServerOrder, FifoOrder
<1>6. ASSUME NEW a \in 1 .. Len(p), NEW b \in 1 .. Len(p), p[a].id = p[b].id
      PROVE  p[a].op = p[b].op
  <2>1. CASE p[a] = m
    BY <2>1, <1>4, <1>6
  <2>2. CASE p[b] = m
    BY <2>2, <1>4, <1>6
  <2>3. CASE /\ a \in 1 .. Len(q) /\ p[a] = q[a]
             /\ b \in 1 .. Len(q) /\ p[b] = q[b]
    BY <2>3, <1>6 DEF ServerOrder, SameIdSameOp
  <2> QED BY <2>1, <2>2, <2>3, <1>1
<1>7. SameIdSameOp(p, e, r)
  BY <1>4, <1>6 DEF ServerOrder, SameIdSameOp
<1> QED BY <1>5, <1>7 DEF ServerOrder, p

\* The current request is sent, for the first time or again.
LEMMA TransmitOrder ==
  ASSUME TypeOK, MessagesIssued, ServerInv, pc # "idle", req.srv \in Servers,
         Transmit, UNCHANGED serverVars, req' = req
  PROVE  ServerInv'
<1> DEFINE m == RequestMsg(req.id, req.op)
<1>1. m \in Request /\ m.id = req.id /\ m.op = req.op /\ req.id \in Nat
  BY RequestMsgType DEF TypeOK, ClientTypeOK, RequestMsg
<1>2. /\ c2s' = [c2s EXCEPT ![req.srv] = Push(@, m)]
      /\ cache' = cache /\ execLog' = execLog
  BY DEF Transmit, serverVars
<1>3. req.id >= 1
  BY DEF ServerInv
<1> HIDE DEF m
<1>4. ASSUME NEW s \in Servers
      PROVE  ServerOrder(c2s'[s], cache[s], execLog[s], req)
  <2>1. ServerOrder(c2s[s], cache[s], execLog[s], req)
    BY DEF ServerInv
  <2>2. CASE s # req.srv
    <3>1. c2s'[s] = c2s[s]
      BY <1>2, <2>2 DEF TypeOK
    <3> QED BY <2>1, <3>1
  <2>3. CASE s = req.srv
    <3>1. c2s'[s] = Push(c2s[s], m)
      BY <1>2, <2>3 DEF TypeOK
    <3>2. \A k \in 1 .. Len(c2s[s]) : c2s[s][k].id <= req.id
      BY DEF MessagesIssued, OfIssuedRequest
    <3>3. c2s[s] \in Seq(Request)
      BY ServerElements
    <3> QED BY <1>1, <1>3, <2>1, <3>1, <3>2, <3>3, PushOrder
  <2> QED BY <2>2, <2>3
<1> QED BY <1>2, <1>3, <1>4 DEF ServerInv

\* A request is lost.
LEMMA LoseRequestOrder ==
  ASSUME TypeOK, ServerInv, NEW t \in Servers, NEW i \in 1 .. Len(c2s[t]),
         LoseRequest(t, i)
  PROVE  ServerInv'
<1>1. /\ c2s' = [c2s EXCEPT ![t] = RemoveAt(@, i)]
      /\ cache' = cache /\ execLog' = execLog /\ req' = req /\ pc' = pc
  BY DEF LoseRequest, serverVars, clientVars
<1>2. ASSUME NEW s \in Servers
      PROVE  ServerOrder(c2s'[s], cache[s], execLog[s], req)
  <2>1. ServerOrder(c2s[s], cache[s], execLog[s], req) /\ c2s[s] \in Seq(Request)
    BY ServerElements DEF ServerInv
  <2>2. CASE s # t
    <3>1. c2s'[s] = c2s[s]
      BY <1>1, <2>2 DEF TypeOK
    <3> QED BY <2>1, <3>1
  <2>3. CASE s = t
    <3>1. c2s'[s] = RemoveAt(c2s[s], i)
      BY <1>1, <2>3 DEF TypeOK
    <3> QED BY <2>1, <2>3, <3>1, RemoveOrder
  <2> QED BY <2>2, <2>3
<1> QED BY <1>1, <1>2 DEF ServerInv

\* Steps that change neither the queues to the servers nor the servers nor
\* the current request.
LEMMA QuietOrder ==
  ASSUME ServerInv, UNCHANGED <<c2s, serverVars, req>>,
         pc' # "idle" => pc # "idle"
  PROVE  ServerInv'
BY DEF ServerInv, serverVars

\* The first request of the queue is served.  If its number is that of the
\* cached request, so are its operation and its sequence number: it is not
\* executed.  Otherwise its number is higher than all that were executed.
LEMMA ServeOrder ==
  ASSUME TypeOK, MessagesIssued, ServerInv, ~Reorder,
         NEW t \in Servers, NEW i \in 1 .. Len(c2s[t]), ServeStep(t, i)
  PROVE  ServerInv'
<1> DEFINE q == c2s[t]
           m == q[1]
           e == NewEntry(t, m)
           p == RemoveAt(q, 1)
<1>1. i = 1 /\ 1 \in 1 .. Len(q)
  BY DEF ServeStep, Deliverable
<1>2. /\ c2s' = [c2s EXCEPT ![t] = p]
      /\ cache' = [cache EXCEPT ![t] = e]
      /\ execLog' = IF Executes(t, m)
                    THEN [execLog EXCEPT ![t] = Append(@, m.id)]
                    ELSE execLog
      /\ req' = req /\ pc' = pc
  BY <1>1 DEF ServeStep, Serve, clientVars
<1>3. q \in Seq(Request) /\ m \in Request /\ m.id \in Nat
  BY <1>1, ServerElements
<1>4. e.used /\ e.msg = m
  <2>1. cache[t] \in Entry
    BY ServerElements
  <2> QED BY <2>1 DEF NewEntry, SameRequest, Entry
<1>5. LastSeen(e) = m.id
  BY <1>4 DEF LastSeen
<1>6. ServerOrder(q, cache[t], execLog[t], req)
  BY DEF ServerInv
<1>7. LastSeen(cache[t]) \in Nat /\ LastSeen(cache[t]) <= m.id
  BY <1>1, <1>6, ServerElements DEF ServerOrder, FifoOrder
<1>8. Executes(t, m) => LastSeen(cache[t]) < m.id
  <2> SUFFICES ASSUME Executes(t, m), LastSeen(cache[t]) = m.id
               PROVE  FALSE
    BY <1>3, <1>7
  <2>1. cache[t].used /\ cache[t].msg.id = m.id
    BY <1>1, <1>6 DEF LastSeen, ServerOrder, FifoOrder
  <2>2. cache[t].msg.op = m.op
    BY <1>1, <1>6, <2>1 DEF ServerOrder, SameIdSameOp
  <2>3. cache[t].msg.seq = m.seq
    BY <1>1, <2>1 DEF MessagesIssued, OfIssuedRequest
  <2> QED BY <2>1, <2>2, <2>3 DEF Executes, SameRequest
<1>9. /\ execLog'[t] \in Seq(Nat)
      /\ \A k \in 1 .. Len(execLog'[t]) :
           \/ k \in 1 .. Len(execLog[t]) /\ execLog'[t][k] = execLog[t][k]
           \/ /\ k = Len(execLog[t]) + 1 /\ execLog'[t][k] = m.id
              /\ Executes(t, m)
  <2>1. execLog[t] \in Seq(Nat)
    BY ServerElements
  <2>2. CASE Executes(t, m)
    <3>1. execLog'[t] = Append(execLog[t], m.id)
      BY <1>2, <2>2 DEF TypeOK, ServerTypeOK
    <3> HIDE DEF m
    <3> QED BY <1>3, <2>1, <2>2, <3>1
  <2>3. CASE ~Executes(t, m)
    BY <1>2, <2>1, <2>3
  <2> QED BY <2>2, <2>3
<1>10. /\ c2s'[t] = p
       /\ cache'[t] = e
       /\ \A s \in Servers \ {t} : /\ c2s'[s] = c2s[s] /\ cache'[s] = cache[s]
                                   /\ execLog'[s] = execLog[s]
  BY <1>2 DEF TypeOK, ServerTypeOK
<1>11. /\ execLog[t] \in Seq(Nat)
       /\ \A k \in 1 .. Len(execLog[t]) :
            execLog[t][k] \in Nat /\ execLog[t][k] <= LastSeen(cache[t])
       /\ Increasing(execLog[t])
  BY <1>6, ServerElements DEF ServerOrder, FifoOrder
<1>12. Increasing(execLog'[t])
  <2> SUFFICES ASSUME NEW a \in 1 .. Len(execLog'[t]),
                      NEW b \in 1 .. Len(execLog'[t]), a < b
               PROVE  execLog'[t][a] < execLog'[t][b]
    BY DEF Increasing
  <2> HIDE DEF m
  <2>1. CASE b \in 1 .. Len(execLog[t]) /\ execLog'[t][b] = execLog[t][b]
    <3>1. a \in 1 .. Len(execLog[t]) /\ execLog'[t][a] = execLog[t][a]
      <4>1. Len(execLog[t]) \in Nat
        BY <1>11
      <4>2. a \in 1 .. Len(execLog[t]) /\ a # Len(execLog[t]) + 1
        BY <4>1, <2>1
      <4> QED BY <1>9, <4>2
    <3> QED BY <1>11, <2>1, <3>1 DEF Increasing
  <2>2. CASE b = Len(execLog[t]) + 1 /\ execLog'[t][b] = m.id /\ Executes(t, m)
    <3>1. a \in 1 .. Len(execLog[t]) /\ execLog'[t][a] = execLog[t][a]
      <4>1. Len(execLog[t]) \in Nat
        BY <1>11
      <4>2. a \in 1 .. Len(execLog[t]) /\ a # Len(execLog[t]) + 1
        BY <4>1, <2>2
      <4> QED BY <1>9, <4>2
    <3>2. execLog[t][a] <= LastSeen(cache[t]) /\ execLog[t][a] \in Nat
      BY <1>11, <3>1
    <3> QED BY <1>3, <1>7, <1>8, <2>2, <3>1, <3>2
  <2> QED BY <1>9, <2>1, <2>2
<1>13. \A k \in 1 .. Len(execLog'[t]) : execLog'[t][k] <= m.id
  <2> SUFFICES ASSUME NEW k \in 1 .. Len(execLog'[t])
               PROVE  execLog'[t][k] <= m.id
    OBVIOUS
  <2>1. CASE k \in 1 .. Len(execLog[t]) /\ execLog'[t][k] = execLog[t][k]
    <3>1. /\ execLog'[t][k] \in Nat
          /\ execLog'[t][k] <= LastSeen(cache[t])
      BY <1>11, <2>1
    <3> QED BY <1>3, <1>7, <3>1
  <2>2. CASE execLog'[t][k] = m.id
    BY <1>3, <2>2
  <2> QED BY <1>9, <2>1, <2>2
<1>14. ServerOrder(p, cache[t], execLog[t], req)
  BY <1>1, <1>3, <1>6, RemoveOrder
<1>15. \A k \in 1 .. Len(p) : m.id <= p[k].id
  <2> SUFFICES ASSUME NEW k \in 1 .. Len(p) PROVE m.id <= p[k].id
    OBVIOUS
  <2> HIDE DEF q
  <2>1. Len(p) = Len(q) - 1 /\ Len(q) \in Nat
    BY <1>1, <1>3, RemoveAtFacts
  <2>2. p[k] = q[k + 1]
    <3>1. \/ k < 1 /\ p[k] = q[k]
          \/ k >= 1 /\ p[k] = q[k + 1]
      BY <1>1, <1>3, RemoveAtFacts
    <3>2. ~(k < 1)
      BY <2>1
    <3> QED BY <3>1, <3>2
  <2>3. k + 1 \in 1 .. Len(q) /\ 1 < k + 1
    BY <2>1
  <2> QED BY <1>1, <1>6, <2>2, <2>3 DEF ServerOrder, FifoOrder
<1>16. m.id <= req.id
  BY <1>1 DEF MessagesIssued, OfIssuedRequest
<1>17. FifoOrder(p, e, execLog'[t], req)
  BY <1>5, <1>13, <1>14, <1>15, <1>16 DEF ServerOrder, FifoOrder
<1>18. \A k \in 1 .. Len(p) : p[k].id = m.id => p[k].op = m.op
  <2> SUFFICES ASSUME NEW k \in 1 .. Len(p), p[k].id = m.id
               PROVE  p[k].op = m.op
    OBVIOUS
  <2>1. PICK j \in 1 .. Len(q) : p[k] = q[j]
    BY <1>1, <1>3, RemoveAtElement
  <2>2. \A a, b \in 1 .. Len(q) : q[a].id = q[b].id => q[a].op = q[b].op
    BY <1>6 DEF ServerOrder, SameIdSameOp
  <2>3. q[j].id = q[1].id
    BY <2>1
  <2> QED BY <1>1, <2>1, <2>2, <2>3
<1>19. m.id = req.id => m.op = req.op
  BY <1>1, <1>6 DEF ServerOrder, SameIdSameOp
<1>20. SameIdSameOp(p, e, req)
  <2> HIDE DEF m, p, e
  <2> QED BY <1>4, <1>14, <1>18, <1>19 DEF ServerOrder, SameIdSameOp
<1>21. ServerOrder(c2s'[t], cache'[t], execLog'[t], req)
  BY <1>10, <1>12, <1>17, <1>20 DEF ServerOrder
<1>22. ASSUME NEW s \in Servers
       PROVE  ServerOrder(c2s'[s], cache'[s], execLog'[s], req)
  <2>1. CASE s = t
    BY <2>1, <1>21
  <2>2. CASE s # t
    BY <2>2, <1>10 DEF ServerInv
  <2> QED BY <2>1, <2>2
<1> QED BY <1>2, <1>22 DEF ServerInv

\* ServerInv holds at the start.
LEMMA InitServerInv == Init => ServerInv
<1> SUFFICES ASSUME Init PROVE ServerInv
  OBVIOUS
<1>1. \A s \in Servers :
        c2s[s] = << >> /\ execLog[s] = << >> /\ cache[s] = NoEntry
  BY DEF Init, ServerInit
<1>2. pc = "idle" /\ req.id = 0
  BY DEF Init, ClientInit, NoRequest
<1>3. ~NoEntry.used /\ LastSeen(NoEntry) = 0
  BY DEF NoEntry, LastSeen
<1> QED BY <1>1, <1>2, <1>3
        DEF ServerInv, ServerOrder, FifoOrder, SameIdSameOp, Increasing

\* ServerInv is inductive where order is kept and no entry is lost.
LEMMA NextServerInv ==
  ASSUME ~Reorder, ~CacheLoss, ClientInv, ServerInv, [Next]_vars
  PROVE  ServerInv'
<1>1. TypeOK /\ MessagesIssued /\ (pc # "idle" => req.srv \in Servers)
  BY DEF ClientInv, BufferState
<1>2. CASE Foreground
  <2>1. ASSUME NEW s \in Servers, NEW op \in Ops, PrepareStep(s, op)
        PROVE  ServerInv'
    BY <1>1, <2>1, PrepareOrder DEF PrepareStep
  <2>2. CASE StartWaitStep \/ ResendStep
    <3>1. /\ pc # "idle" /\ Transmit /\ UNCHANGED serverVars /\ req' = req
      BY <2>2 DEF StartWaitStep, StartWait, ResendStep, Resend
    <3> QED BY <1>1, <3>1, TransmitOrder
  <2>3. CASE \/ LocalStep \/ GiveUpStep \/ ReadLenStep \/ CheckLenStep
             \/ ValidateStep \/ FinishStep
    <3>1. UNCHANGED <<c2s, serverVars, req>> /\ (pc' # "idle" => pc # "idle")
      BY <2>3 DEF LocalStep, LocalRequest, GiveUpStep, GiveUp, ReadLenStep,
         ReadLen, CheckLenStep, CheckLen, ValidateStep, Validate, IgnoreFrame,
         FinishStep, Finish, netVars
    <3> QED BY <3>1, QuietOrder
  <2> QED BY <1>2, <2>1, <2>2, <2>3 DEF Foreground
<1>3. CASE Interrupt
  <2>1. UNCHANGED <<c2s, serverVars, req>> /\ (pc' # "idle" => pc # "idle")
    BY <1>3 DEF Interrupt, ReceiveReplyStep, ReceiveReply, ReceiveOtherStep,
       ReceiveOther, netVars
  <2> QED BY <2>1, QuietOrder
<1>4. CASE ServerSide
  <2>1. PICK s \in Servers : \E i \in 1 .. Len(c2s[s]) : ServeStep(s, i)
    BY <1>4 DEF ServerSide, LoseEntryStep
  <2> QED BY <1>1, <2>1, ServeOrder
<1>5. CASE Loss
  <2>1. ASSUME NEW s \in Servers, NEW i \in 1 .. Len(c2s[s]),
               LoseRequest(s, i)
        PROVE  ServerInv'
    BY <1>1, <2>1, LoseRequestOrder
  <2>2. ASSUME NEW s \in Servers, NEW i \in 1 .. Len(s2c[s]), LoseReply(s, i)
        PROVE  ServerInv'
    <3>1. UNCHANGED <<c2s, serverVars, req>> /\ (pc' # "idle" => pc # "idle")
      BY <2>2 DEF LoseReply, clientVars
    <3> QED BY <3>1, QuietOrder
  <2> QED BY <1>5, <2>1, <2>2 DEF Loss
<1>6. CASE UNCHANGED vars
  <2>1. UNCHANGED <<c2s, serverVars, req>> /\ (pc' # "idle" => pc # "idle")
    BY <1>6 DEF vars, clientVars, netVars
  <2> QED BY <2>1, QuietOrder
<1> QED BY <1>2, <1>3, <1>4, <1>5, <1>6 DEF Next

\* Over a network that keeps order, and while the reply cache keeps its
\* entries, a server executes the requests of a client in the order they were
\* issued and none twice, whatever is lost and however often the client
\* retransmits.  The sequence number may wrap around.
THEOREM ExecutedInOrderHolds ==
  ASSUME ~Reorder, ~CacheLoss
  PROVE  Spec => []ExecutedInOrder
<1>1. Init => ClientInv /\ ServerInv
  BY InitClientInv, InitServerInv
<1>2. ClientInv /\ ServerInv /\ [Next]_vars => (ClientInv /\ ServerInv)'
  BY NextClientInv, NextServerInv
<1>3. ServerInv => ExecutedInOrder
  BY DEF ServerInv, ServerOrder, Increasing, ExecutedInOrder
<1> QED BY <1>1, <1>2, <1>3, PTL DEF Spec

\* The order of the requests on their way to a server, of the one in its
\* cache and of those it executed holds in every state, the wrap-around of the
\* sequence number included.
THEOREM ServerInvariant ==
  ASSUME ~Reorder, ~CacheLoss
  PROVE  Spec => []ServerInv
<1>1. Init => ClientInv /\ ServerInv
  BY InitClientInv, InitServerInv
<1>2. ClientInv /\ ServerInv /\ [Next]_vars => (ClientInv /\ ServerInv)'
  BY NextClientInv, NextServerInv
<1> QED BY <1>1, <1>2, PTL DEF Spec

(***************************************************************************)
(* The reply cache, whatever the network reorders and the server forgets   *)
(***************************************************************************)

\* The reply in the cache carries the sequence number of the request in the
\* cache: a hit compares this number, a miss replaces both packets.
CachedSeq ==
  \A s \in Servers :
    cache[s].answered => cache[s].reply.seq = cache[s].msg.seq

\* The reply in the cache answers the request in the cache or one at least
\* SeqCount requests away from it.
CachedReplyNear ==
  \A s \in Servers :
    cache[s].answered =>
      \/ cache[s].reply.id = cache[s].msg.id
      \/ cache[s].reply.id + SeqCount <= cache[s].msg.id
      \/ cache[s].msg.id + SeqCount <= cache[s].reply.id

\* Every step keeps the two sequence numbers of a cache entry equal.
LEMMA NextCachedSeq ==
  ASSUME TypeOK, CachedSeq, [Next]_vars
  PROVE  CachedSeq'
<1>1. ASSUME NEW s \in Servers, NEW i \in 1 .. Len(c2s[s]), ServeStep(s, i)
      PROVE  CachedSeq'
  <2> DEFINE m == c2s[s][i]
             e == NewEntry(s, m)
  <2>1. cache' = [cache EXCEPT ![s] = e] /\ cache \in [Servers -> Entry]
    BY <1>1 DEF ServeStep, Serve, TypeOK, ServerTypeOK
  <2>2. e.answered => e.reply.seq = e.msg.seq
    <3>1. cache[s] \in Entry
      BY <2>1
    <3>2. CASE SameRequest(cache[s], m)
      BY <3>1, <3>2 DEF NewEntry, SameRequest, Entry, CachedSeq
    <3>3. CASE ~SameRequest(cache[s], m)
      BY <3>3 DEF NewEntry, ReplyMsg
    <3> QED BY <3>2, <3>3
  <2> HIDE DEF e
  <2> QED BY <2>1, <2>2 DEF CachedSeq
<1>2. ASSUME NEW s \in Servers, LoseEntryStep(s)
      PROVE  CachedSeq'
  BY <1>2 DEF LoseEntryStep, LoseEntry, NoEntry, CachedSeq, TypeOK, ServerTypeOK
<1>3. CASE UNCHANGED cache
  BY <1>3 DEF CachedSeq
<1>4. CASE Foreground \/ Interrupt \/ Loss \/ UNCHANGED vars
  <2>1. UNCHANGED cache
    BY <1>4 DEF Foreground, Interrupt, Loss, vars, serverVars, PrepareStep,
       LocalStep, StartWaitStep, ResendStep, GiveUpStep, ReadLenStep,
       CheckLenStep, ValidateStep, FinishStep, ReceiveReplyStep,
       ReceiveOtherStep, LoseRequest, LoseReply
  <2> QED BY <1>3, <2>1
<1> QED BY <1>1, <1>2, <1>4 DEF Next, ServerSide

\* With every request number known, equal sequence numbers say how far apart
\* the cached request and the cached reply can be.
LEMMA CachedSeqNear == ClientInv /\ CachedSeq => CachedReplyNear
<1> SUFFICES ASSUME ClientInv, CachedSeq, NEW s \in Servers, cache[s].answered
             PROVE  \/ cache[s].reply.id = cache[s].msg.id
                    \/ cache[s].reply.id + SeqCount <= cache[s].msg.id
                    \/ cache[s].msg.id + SeqCount <= cache[s].reply.id
  BY DEF CachedReplyNear
<1> DEFINE a == cache[s].reply.id
           b == cache[s].msg.id
<1>1. a \in Nat /\ b \in Nat
  BY DEF ClientInv, TypeOK, ServerTypeOK, Entry, Request, Reply
<1>2. Sequence(a) = Sequence(b)
  BY DEF ClientInv, MessagesIssued, OfIssuedRequest, CachedSeq
<1> HIDE DEF a, b
<1>3. \/ a = b \/ a + SeqCount <= b \/ b + SeqCount <= a
  <2>1. CASE a <= b
    BY <1>1, <1>2, <2>1, SequenceWraps
  <2>2. CASE b <= a
    BY <1>1, <1>2, <2>2, SequenceWraps
  <2> QED BY <1>1, <2>1, <2>2
<1> QED BY <1>3 DEF a, b

\* A cached reply is repeated only for the request it answered or for one at
\* least SeqCount (256) requests away, also when datagrams overtake one another
\* and cache entries are lost.
THEOREM CachedReplyNearHolds == Spec => []CachedReplyNear
<1>1. Init => ClientInv /\ CachedSeq
  <2>1. Init => CachedSeq
    BY DEF Init, ServerInit, NoEntry, CachedSeq
  <2> QED BY <2>1, InitClientInv
<1>2. ClientInv /\ CachedSeq /\ [Next]_vars => (ClientInv /\ CachedSeq)'
  BY NextClientInv, NextCachedSeq DEF ClientInv
<1> QED BY <1>1, <1>2, CachedSeqNear, PTL DEF Spec

\* A client that has sent fewer requests than there are sequence numbers is
\* never given the reply to another request, whatever is reordered or
\* forgotten: the comparison of the whole packets in process_request suffices.
THEOREM CachedReplyOwnHolds ==
  ASSUME MaxReq < SeqCount
  PROVE  Spec => []CachedReplyOwn
<1>1. ClientInv /\ CachedReplyNear => CachedReplyOwn
  <2> SUFFICES ASSUME ClientInv, CachedReplyNear,
                      NEW s \in Servers, cache[s].answered
               PROVE  cache[s].reply.id = cache[s].msg.id
    BY DEF CachedReplyOwn
  <2>1. /\ cache[s].reply.id \in Nat /\ cache[s].msg.id \in Nat
        /\ req.id \in Nat /\ req.id <= MaxReq
    <3>1. cache[s].reply.id \in Nat /\ cache[s].msg.id \in Nat
      BY DEF ClientInv, TypeOK, ServerTypeOK, Entry, Request, Reply
    <3>2. req.id \in 0 .. MaxReq
      BY DEF ClientInv, TypeOK, ClientTypeOK
    <3> QED BY <3>1, <3>2, ClientAssumption
  <2>2. cache[s].reply.id <= req.id /\ cache[s].msg.id <= req.id
    BY DEF ClientInv, MessagesIssued, OfIssuedRequest
  <2>3. SeqCount \in Nat /\ MaxReq \in Nat
    BY WireAssumption, ClientAssumption
  <2> QED BY <2>1, <2>2, <2>3 DEF CachedReplyNear
<1> QED BY <1>1, ClientInvariant, CachedReplyNearHolds, PTL

(***************************************************************************)
(* What can keep the receive buffer busy while send_request waits          *)
(***************************************************************************)

\* No message in the network or in a reply cache is about request n or a
\* later one.
AllBefore(n) ==
  \A s \in Servers :
    /\ \A i \in 1 .. Len(c2s[s]) : c2s[s][i].id < n
    /\ \A i \in 1 .. Len(s2c[s]) : s2c[s][i].id < n
    /\ cache[s].msg.id < n /\ cache[s].reply.id < n

\* A frame held in the buffer is a server's reply.  Until the request is sent
\* no message is about it, and a frame already in the buffer is not either; it
\* stays there as long as the flag is down.
LateInv ==
  /\ recvLen # 0 => buf.src \in Servers
  /\ pc = "prepared" => AllBefore(req.id) /\ req.id >= 1
  /\ (pc = "prepared" \/ (pc = "poll" /\ srr = 0)) /\ recvLen # 0
       => buf.id < req.id

\* The network and the servers make no message about a request that was not
\* sent.
LEMMA NextAllBefore ==
  ASSUME TypeOK, NEW n \in Nat, n >= 1, AllBefore(n),
         ServerSide \/ Interrupt \/ Loss
  PROVE  AllBefore(n)'
<1>1. ASSUME NEW s \in Servers
      PROVE  c2s[s] \in Seq(Request) /\ s2c[s] \in Seq(Reply) /\ cache[s] \in Entry
  BY DEF TypeOK, ServerTypeOK
<1>2. ASSUME NEW s \in Servers, NEW i \in 1 .. Len(c2s[s]),
             c2s' = [c2s EXCEPT ![s] = RemoveAt(@, i)]
      PROVE  \A t \in Servers : \A k \in 1 .. Len(c2s'[t]) : c2s'[t][k].id < n
  <2> SUFFICES ASSUME NEW t \in Servers, NEW k \in 1 .. Len(c2s'[t])
               PROVE  c2s'[t][k].id < n
    OBVIOUS
  <2>1. CASE t = s
    <3>1. c2s'[t] = RemoveAt(c2s[s], i)
      BY <1>2, <2>1 DEF TypeOK
    <3>2. PICK j \in 1 .. Len(c2s[s]) : RemoveAt(c2s[s], i)[k] = c2s[s][j]
      BY <3>1, <1>1, <1>2, RemoveAtElement
    <3> QED BY <3>1, <3>2 DEF AllBefore
  <2>2. CASE t # s
    BY <1>2, <2>2 DEF TypeOK, AllBefore
  <2> QED BY <2>1, <2>2
<1>3. ASSUME NEW s \in Servers, NEW i \in 1 .. Len(s2c[s]),
             s2c' = [s2c EXCEPT ![s] = RemoveAt(@, i)]
      PROVE  \A t \in Servers : \A k \in 1 .. Len(s2c'[t]) : s2c'[t][k].id < n
  <2> SUFFICES ASSUME NEW t \in Servers, NEW k \in 1 .. Len(s2c'[t])
               PROVE  s2c'[t][k].id < n
    OBVIOUS
  <2>1. CASE t = s
    <3>1. s2c'[t] = RemoveAt(s2c[s], i)
      BY <1>3, <2>1 DEF TypeOK
    <3>2. PICK j \in 1 .. Len(s2c[s]) : RemoveAt(s2c[s], i)[k] = s2c[s][j]
      BY <3>1, <1>1, <1>3, RemoveAtElement
    <3> QED BY <3>1, <3>2 DEF AllBefore
  <2>2. CASE t # s
    BY <1>3, <2>2 DEF TypeOK, AllBefore
  <2> QED BY <2>1, <2>2
<1>4. ASSUME NEW s \in Servers, NEW i \in 1 .. Len(c2s[s]), ServeStep(s, i)
      PROVE  AllBefore(n)'
  <2> DEFINE m == c2s[s][i]
             e == NewEntry(s, m)
  <2>1. /\ cache' = [cache EXCEPT ![s] = e]
        /\ s2c' = IF e.answered THEN [s2c EXCEPT ![s] = Push(@, e.reply)] ELSE s2c
        /\ c2s' = [c2s EXCEPT ![s] = RemoveAt(@, i)]
    BY <1>4 DEF ServeStep, Serve
  <2>2. m \in Request /\ m.id < n
    BY <1>1, ElementOfSeq DEF AllBefore
  <2>3. e.msg.id < n /\ e.reply.id < n /\ e.reply \in Reply
    <3>1. e \in Entry
      BY <2>2, NewEntryType
    <3>2. CASE SameRequest(cache[s], m)
      BY <1>1, <2>2, <3>1, <3>2 DEF NewEntry, Entry, AllBefore
    <3>3. CASE ~SameRequest(cache[s], m)
      BY <2>2, <3>1, <3>3 DEF NewEntry, ReplyMsg, NoReply, Junk, Entry
    <3> QED BY <3>2, <3>3
  <2> HIDE DEF e, m
  <2>4. ASSUME NEW t \in Servers, NEW k \in 1 .. Len(s2c'[t])
        PROVE  s2c'[t][k].id < n
    <3>1. CASE t = s /\ e.answered
      <4>1. s2c'[t] = Push(s2c[s], e.reply)
        BY <2>1, <3>1 DEF TypeOK
      <4>2. \A j \in 1 .. Len(Push(s2c[s], e.reply)) :
              \/ /\ j \in 1 .. Len(s2c[s])
                 /\ Push(s2c[s], e.reply)[j] = s2c[s][j]
              \/ Push(s2c[s], e.reply)[j] = e.reply
        BY <2>3, <1>1, PushFacts
      <4>3. \/ k \in 1 .. Len(s2c[s]) /\ s2c'[t][k] = s2c[s][k]
            \/ s2c'[t][k] = e.reply
        BY <4>1, <4>2
      <4> QED BY <4>3, <2>3 DEF AllBefore
    <3>2. CASE ~(t = s /\ e.answered)
      BY <2>1, <3>2 DEF TypeOK, AllBefore
    <3> QED BY <3>1, <3>2
  <2>5. \A t \in Servers : cache'[t].msg.id < n /\ cache'[t].reply.id < n
    BY <2>1, <2>3 DEF TypeOK, ServerTypeOK, AllBefore
  <2> QED BY <2>1, <2>4, <2>5, <1>2 DEF AllBefore
<1>5. ASSUME NEW s \in Servers, LoseEntryStep(s)
      PROVE  AllBefore(n)'
  <2>1. /\ c2s' = c2s /\ s2c' = s2c
        /\ cache' = [cache EXCEPT ![s] = NoEntry]
    BY <1>5 DEF LoseEntryStep, LoseEntry, netVars
  <2>2. NoEntry.msg.id < n /\ NoEntry.reply.id < n
    BY DEF NoEntry, NoReply, Junk, RequestMsg
  <2>3. \A t \in Servers : cache'[t].msg.id < n /\ cache'[t].reply.id < n
    BY <2>1, <2>2 DEF TypeOK, ServerTypeOK, AllBefore
  <2> QED BY <2>1, <2>3 DEF AllBefore
<1>6. ASSUME NEW s \in Servers, NEW i \in 1 .. Len(c2s[s]), LoseRequest(s, i)
      PROVE  AllBefore(n)'
  <2>1. /\ c2s' = [c2s EXCEPT ![s] = RemoveAt(@, i)]
        /\ s2c' = s2c /\ cache' = cache
    BY <1>6 DEF LoseRequest, serverVars
  <2> QED BY <2>1, <1>2 DEF AllBefore
<1>7. ASSUME NEW s \in Servers, NEW i \in 1 .. Len(s2c[s]),
             LoseReply(s, i) \/ ReceiveReplyStep(s, i)
      PROVE  AllBefore(n)'
  <2>1. /\ s2c' = [s2c EXCEPT ![s] = RemoveAt(@, i)]
        /\ c2s' = c2s /\ cache' = cache
    BY <1>7 DEF LoseReply, ReceiveReplyStep, serverVars
  <2> QED BY <2>1, <1>3 DEF AllBefore
<1>8. ASSUME NEW l \in JunkLens, ReceiveOtherStep(l)
      PROVE  AllBefore(n)'
  BY <1>8 DEF ReceiveOtherStep, serverVars, netVars, AllBefore
<1> QED BY <1>4, <1>5, <1>6, <1>7, <1>8 DEF ServerSide, Interrupt, Loss

\* Every step keeps LateInv.
LEMMA NextLateInv ==
  ASSUME ClientInv, LateInv, [Next]_vars
  PROVE  LateInv'
<1>1. TypeOK /\ MessagesIssued /\ req.id \in Nat /\ srr \in {0, 1}
  BY DEF ClientInv, TypeOK, ClientTypeOK
<1>2. ASSUME NEW s \in Servers, NEW op \in Ops, PrepareStep(s, op)
      PROVE  LateInv'
  <2>1. /\ req'.id = req.id + 1 /\ pc' = "prepared"
        /\ UNCHANGED <<c2s, s2c, cache, recvLen, buf>>
    BY <1>2 DEF PrepareStep, Prepare, serverVars, netVars
  <2>2. buf.id \in Nat /\ buf.id <= req.id
    BY DEF ClientInv, TypeOK, ClientTypeOK, Reply, BufferState, OfIssuedRequest
  <2>3. ASSUME NEW t \in Servers
        PROVE  /\ \A i \in 1 .. Len(c2s[t]) : c2s[t][i].id < req.id + 1
               /\ \A i \in 1 .. Len(s2c[t]) : s2c[t][i].id < req.id + 1
               /\ cache[t].msg.id < req.id + 1 /\ cache[t].reply.id < req.id + 1
    <3>1. c2s[t] \in Seq(Request) /\ s2c[t] \in Seq(Reply) /\ cache[t] \in Entry
      BY <1>1 DEF TypeOK, ServerTypeOK
    <3>2. /\ \A i \in 1 .. Len(c2s[t]) : c2s[t][i] \in Request
          /\ \A i \in 1 .. Len(s2c[t]) : s2c[t][i] \in Reply
      BY <3>1, ElementOfSeq
    <3>3. /\ \A i \in 1 .. Len(c2s[t]) : c2s[t][i].id \in Nat
          /\ \A i \in 1 .. Len(s2c[t]) : s2c[t][i].id \in Nat
          /\ cache[t].msg.id \in Nat /\ cache[t].reply.id \in Nat
      BY <3>1, <3>2 DEF Request, Reply, Entry
    <3>4. /\ \A i \in 1 .. Len(c2s[t]) : c2s[t][i].id <= req.id
          /\ \A i \in 1 .. Len(s2c[t]) : s2c[t][i].id <= req.id
          /\ cache[t].msg.id <= req.id /\ cache[t].reply.id <= req.id
      BY <1>1 DEF MessagesIssued, OfIssuedRequest
    <3>5. \A a \in Nat : a <= req.id => a < req.id + 1
      BY <1>1
    <3> QED BY <3>3, <3>4, <3>5
  <2>4. AllBefore(req.id)'
    BY <2>1, <2>3 DEF AllBefore
  <2> QED BY <1>1, <2>1, <2>2, <2>4 DEF LateInv
<1>3. CASE StartWaitStep
  <2>1. pc = "prepared" /\ pc' = "poll" /\ UNCHANGED <<req, recvLen, buf>>
    BY <1>3 DEF StartWaitStep, StartWait
  <2> QED BY <2>1 DEF LateInv
<1>4. CASE LocalStep \/ GiveUpStep \/ ReadLenStep \/ CheckLenStep
           \/ ValidateStep \/ FinishStep \/ ResendStep
  BY <1>4 DEF LateInv, LocalStep, LocalRequest, GiveUpStep, GiveUp,
     ReadLenStep, ReadLen, CheckLenStep, CheckLen, ValidateStep, Validate,
     IgnoreFrame, FinishStep, Finish, ResendStep, Resend
<1>5. CASE ServerSide \/ Interrupt \/ Loss
  <2>1. pc' = pc /\ req' = req
    BY <1>5 DEF ServerSide, Interrupt, Loss, ServeStep, LoseEntryStep,
       ReceiveReplyStep, ReceiveReply, ReceiveOtherStep, ReceiveOther,
       LoseRequest, LoseReply, clientVars
  <2>2. pc = "prepared" => AllBefore(req.id)' /\ req'.id >= 1
    <3> SUFFICES ASSUME pc = "prepared"
                 PROVE  AllBefore(req.id)' /\ req'.id >= 1
      OBVIOUS
    <3> DEFINE n == req.id
    <3>1. n \in Nat /\ n >= 1 /\ AllBefore(n) /\ req'.id = n
      BY <1>1, <2>1 DEF LateInv
    <3> HIDE DEF n
    <3>2. \A s \in Servers :
            /\ \A i \in 1 .. Len(c2s'[s]) : c2s'[s][i].id < n
            /\ \A i \in 1 .. Len(s2c'[s]) : s2c'[s][i].id < n
            /\ cache'[s].msg.id < n /\ cache'[s].reply.id < n
      BY <1>1, <1>5, <3>1, NextAllBefore DEF AllBefore
    <3> QED BY <3>1, <3>2 DEF AllBefore
  <2>3. CASE UNCHANGED <<srr, recvLen, buf>>
    BY <2>1, <2>2, <2>3 DEF LateInv
  <2>4. ASSUME NEW s \in Servers, NEW i \in 1 .. Len(s2c[s]),
               ReceiveReplyStep(s, i)
        PROVE  LateInv'
    <3>1. s2c[s][i].src = s
      BY <1>1 DEF MessagesIssued
    <3>2. CASE ~BufferFree
      BY <2>3, <2>4, <3>2 DEF ReceiveReplyStep, ReceiveReply
    <3>3. CASE BufferFree
      <4>1. /\ buf' = s2c[s][i]
            /\ srr' = 1 \/ recvLen' = 0
        BY <2>4, <3>3 DEF ReceiveReplyStep, ReceiveReply
      <4>2. pc = "prepared" => s2c[s][i].id < req.id
        BY DEF LateInv, AllBefore
      <4> QED BY <2>1, <2>2, <3>1, <4>1, <4>2 DEF LateInv
    <3> QED BY <3>2, <3>3
  <2>5. ASSUME NEW l \in JunkLens, ReceiveOtherStep(l)
        PROVE  LateInv'
    <3>1. recvLen' = 0
      BY <2>5 DEF ReceiveOtherStep, ReceiveOther
    <3> QED BY <2>1, <2>2, <3>1 DEF LateInv
  <2>6. CASE ServerSide \/ Loss
    BY <2>3, <2>6 DEF ServerSide, Loss, ServeStep, LoseEntryStep, LoseRequest,
       LoseReply, clientVars
  <2> QED BY <1>5, <2>4, <2>5, <2>6 DEF Interrupt
<1>6. CASE UNCHANGED vars
  BY <1>6 DEF vars, clientVars, serverVars, netVars, LateInv, AllBefore
<1> QED BY <1>2, <1>3, <1>4, <1>5, <1>6 DEF Next, Foreground

\* While send_request waits, the receive buffer is occupied only by a reply to
\* an earlier request: neither an answer to this request nor a foreign frame can
\* block it.
THEOREM BlockedByLateReplyHolds == Spec => []BlockedByLateReply
<1>1. Init => ClientInv /\ LateInv
  <2>1. Init => LateInv
    BY DEF Init, ClientInit, LateInv
  <2> QED BY <2>1, InitClientInv
<1>2. ClientInv /\ LateInv /\ [Next]_vars => (ClientInv /\ LateInv)'
  BY NextClientInv, NextLateInv
<1>3. LateInv => BlockedByLateReply
  BY DEF LateInv, BlockedByLateReply
<1> QED BY <1>1, <1>2, <1>3, PTL DEF Spec
=============================================================================
