------------------------------ MODULE RpcProofs -----------------------------
(***************************************************************************)
(* The client, the network and the servers implement Rpc, for every number *)
(* of servers, operations, retries and datagrams in flight.                *)
(***************************************************************************)
EXTENDS TransportRefinesRpc, TransportProofs

\* Request n is on its way to server s; server s executed it.
Waits(s, n) == \E i \in 1 .. Len(c2s[s]) : c2s[s][i].id = n
InLog(l, n) == \E i \in 1 .. Len(l) : l[i] = n
Ran(s, n) == InLog(execLog[s], n)

Reached(s, n) == Waits(s, n) \/ Ran(s, n)

\* A request reaches one server at most, and the current one only its own
\* server, after it was sent.
OneServer ==
  /\ \A s, t \in Servers : \A n \in Nat : Reached(s, n) /\ Reached(t, n) => s = t
  /\ \A s \in Servers : Reached(s, req.id) => s = req.srv /\ pc # "prepared"

\* Whatever reply is under way, cached or in the client's buffer, the server it
\* comes from executed its request.
RepliesRan ==
  \A s \in Servers :
    /\ \A i \in 1 .. Len(s2c[s]) : Ran(s, s2c[s][i].id)
    /\ cache[s].answered => Ran(s, cache[s].reply.id)
    /\ buf.src = s => Ran(s, buf.id)

-----------------------------------------------------------------------------
(* A request reaches one server *)

\* A step after which no more requests have reached a server, the current
\* request being the same.
LEMMA FewerReached ==
  ASSUME OneServer, req' = req, pc' = "prepared" => pc = "prepared",
         \A s \in Servers : \A n \in Nat : Reached(s, n)' => Reached(s, n),
         req.id \in Nat
  PROVE  OneServer'
BY DEF OneServer

\* Sending the current request: it reaches its own server, which alone it can
\* have reached before.
LEMMA TransmitReached ==
  ASSUME TypeOK, OneServer, Transmit, UNCHANGED execLog, req' = req,
         req.srv \in Servers, pc' # "prepared"
  PROVE  OneServer'
<1> DEFINE m == RequestMsg(req.id, req.op)
<1>1. m \in Request /\ m.id = req.id /\ req.id \in Nat
  BY RequestMsgType DEF TypeOK, ClientTypeOK, RequestMsg
<1> HIDE DEF m
<1>2. c2s' = [c2s EXCEPT ![req.srv] = Push(@, m)]
  BY DEF Transmit, m
<1>3. ASSUME NEW s \in Servers, NEW n \in Nat, Reached(s, n)'
      PROVE  Reached(s, n) \/ (s = req.srv /\ n = req.id)
  <2>1. CASE Ran(s, n)'
    BY <2>1 DEF Ran, Reached
  <2>2. CASE Waits(s, n)'
    <3>1. PICK i \in 1 .. Len(c2s'[s]) : c2s'[s][i].id = n
      BY <2>2 DEF Waits
    <3>2. CASE s = req.srv
      <4>1. c2s'[s] = Push(c2s[s], m) /\ c2s[s] \in Seq(Request)
        BY <1>2, <3>2 DEF TypeOK
      <4>2. \A k \in 1 .. Len(Push(c2s[s], m)) :
              \/ k \in 1 .. Len(c2s[s]) /\ Push(c2s[s], m)[k] = c2s[s][k]
              \/ Push(c2s[s], m)[k] = m
        BY <1>1, <4>1, PushFacts
      <4>3. \/ i \in 1 .. Len(c2s[s]) /\ c2s[s][i].id = n
            \/ m.id = n
        BY <3>1, <4>1, <4>2
      <4> QED BY <1>1, <3>2, <4>3 DEF Reached, Waits
    <3>3. CASE s # req.srv
      BY <1>2, <3>1, <3>3 DEF TypeOK, Reached, Waits
    <3> QED BY <3>2, <3>3
  <2> QED BY <1>3, <2>1, <2>2 DEF Reached
<1>4. ASSUME NEW s \in Servers, NEW t \in Servers, NEW n \in Nat,
             Reached(s, n)', Reached(t, n)'
      PROVE  s = t
  BY <1>1, <1>3, <1>4 DEF OneServer
<1>5. ASSUME NEW s \in Servers, Reached(s, req.id)' PROVE s = req.srv
  <2>1. Reached(s, req.id) \/ s = req.srv
    BY <1>1, <1>3, <1>5
  <2> QED BY <2>1 DEF OneServer
<1> QED BY <1>4, <1>5 DEF OneServer

\* A datagram taken out of a queue of requests leaves no new one there.
LEMMA RemoveWaits ==
  ASSUME TypeOK, NEW t \in Servers, NEW i \in 1 .. Len(c2s[t]),
         c2s' = [c2s EXCEPT ![t] = RemoveAt(@, i)],
         NEW s \in Servers, NEW n \in Nat, Waits(s, n)'
  PROVE  Waits(s, n)
<1>1. PICK k \in 1 .. Len(c2s'[s]) : c2s'[s][k].id = n
  BY DEF Waits
<1>2. CASE s = t
  <2>1. c2s'[s] = RemoveAt(c2s[t], i) /\ c2s[t] \in Seq(Request)
    BY <1>2 DEF TypeOK
  <2>2. PICK j \in 1 .. Len(c2s[t]) : RemoveAt(c2s[t], i)[k] = c2s[t][j]
    BY <1>1, <2>1, RemoveAtElement
  <2> QED BY <1>1, <1>2, <2>1, <2>2 DEF Waits
<1>3. CASE s # t
  BY <1>1, <1>3 DEF TypeOK, Waits
<1> QED BY <1>2, <1>3

\* What a server has executed after a request was served: what it had executed
\* before and, if the request was executed, that one.
LEMMA ServeRan ==
  ASSUME TypeOK, NEW t \in Servers, NEW m \in Request, Serve(t, m)
  PROVE  /\ \A s \in Servers : \A n \in Nat : Ran(s, n) => InLog(execLog'[s], n)
         /\ \A s \in Servers : \A n \in Nat :
              InLog(execLog'[s], n) => Ran(s, n) \/ (s = t /\ n = m.id)
         /\ Executes(t, m) => InLog(execLog'[t], m.id)
<1>1. /\ m.id \in Nat
      /\ execLog \in [Servers -> Seq(Nat)]
      /\ execLog' = IF Executes(t, m)
                    THEN [execLog EXCEPT ![t] = Append(@, m.id)]
                    ELSE execLog
  BY DEF Serve, Request, TypeOK, ServerTypeOK
<1>2. CASE ~Executes(t, m)
  BY <1>1, <1>2 DEF Ran, InLog
<1>3. CASE Executes(t, m)
  <2>1. /\ execLog'[t] = Append(execLog[t], m.id)
        /\ \A s \in Servers : s # t => execLog'[s] = execLog[s]
        /\ execLog[t] \in Seq(Nat)
    BY <1>1, <1>3
  <2>2. /\ Len(execLog'[t]) = Len(execLog[t]) + 1 /\ Len(execLog[t]) \in Nat
        /\ execLog'[t][Len(execLog[t]) + 1] = m.id
        /\ \A k \in 1 .. Len(execLog[t]) : execLog'[t][k] = execLog[t][k]
    BY <1>1, <2>1
  <2>3. ASSUME NEW s \in Servers, NEW n \in Nat, Ran(s, n)
        PROVE  InLog(execLog'[s], n)
    <3>1. CASE s = t
      <4>1. PICK k \in 1 .. Len(execLog[t]) : execLog[t][k] = n
        BY <2>3, <3>1 DEF Ran, InLog
      <4>2. k \in 1 .. Len(execLog'[t]) /\ execLog'[t][k] = n
        BY <2>2, <4>1
      <4> QED BY <3>1, <4>2 DEF Ran, InLog
    <3>2. CASE s # t
      BY <2>1, <2>3, <3>2 DEF Ran, InLog
    <3> QED BY <3>1, <3>2
  <2>4. ASSUME NEW s \in Servers, NEW n \in Nat, InLog(execLog'[s], n)
        PROVE  Ran(s, n) \/ (s = t /\ n = m.id)
    <3>1. CASE s = t
      <4>1. PICK k \in 1 .. Len(execLog'[t]) : execLog'[t][k] = n
        BY <2>4, <3>1 DEF Ran, InLog
      <4>2. \/ k \in 1 .. Len(execLog[t]) /\ execLog[t][k] = n
            \/ n = m.id
        BY <2>2, <4>1
      <4> QED BY <3>1, <4>2 DEF Ran, InLog
    <3>2. CASE s # t
      BY <2>1, <2>4, <3>2 DEF Ran, InLog
    <3> QED BY <3>1, <3>2
  <2>5. InLog(execLog'[t], m.id)
    <3>1. Len(execLog[t]) + 1 \in 1 .. Len(execLog'[t])
      BY <2>2
    <3> QED BY <2>2, <3>1 DEF Ran, InLog
  <2> QED BY <2>3, <2>4, <2>5
<1> QED BY <1>2, <1>3

\* Every step keeps OneServer.
LEMMA NextOneServer ==
  ASSUME ClientInv, ServerInv, OneServer, [Next]_vars
  PROVE  OneServer'
<1>1. /\ TypeOK /\ MessagesIssued /\ req.id \in Nat
      /\ pc # "idle" => req.srv \in Servers
  BY DEF ClientInv, BufferState, TypeOK, ClientTypeOK
<1>2. ASSUME NEW s \in Servers, NEW op \in Ops, PrepareStep(s, op)
      PROVE  OneServer'
  <2>1. req'.id = req.id + 1 /\ UNCHANGED <<c2s, execLog>>
    BY <1>2 DEF PrepareStep, Prepare, serverVars, netVars
  <2>2. ASSUME NEW t \in Servers PROVE ~Reached(t, req.id + 1)
    <3>1. \A i \in 1 .. Len(c2s[t]) : c2s[t][i].id # req.id + 1
      <4>1. /\ \A i \in 1 .. Len(c2s[t]) : c2s[t][i].id <= req.id
            /\ \A i \in 1 .. Len(c2s[t]) : c2s[t][i].id \in Nat
        BY <1>1, ServerElements DEF MessagesIssued, OfIssuedRequest
      <4> QED BY <1>1, <4>1
    <3>2. \A i \in 1 .. Len(execLog[t]) : execLog[t][i] # req.id + 1
      <4>1. /\ \A i \in 1 .. Len(execLog[t]) : execLog[t][i] <= LastSeen(cache[t])
            /\ LastSeen(cache[t]) <= req.id
        BY DEF ServerInv, ServerOrder, FifoOrder
      <4>2. /\ \A i \in 1 .. Len(execLog[t]) : execLog[t][i] \in Nat
            /\ LastSeen(cache[t]) \in Nat
        BY <1>1, ServerElements
      <4> QED BY <1>1, <4>1, <4>2
    <3> QED BY <3>1, <3>2 DEF Reached, Waits, Ran, InLog
  <2>3. \A t \in Servers : ~Reached(t, req.id)'
    BY <2>1, <2>2 DEF Reached, Waits, Ran
  <2>4. \A t \in Servers : \A n \in Nat : Reached(t, n)' => Reached(t, n)
    BY <2>1 DEF Reached, Waits, Ran
  <2> QED BY <2>3, <2>4 DEF OneServer
<1>3. CASE StartWaitStep \/ ResendStep
  <2>1. /\ Transmit /\ UNCHANGED execLog /\ req' = req
        /\ pc # "idle" /\ pc' # "prepared"
    BY <1>3 DEF StartWaitStep, StartWait, ResendStep, Resend, serverVars
  <2> QED BY <1>1, <2>1, TransmitReached
<1>4. CASE \/ LocalStep \/ GiveUpStep \/ ReadLenStep \/ CheckLenStep
           \/ ValidateStep \/ FinishStep \/ Interrupt \/ UNCHANGED vars
           \/ \E s \in Servers : \/ \E i \in 1 .. Len(s2c[s]) : LoseReply(s, i)
                                 \/ LoseEntryStep(s)
  <2>1. /\ UNCHANGED <<c2s, execLog, req>>
        /\ pc' = "prepared" => pc = "prepared"
    BY <1>4 DEF LocalStep, LocalRequest, GiveUpStep, GiveUp, ReadLenStep,
       ReadLen, CheckLenStep, CheckLen, ValidateStep, Validate, IgnoreFrame,
       FinishStep, Finish, Interrupt, ReceiveReplyStep, ReceiveReply,
       ReceiveOtherStep, ReceiveOther, LoseReply, LoseEntryStep, LoseEntry,
       vars, clientVars, serverVars, netVars
  <2>2. \A s \in Servers : \A n \in Nat : Reached(s, n)' => Reached(s, n)
    BY <2>1 DEF Reached, Waits, Ran, InLog
  <2> QED BY <1>1, <2>1, <2>2, FewerReached
<1>5. ASSUME NEW t \in Servers, NEW i \in 1 .. Len(c2s[t]), LoseRequest(t, i)
      PROVE  OneServer'
  <2>1. /\ c2s' = [c2s EXCEPT ![t] = RemoveAt(@, i)]
        /\ UNCHANGED <<execLog, req, pc>>
    BY <1>5 DEF LoseRequest, clientVars, serverVars
  <2>2. ASSUME NEW s \in Servers, NEW n \in Nat, Reached(s, n)'
        PROVE  Reached(s, n)
    <3>1. Waits(s, n)' => Waits(s, n)
      BY <1>1, <2>1, RemoveWaits
    <3>2. Ran(s, n)' => Ran(s, n)
      BY <2>1 DEF Ran
    <3> QED BY <2>2, <3>1, <3>2 DEF Reached
  <2> QED BY <1>1, <2>1, <2>2, FewerReached
<1>6. ASSUME NEW t \in Servers, NEW i \in 1 .. Len(c2s[t]), ServeStep(t, i)
      PROVE  OneServer'
  <2> DEFINE m == c2s[t][i]
  <2>1. /\ c2s' = [c2s EXCEPT ![t] = RemoveAt(@, i)]
        /\ Serve(t, m) /\ UNCHANGED <<req, pc>>
    BY <1>6 DEF ServeStep, clientVars
  <2>2. m \in Request /\ m.id \in Nat /\ Waits(t, m.id)
    BY <1>1, ServerElements DEF Waits
  <2> HIDE DEF m
  <2>3. ASSUME NEW s \in Servers, NEW n \in Nat, Reached(s, n)'
        PROVE  Reached(s, n)
    <3>1. Waits(s, n)' => Waits(s, n)
      BY <1>1, <2>1, RemoveWaits
    <3>2. Ran(s, n)' => Ran(s, n) \/ (s = t /\ n = m.id)
      BY <1>1, <2>1, <2>2, ServeRan DEF Ran
    <3> QED BY <2>2, <2>3, <3>1, <3>2 DEF Reached
  <2> QED BY <1>1, <2>1, <2>3, FewerReached
<1> QED BY <1>2, <1>3, <1>4, <1>5, <1>6
        DEF Next, Foreground, ServerSide, Loss

-----------------------------------------------------------------------------
(* A reply says that its request was executed *)

\* The numbers of the replies, under way, cached and in the buffer, and where
\* the replies under way come from.
LEMMA ReplyElements ==
  ASSUME ClientInv, NEW s \in Servers
  PROVE  /\ s2c[s] \in Seq(Reply)
         /\ \A i \in 1 .. Len(s2c[s]) :
              s2c[s][i] \in Reply /\ s2c[s][i].id \in Nat /\ s2c[s][i].src = s
         /\ cache[s] \in Entry /\ cache[s].reply.id \in Nat
         /\ buf.id \in Nat
<1>1. s2c[s] \in Seq(Reply) /\ cache[s] \in Entry /\ buf \in Reply
  BY DEF ClientInv, TypeOK, ServerTypeOK, ClientTypeOK
<1>2. \A i \in 1 .. Len(s2c[s]) : s2c[s][i] \in Reply
  BY <1>1, ElementOfSeq
<1>3. \A i \in 1 .. Len(s2c[s]) : s2c[s][i].src = s
  BY DEF ClientInv, MessagesIssued
<1> QED BY <1>1, <1>2, <1>3 DEF Reply, Entry

\* A step that makes no reply keeps RepliesRan: the replies, cached replies
\* and the buffer's reply after it are among those before it.
LEMMA FewerReplies ==
  ASSUME ClientInv, RepliesRan, UNCHANGED execLog,
         \A s \in Servers : \A k \in 1 .. Len(s2c'[s]) :
           \E j \in 1 .. Len(s2c[s]) : s2c'[s][k] = s2c[s][j],
         \A s \in Servers :
           cache'[s].answered => cache'[s] = cache[s],
         \/ buf' = buf
         \/ buf'.src \notin Servers
         \/ \E s \in Servers : \E j \in 1 .. Len(s2c[s]) : buf' = s2c[s][j]
  PROVE  RepliesRan'
<1> SUFFICES ASSUME NEW s \in Servers
             PROVE  /\ \A i \in 1 .. Len(s2c'[s]) : Ran(s, s2c'[s][i].id)
                    /\ cache'[s].answered => Ran(s, cache'[s].reply.id)
                    /\ buf'.src = s => Ran(s, buf'.id)
  BY DEF RepliesRan, Ran
<1>1. \A i \in 1 .. Len(s2c'[s]) : Ran(s, s2c'[s][i].id)
  BY DEF RepliesRan
<1>2. cache'[s].answered => Ran(s, cache'[s].reply.id)
  BY DEF RepliesRan
<1>3. buf'.src = s => Ran(s, buf'.id)
  <2>1. CASE buf' = buf \/ buf'.src \notin Servers
    BY <2>1 DEF RepliesRan
  <2>2. ASSUME NEW t \in Servers, NEW j \in 1 .. Len(s2c[t]), buf' = s2c[t][j]
        PROVE  buf'.src = s => Ran(s, buf'.id)
    <3>1. s2c[t][j].src = t
      BY ReplyElements
    <3> QED BY <2>2, <3>1 DEF RepliesRan
  <2> QED BY <2>1, <2>2
<1> QED BY <1>1, <1>2, <1>3

\* A served request is answered from the cache, whose reply is of an executed
\* request, or is executed itself.
LEMMA ServeRepliesRan ==
  ASSUME ClientInv, RepliesRan, NEW t \in Servers, NEW i \in 1 .. Len(c2s[t]),
         ServeStep(t, i)
  PROVE  RepliesRan'
<1> DEFINE m == c2s[t][i]
           e == NewEntry(t, m)
<1>1. TypeOK
  BY DEF ClientInv
<1>2. m \in Request /\ m.id \in Nat
  BY <1>1, ServerElements
<1>3. /\ Serve(t, m) /\ cache' = [cache EXCEPT ![t] = e] /\ buf' = buf
      /\ s2c' = IF e.answered THEN [s2c EXCEPT ![t] = Push(@, e.reply)] ELSE s2c
  BY DEF ServeStep, Serve, clientVars
<1>4. \A s \in Servers : \A n \in Nat : Ran(s, n) => InLog(execLog'[s], n)
  BY <1>1, <1>2, <1>3, ServeRan
<1>5. e \in Entry /\ e.reply \in Reply /\ e.reply.id \in Nat
  BY <1>1, <1>2, NewEntryType DEF Entry, Reply
<1>6. e.answered => InLog(execLog'[t], e.reply.id)
  <2>1. CASE SameRequest(cache[t], m)
    <3>1. cache[t] \in Entry
      BY ReplyElements
    <3>2. e.answered = cache[t].answered /\ e.reply = cache[t].reply
      BY <2>1, <3>1 DEF NewEntry, Entry
    <3>3. e.answered => Ran(t, e.reply.id)
      BY <3>2 DEF RepliesRan
    <3> QED BY <1>4, <1>5, <3>3
  <2>2. CASE ~SameRequest(cache[t], m)
    <3>1. e.answered => Executes(t, m) /\ e.reply.id = m.id
      BY <2>2 DEF NewEntry, Executes, ReplyMsg
    <3>2. Executes(t, m) => InLog(execLog'[t], m.id)
      BY <1>1, <1>2, <1>3, ServeRan
    <3> QED BY <3>1, <3>2
  <2> QED BY <2>1, <2>2
<1> HIDE DEF e, m
<1> SUFFICES ASSUME NEW s \in Servers
             PROVE  /\ \A k \in 1 .. Len(s2c'[s]) : InLog(execLog'[s], s2c'[s][k].id)
                    /\ cache'[s].answered => InLog(execLog'[s], cache'[s].reply.id)
                    /\ buf'.src = s => InLog(execLog'[s], buf'.id)
  BY DEF RepliesRan, Ran
<1>7. /\ \A k \in 1 .. Len(s2c[s]) : s2c[s][k].id \in Nat
      /\ cache[s].reply.id \in Nat /\ buf.id \in Nat /\ s2c[s] \in Seq(Reply)
  BY ReplyElements
<1>8. /\ \A k \in 1 .. Len(s2c[s]) : InLog(execLog'[s], s2c[s][k].id)
      /\ cache[s].answered => InLog(execLog'[s], cache[s].reply.id)
      /\ buf.src = s => InLog(execLog'[s], buf.id)
  BY <1>4, <1>7 DEF RepliesRan
<1>9. \A k \in 1 .. Len(s2c'[s]) : InLog(execLog'[s], s2c'[s][k].id)
  <2>1. CASE s = t /\ e.answered
    <3>1. s2c'[s] = Push(s2c[s], e.reply)
      BY <1>1, <1>3, <2>1 DEF TypeOK
    <3>2. \A j \in 1 .. Len(Push(s2c[s], e.reply)) :
            \/ j \in 1 .. Len(s2c[s]) /\ Push(s2c[s], e.reply)[j] = s2c[s][j]
            \/ Push(s2c[s], e.reply)[j] = e.reply
      BY <1>5, <1>7, PushFacts
    <3> QED BY <1>6, <1>8, <2>1, <3>1, <3>2
  <2>2. CASE ~(s = t /\ e.answered)
    <3>1. s2c'[s] = s2c[s]
      BY <1>1, <1>3, <2>2 DEF TypeOK
    <3> QED BY <1>8, <3>1
  <2> QED BY <2>1, <2>2
<1>10. cache'[s].answered => InLog(execLog'[s], cache'[s].reply.id)
  <2>1. cache'[s] = IF s = t THEN e ELSE cache[s]
    BY <1>1, <1>3 DEF TypeOK, ServerTypeOK
  <2> QED BY <1>6, <1>8, <2>1
<1> QED BY <1>3, <1>8, <1>9, <1>10

\* Every step keeps RepliesRan.
LEMMA NextRepliesRan ==
  ASSUME ClientInv, RepliesRan, [Next]_vars
  PROVE  RepliesRan'
<1>1. ASSUME NEW s \in Servers, NEW i \in 1 .. Len(s2c[s]),
             s2c' = [s2c EXCEPT ![s] = RemoveAt(@, i)]
      PROVE  \A t \in Servers : \A k \in 1 .. Len(s2c'[t]) :
               \E j \in 1 .. Len(s2c[t]) : s2c'[t][k] = s2c[t][j]
  <2> SUFFICES ASSUME NEW t \in Servers, NEW k \in 1 .. Len(s2c'[t])
               PROVE  \E j \in 1 .. Len(s2c[t]) : s2c'[t][k] = s2c[t][j]
    OBVIOUS
  <2>1. s2c'[t] = IF t = s THEN RemoveAt(s2c[s], i) ELSE s2c[t]
    BY <1>1 DEF ClientInv, TypeOK
  <2>2. s2c[s] \in Seq(Reply)
    BY ReplyElements
  <2>3. CASE t = s
    <3>1. s2c'[t] = RemoveAt(s2c[s], i)
      BY <2>1, <2>3
    <3>2. \E j \in 1 .. Len(s2c[s]) : RemoveAt(s2c[s], i)[k] = s2c[s][j]
      BY <2>2, <3>1, RemoveAtElement
    <3> QED BY <2>3, <3>1, <3>2
  <2>4. CASE t # s
    BY <2>1, <2>4
  <2> QED BY <2>3, <2>4
<1>2. ASSUME NEW t \in Servers, NEW i \in 1 .. Len(c2s[t]), ServeStep(t, i)
      PROVE  RepliesRan'
  BY <1>2, ServeRepliesRan
<1>3. CASE \/ Foreground \/ UNCHANGED vars
           \/ \E s \in Servers : \E i \in 1 .. Len(c2s[s]) : LoseRequest(s, i)
  <2>1. UNCHANGED <<s2c, cache, execLog, buf>>
    BY <1>3 DEF Foreground, PrepareStep, Prepare, LocalStep, LocalRequest,
       StartWaitStep, StartWait, ResendStep, Resend, Transmit, GiveUpStep,
       GiveUp, ReadLenStep, ReadLen, CheckLenStep, CheckLen, ValidateStep,
       Validate, IgnoreFrame, FinishStep, Finish, LoseRequest, vars,
       clientVars, serverVars, netVars
  <2> QED BY <2>1, FewerReplies
<1>4. ASSUME NEW s \in Servers, NEW i \in 1 .. Len(s2c[s]),
             LoseReply(s, i) \/ ReceiveReplyStep(s, i)
      PROVE  RepliesRan'
  <2>1. /\ s2c' = [s2c EXCEPT ![s] = RemoveAt(@, i)]
        /\ UNCHANGED <<cache, execLog>>
        /\ buf' = buf \/ buf' = s2c[s][i]
    BY <1>4 DEF LoseReply, ReceiveReplyStep, ReceiveReply, clientVars, serverVars
  <2>2. \A t \in Servers : \A k \in 1 .. Len(s2c'[t]) :
          \E j \in 1 .. Len(s2c[t]) : s2c'[t][k] = s2c[t][j]
    BY <1>1, <2>1
  <2> QED BY <2>1, <2>2, FewerReplies
<1>5. ASSUME NEW n \in JunkLens, ReceiveOtherStep(n)
      PROVE  RepliesRan'
  <2>1. UNCHANGED <<s2c, cache, execLog>> /\ buf'.src \notin Servers
    BY <1>5, WireAssumption
    DEF ReceiveOtherStep, ReceiveOther, Junk, serverVars, netVars
  <2> QED BY <2>1, FewerReplies
<1>6. ASSUME NEW s \in Servers, LoseEntryStep(s)
      PROVE  RepliesRan'
  <2>1. /\ UNCHANGED <<s2c, execLog, buf>>
        /\ cache' = [cache EXCEPT ![s] = NoEntry] /\ ~NoEntry.answered
    BY <1>6 DEF LoseEntryStep, LoseEntry, clientVars, netVars, NoEntry
  <2>2. \A t \in Servers : cache'[t].answered => cache'[t] = cache[t]
    BY <2>1 DEF ClientInv, TypeOK, ServerTypeOK
  <2> QED BY <2>1, <2>2, FewerReplies
<1> QED BY <1>2, <1>3, <1>4, <1>5, <1>6 DEF Next, Interrupt, ServerSide, Loss

-----------------------------------------------------------------------------
(* The refinement *)

RpcInv == ClientInv /\ ServerInv /\ OneServer /\ RepliesRan

\* RpcInv holds at the start.
LEMMA InitRpcInv == Init => RpcInv
<1> SUFFICES ASSUME Init PROVE RpcInv
  OBVIOUS
<1>1. /\ \A s \in Servers : /\ c2s[s] = << >> /\ execLog[s] = << >>
                            /\ s2c[s] = << >> /\ ~cache[s].answered
      /\ buf.src \notin Servers
  BY WireAssumption DEF Init, ClientInit, ServerInit, NoEntry, Junk
<1>2. OneServer
  BY <1>1 DEF OneServer, Reached, Waits, Ran, InLog
<1>3. RepliesRan
  BY <1>1 DEF RepliesRan
<1> QED BY <1>2, <1>3, InitClientInv, InitServerInv DEF RpcInv

\* RpcInv is inductive where order is kept and no entry is lost.
LEMMA NextRpcInv ==
  ASSUME ~Reorder, ~CacheLoss, RpcInv, [Next]_vars
  PROVE  RpcInv'
BY NextClientInv, NextServerInv, NextOneServer, NextRepliesRan DEF RpcInv

\* A reply that passes the checks of send_request is the reply of the server
\* asked to this very request, which it has executed.
LEMMA AcceptedRan ==
  ASSUME RpcInv, MaxReq < SeqCount, pc = "validate", SequenceOK
  PROVE  req.srv \in Servers /\ Ran(req.srv, req.id)
<1>1. /\ req.srv \in Servers /\ buf.src = req.srv
      /\ OfIssuedRequest(buf) /\ buf.seq = Sequence(req.id)
  BY DEF RpcInv, ClientInv, BufferState, SequenceOK
<1>2. buf.id \in Nat /\ req.id \in 0 .. MaxReq
  BY DEF RpcInv, ClientInv, TypeOK, ClientTypeOK, Reply
<1>3. MaxReq \in Nat /\ SeqCount \in Nat
  BY WireAssumption, ClientAssumption
<1>4. buf.id <= req.id /\ Sequence(buf.id) = Sequence(req.id)
  BY <1>1 DEF OfIssuedRequest
<1>5. buf.id = req.id \/ buf.id + SeqCount <= req.id
  BY <1>2, <1>3, <1>4, SequenceWraps
<1>6. buf.id = req.id
  BY <1>2, <1>3, <1>5
<1> QED BY <1>1, <1>6 DEF RpcInv, RepliesRan

\* Serving a request is an execution of the call or changes nothing the
\* caller sees: no server executed it before, and this one nothing later.
LEMMA ServeExecutes ==
  ASSUME RpcInv, ServerInv', NEW t \in Servers, NEW i \in 1 .. Len(c2s[t]),
         ServeStep(t, i)
  PROVE  \/ UNCHANGED Abstract!rpcVars
         \/ \E s \in Servers, n \in 1 .. req.id : Abstract!Execute(s, n)
<1> DEFINE m == c2s[t][i]
<1>1. TypeOK /\ MessagesIssued /\ req.id \in Nat
  BY DEF RpcInv, ClientInv, TypeOK, ClientTypeOK
<1>2. m \in Request /\ m.id \in Nat /\ Waits(t, m.id)
  BY <1>1, ServerElements DEF Waits
<1>3. m.id <= req.id /\ m.id >= 1
  BY <1>1 DEF MessagesIssued, OfIssuedRequest, RpcInv, ServerInv, ServerOrder,
              FifoOrder
<1>4. /\ req' = req /\ pc' = pc
      /\ execLog' = IF Executes(t, m)
                    THEN [execLog EXCEPT ![t] = Append(@, m.id)]
                    ELSE execLog
  BY DEF ServeStep, Serve, clientVars
<1>5. UNCHANGED CallPhase
  BY <1>4 DEF CallPhase
<1>6. CASE ~Executes(t, m)
  BY <1>4, <1>5, <1>6 DEF Abstract!rpcVars
<1>7. CASE Executes(t, m)
  <2> HIDE DEF m
  <2>1. execLog[t] \in Seq(Nat) /\ execLog'[t] = Append(execLog[t], m.id)
    BY <1>1, <1>4, <1>7 DEF TypeOK, ServerTypeOK
  <2>2. \A k \in 1 .. Len(execLog[t]) : execLog[t][k] < m.id
    <3>1. Increasing(execLog'[t])
      BY DEF ServerInv, ServerOrder
    <3>2. /\ Len(execLog'[t]) = Len(execLog[t]) + 1 /\ Len(execLog[t]) \in Nat
          /\ execLog'[t][Len(execLog[t]) + 1] = m.id
          /\ \A k \in 1 .. Len(execLog[t]) : execLog'[t][k] = execLog[t][k]
      BY <1>2, <2>1
    <3>3. ASSUME NEW k \in 1 .. Len(execLog[t])
          PROVE  /\ k \in 1 .. Len(execLog'[t]) /\ k < Len(execLog[t]) + 1
                 /\ Len(execLog[t]) + 1 \in 1 .. Len(execLog'[t])
      BY <3>2
    <3> QED BY <3>1, <3>2, <3>3 DEF Increasing
  <2>3. ASSUME NEW s \in Servers, NEW k \in 1 .. Len(execLog[s])
        PROVE  execLog[s][k] # m.id
    <3>1. CASE s = t
      <4>1. execLog[s][k] \in Nat /\ execLog[s][k] < m.id
        BY <1>1, <2>2, <3>1, ServerElements
      <4> QED BY <1>2, <4>1
    <3>2. CASE s # t
      BY <1>2, <3>2 DEF RpcInv, OneServer, Reached, Ran, InLog
    <3> QED BY <3>1, <3>2
  <2>4. Abstract!MayExecute(t, m.id)
    BY <2>2, <2>3 DEF Abstract!MayExecute
  <2>5. Abstract!Execute(t, m.id)
    BY <1>4, <1>5, <1>7, <2>4 DEF Abstract!Execute
  <2>6. m.id \in 1 .. req.id
    BY <1>1, <1>2, <1>3
  <2> QED BY <2>5, <2>6
<1> QED BY <1>6, <1>7

\* Every step of the request path is a step of Rpc or a stutter.
LEMMA NextSimulates ==
  ASSUME MaxReq < SeqCount, RpcInv, ServerInv', [Next]_vars
  PROVE  [Abstract!RpcNext]_(Abstract!rpcVars)
<1>1. ASSUME NEW s \in Servers, NEW op \in Ops, PrepareStep(s, op)
      PROVE  Abstract!Call
  BY <1>1 DEF PrepareStep, Prepare, Abstract!Call, CallPhase, serverVars
<1>2. CASE ValidateStep /\ pc' = "use"
  <2>1. pc = "validate" /\ SequenceOK /\ req' = req /\ execLog' = execLog
    BY <1>2 DEF ValidateStep, Validate, IgnoreFrame, serverVars
  <2>2. Abstract!Executed(req.id)
    BY <2>1, AcceptedRan DEF Abstract!Executed, Ran, InLog
  <2> QED BY <1>2, <2>1, <2>2
          DEF Abstract!ReturnOk, Abstract!RpcNext, CallPhase
<1>3. CASE GiveUpStep
  BY <1>3 DEF GiveUpStep, GiveUp, Abstract!ReturnError, Abstract!RpcNext,
     CallPhase, serverVars
<1>4. CASE FinishStep
  BY <1>4 DEF FinishStep, Finish, Abstract!Done, Abstract!RpcNext, CallPhase,
     serverVars
<1>5. CASE \/ LocalStep \/ StartWaitStep \/ ResendStep \/ ReadLenStep
           \/ CheckLenStep \/ (ValidateStep /\ pc' # "use")
  <2>1. /\ req' = req /\ execLog' = execLog
        /\ \/ pc' = pc
           \/ /\ pc \in {"prepared", "poll", "checklen", "validate"}
              /\ pc' \in {"prepared", "poll", "checklen", "validate"}
    BY <1>5 DEF LocalStep, LocalRequest, StartWaitStep, StartWait, ResendStep,
       Resend, ReadLenStep, ReadLen, CheckLenStep, CheckLen, ValidateStep,
       Validate, IgnoreFrame, serverVars
  <2>2. CallPhase' = CallPhase
    BY <2>1 DEF CallPhase
  <2> QED BY <2>1, <2>2 DEF Abstract!rpcVars
<1>6. CASE Interrupt \/ Loss \/ UNCHANGED vars
           \/ \E s \in Servers : LoseEntryStep(s)
  <2>1. UNCHANGED <<pc, req, execLog>>
    BY <1>6 DEF Interrupt, Loss, ReceiveReplyStep, ReceiveReply,
       ReceiveOtherStep, ReceiveOther, LoseRequest, LoseReply, LoseEntryStep,
       LoseEntry, vars, clientVars, serverVars
  <2> QED BY <2>1 DEF CallPhase, Abstract!rpcVars
<1>7. ASSUME NEW t \in Servers, NEW i \in 1 .. Len(c2s[t]), ServeStep(t, i)
      PROVE  [Abstract!RpcNext]_(Abstract!rpcVars)
  BY <1>7, ServeExecutes DEF Abstract!RpcNext
<1> QED BY <1>1, <1>2, <1>3, <1>4, <1>5, <1>6, <1>7
        DEF Next, Foreground, ServerSide, Abstract!RpcNext

\* The request path implements at-most-once remote procedure calls, over a
\* network that loses what it likes and keeps the order of the rest, with a
\* reply cache that keeps its entries, until the sequence number comes round.
THEOREM ImplementsRpcHolds ==
  ASSUME ~Reorder, ~CacheLoss, MaxReq < SeqCount
  PROVE  Spec => ImplementsRpc
<1>1. Init => Abstract!RpcInit
  BY DEF Init, ClientInit, ServerInit, NoRequest, Abstract!RpcInit, CallPhase
<1>2. RpcInv /\ [Next]_vars => RpcInv'
  BY NextRpcInv
<1>3. RpcInv /\ RpcInv' /\ [Next]_vars => [Abstract!RpcNext]_(Abstract!rpcVars)
  BY NextSimulates DEF RpcInv
<1> QED BY <1>1, <1>2, <1>3, InitRpcInv, PTL
        DEF Spec, ImplementsRpc, Abstract!RpcSpec
=============================================================================
