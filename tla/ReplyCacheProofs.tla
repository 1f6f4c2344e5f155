-------------------------- MODULE ReplyCacheProofs --------------------------
(***************************************************************************)
(* Proofs about ReplyCache, for any number of clients and entries.         *)
(***************************************************************************)
EXTENDS ReplyCache, FiniteSetTheorems, TLAPS

\* The emptied cache satisfies the invariant.
LEMMA InitCacheInv == Init => CacheInv
<1> SUFFICES ASSUME Init PROVE CacheInv
  OBVIOUS
<1> USE CacheAssumption DEF Init, Index, Requests
<1>1. TypeOK
  BY DEF TypeOK
<1> QED
  BY <1>1 DEF CacheInv, Forgotten

\* The entry found for a client is its own, or it has none and the entry is one
\* of the oldest.
LEMMA FoundEntry ==
  ASSUME CacheInv, NEW c \in Clients, NEW i \in Found(c)
  PROVE  /\ i \in Index
         /\ \A j \in Index : j # i => items[j].addr # c
         /\ \/ items[i].addr = c
            \/ /\ Matching(c) = {}
               /\ \A j \in Index : items[i].stamp <= items[j].stamp
<1> USE CacheAssumption
<1>1. CASE Matching(c) # {}
  BY <1>1 DEF Found, Matching, CacheInv
<1>2. CASE Matching(c) = {}
  BY <1>2 DEF Found, Matching, Oldest, CacheInv, TypeOK
<1> QED
  BY <1>1, <1>2

\* Serving a client keeps the order of the table: the entry it takes is the oldest,
\* so whoever loses it was not served after any of the others.
LEMMA ReceiveCacheInv ==
  ASSUME CacheInv, NEW c \in Clients, NEW q \in Requests, Receive(c, q)
  PROVE  CacheInv'
<1> USE CacheAssumption
<1>1. PICK i \in Found(c) :
        /\ ran' = IF Repeated(i, c, q) THEN ran ELSE [ran EXCEPT ![c][q] = @ + 1]
        /\ items' = [items EXCEPT ![i] = [addr |-> c, stamp |-> now, req |-> q]]
  BY DEF Receive
<1>2. /\ servedAt' = [servedAt EXCEPT ![c] = now]
      /\ latest' = [latest EXCEPT ![c] = q]
      /\ now' = now /\ ordered' = ordered
      /\ ordered => q >= latest[c]
  BY DEF Receive
<1>3. /\ i \in Index
      /\ \A j \in Index : j # i => items[j].addr # c
      /\ \/ items[i].addr = c
         \/ /\ Matching(c) = {}
            /\ \A j \in Index : items[i].stamp <= items[j].stamp
  BY FoundEntry
<1> DEFINE new == [addr |-> c, stamp |-> now, req |-> q]
<1>4. /\ items'[i] = new
      /\ \A j \in Index : j # i => items'[j] = items[j]
  BY <1>1, <1>3 DEF CacheInv, TypeOK
<1>5. TypeOK
  BY DEF CacheInv
<1>6. TypeOK'
  <2>1. q \in Nat
    BY DEF Requests
  <2> QED
    BY <2>1, <1>1, <1>2, <1>3, <1>5 DEF TypeOK
<1>7. /\ servedAt'[c] = now /\ latest'[c] = q
      /\ \A d \in Clients : d # c => /\ servedAt'[d] = servedAt[d]
                                    /\ latest'[d] = latest[d]
                                    /\ ran'[d] = ran[d]
      /\ \A p \in Requests : p # q => ran'[c][p] = ran[c][p]
  BY <1>1, <1>2, <1>5 DEF TypeOK
<1>8. \A j \in Index : items'[j].addr = IF j = i THEN c ELSE items[j].addr
  BY <1>4
<1>9. \A j, k \in Index :
        items'[j].addr = items'[k].addr /\ items'[j].addr # NoClient => j = k
  BY <1>3, <1>8 DEF CacheInv
<1>10. \A j \in Index : IF items'[j].addr = NoClient THEN items'[j].stamp = 0
                        ELSE /\ items'[j].stamp = servedAt'[items'[j].addr]
                             /\ items'[j].stamp > 0
                             /\ items'[j].req = latest'[items'[j].addr]
  <2> SUFFICES ASSUME NEW j \in Index
               PROVE  IF items'[j].addr = NoClient THEN items'[j].stamp = 0
                      ELSE /\ items'[j].stamp = servedAt'[items'[j].addr]
                           /\ items'[j].stamp > 0
                           /\ items'[j].req = latest'[items'[j].addr]
    OBVIOUS
  <2>1. CASE j = i
    BY <2>1, <1>4, <1>5, <1>7 DEF TypeOK
  <2>2. CASE j # i
    <3>1. items'[j] = items[j] /\ items[j].addr # c
      BY <2>2, <1>3, <1>4
    <3>2. items[j].addr \in Clients \cup {NoClient}
      BY <1>5 DEF TypeOK
    <3> QED
      BY <3>1, <3>2, <1>7 DEF CacheInv
  <2> QED
    BY <2>1, <2>2
<1>11. \A d \in Clients, p \in Requests :
         ran'[d][p] > 0 => servedAt'[d] > 0 /\ (ordered' => p <= latest'[d])
  <2> SUFFICES ASSUME NEW d \in Clients, NEW p \in Requests, ran'[d][p] > 0
               PROVE  servedAt'[d] > 0 /\ (ordered' => p <= latest'[d])
    OBVIOUS
  <2>1. CASE d # c
    BY <2>1, <1>2, <1>7 DEF CacheInv
  <2>2. CASE d = c /\ p = q
    BY <2>2, <1>5, <1>7 DEF TypeOK, Requests
  <2>3. CASE d = c /\ p # q
    <3>1. ordered => p <= latest[c] /\ latest[c] <= q
      BY <2>3, <1>2, <1>7 DEF CacheInv
    <3>2. p \in Nat /\ q \in Nat /\ latest[c] \in Nat
      BY <1>5 DEF TypeOK, Requests
    <3> QED
      BY <2>3, <3>1, <3>2, <1>2, <1>5, <1>7 DEF TypeOK
  <2> QED
    BY <2>1, <2>2, <2>3
<1>12. \A d \in Clients : servedAt'[d] <= now'
  BY <1>2, <1>5, <1>7 DEF CacheInv, TypeOK
<1>13. \A d \in Clients : Forgotten(d)' =>
         \A j \in Index : items'[j].addr # NoClient /\ items'[j].stamp >= servedAt'[d]
  <2> SUFFICES ASSUME NEW d \in Clients, Forgotten(d)', NEW j \in Index
               PROVE  items'[j].addr # NoClient /\ items'[j].stamp >= servedAt'[d]
    OBVIOUS
  <2>1. servedAt'[d] > 0 /\ \A k \in Index : items'[k].addr # d
    BY DEF Forgotten, Matching
  <2>2. d # c /\ servedAt'[d] = servedAt[d]
    BY <2>1, <1>3, <1>4, <1>7
  <2>3. CASE j = i
    BY <2>3, <2>2, <1>4, <1>5 DEF CacheInv, TypeOK
  <2>4. CASE j # i
    <3>1. items'[j] = items[j]
      BY <2>4, <1>4
    <3>2. CASE Forgotten(d)
      BY <3>1, <3>2, <2>2 DEF CacheInv
    <3>3. CASE ~Forgotten(d)
      <4>1. items[i].addr = d
        BY <3>3, <2>1, <2>2, <1>4 DEF Forgotten, Matching
      <4>2. items[i].stamp = servedAt[d] /\ items[i].stamp > 0
        BY <4>1, <1>3 DEF CacheInv
      <4>3. items[i].stamp <= items[j].stamp
        BY <4>1, <2>2, <1>3
      <4>4. items[j].stamp > 0 /\ items[j].stamp >= servedAt[d]
        BY <4>2, <4>3, <1>3, <1>5 DEF TypeOK
      <4>5. items[j].addr # NoClient
        BY <4>4 DEF CacheInv
      <4> QED
        BY <4>4, <4>5, <3>1, <2>2
    <3> QED
      BY <3>2, <3>3
  <2> QED
    BY <2>3, <2>4
<1> QED
  BY <1>6, <1>9, <1>10, <1>11, <1>12, <1>13 DEF CacheInv

\* Every step keeps the invariant.
LEMMA NextCacheInv == CacheInv /\ [Next]_vars => CacheInv'
<1> SUFFICES ASSUME CacheInv, [Next]_vars PROVE CacheInv'
  OBVIOUS
<1>1. ASSUME NEW c \in Clients, NEW q \in Requests, Receive(c, q) PROVE CacheInv'
  BY <1>1, ReceiveCacheInv
<1>2. CASE Tick
  <2>1. UNCHANGED <<items, ordered, ran, latest, servedAt>> /\ now' = now + 1
    BY <1>2 DEF Tick
  <2>2. TypeOK' /\ \A c \in Clients : servedAt'[c] <= now'
    BY <2>1 DEF CacheInv, TypeOK
  <2> QED
    BY <2>1, <2>2 DEF CacheInv, Forgotten, Matching
<1>3. CASE UNCHANGED vars
  BY <1>3 DEF vars, CacheInv, TypeOK, Forgotten, Matching
<1> QED
  BY <1>1, <1>2, <1>3 DEF Next

\* get_reply_info and the main loop keep the table in the order they rely on, for
\* any number of clients and entries.
THEOREM CacheInvariant == Spec => []CacheInv
<1> QED
  BY InitCacheInv, NextCacheInv, PTL DEF Spec

\* When a client has lost its entry, the entries belong to as many other clients
\* served since.
LEMMA ManyOthers ==
  ASSUME CacheInv, NEW c \in Clients, Forgotten(c)
  PROVE  Cardinality(Others(c)) >= CacheSize
<1> USE CacheAssumption
<1> DEFINE owner == [i \in Index |-> items[i].addr]
<1>1. \A i \in Index : owner[i] \in Others(c)
  <2> SUFFICES ASSUME NEW i \in Index PROVE items[i].addr \in Others(c)
    OBVIOUS
  <2>1. items[i].addr # NoClient /\ items[i].stamp >= servedAt[c]
    BY DEF CacheInv
  <2>2. items[i].addr \in Clients /\ items[i].addr # c
    BY <2>1 DEF CacheInv, TypeOK, Forgotten, Matching
  <2>3. items[i].stamp = servedAt[items[i].addr]
    BY <2>1 DEF CacheInv
  <2> QED
    BY <2>1, <2>2, <2>3 DEF Others
<1>2. owner \in Injection(Index, Others(c))
  <2>1. owner \in [Index -> Others(c)]
    BY <1>1
  <2>2. \A i, j \in Index : owner[i] = owner[j] => i = j
    BY <1>1 DEF CacheInv, Others
  <2> QED
    BY <2>1, <2>2 DEF Injection, IsInjective
<1>3. IsFiniteSet(Others(c)) /\ IsFiniteSet(Clients)
  <2>1. Others(c) \subseteq Clients
    BY DEF Others
  <2> QED
    BY <2>1, FS_Subset
<1>4. IsFiniteSet(Index) /\ Cardinality(Index) = CacheSize
  BY FS_Interval DEF Index
<1>5. Cardinality(Index) <= Cardinality(Others(c))
  BY <1>2, <1>3, <1>4, FS_Injection
<1>6. Cardinality(Others(c)) \in Nat
  BY <1>3, FS_CardinalityType
<1> QED
  BY <1>4, <1>5, <1>6

\* A request that has been executed is executed again only when its client lost its
\* entry, or when the entry holds another request that came later than it, which a
\* network that keeps the order of datagrams rules out.
LEMMA RunsAgainWhen ==
  ASSUME CacheInv, [Next]_vars, NEW c \in Clients, NEW q \in Requests,
         ran[c][q] > 0, ran'[c][q] > ran[c][q]
  PROVE  Forgotten(c) \/ (~ordered /\ latest[c] # q)
<1> USE CacheAssumption
<1>1. TypeOK
  BY DEF CacheInv
<1>2. PICK d \in Clients, p \in Requests : Receive(d, p)
  <2>1. ran[c][q] \in Nat
    BY <1>1 DEF TypeOK
  <2>2. ~Tick /\ ~UNCHANGED vars
    BY <2>1 DEF Tick, vars
  <2> QED
    BY <2>2 DEF Next
<1>3. PICK i \in Found(d) :
        ran' = IF Repeated(i, d, p) THEN ran ELSE [ran EXCEPT ![d][p] = @ + 1]
  BY <1>2 DEF Receive
<1>4. d = c /\ p = q /\ ~Repeated(i, d, p)
  BY <1>1, <1>3 DEF TypeOK
<1>5. i \in Index /\ (items[i].addr = c \/ Matching(c) = {})
  BY <1>3, <1>4, FoundEntry
<1>6. servedAt[c] > 0 /\ (ordered => q <= latest[c])
  BY DEF CacheInv
<1>7. CASE items[i].addr = c
  <2>1. items[i].req = latest[c] /\ latest[c] # q
    BY <1>4, <1>5, <1>7 DEF Repeated, CacheInv
  <2>2. ordered => q >= latest[c]
    BY <1>2, <1>4 DEF Receive
  <2>3. latest[c] \in Nat /\ q \in Nat
    BY <1>1 DEF TypeOK, Requests
  <2> QED
    BY <2>1, <2>2, <2>3, <1>6
<1> QED
  BY <1>5, <1>6, <1>7 DEF Forgotten

\* A request is executed again only after at least as many other clients were served
\* as the cache has entries, or, where the network does not keep the order of
\* datagrams, after another request of its client: with no more clients than entries
\* and datagrams in order, never.
THEOREM RunsAgain == Spec => RunsAgainOnlyWhenFull
<1>1. CacheInv /\ [Next]_vars =>
        [\A c \in Clients, q \in Requests :
           ran[c][q] > 0 /\ ran'[c][q] > ran[c][q] =>
             \/ Cardinality(Others(c)) >= CacheSize
             \/ ~ordered /\ latest[c] # q]_vars
  BY RunsAgainWhen, ManyOthers
<1> QED
  BY <1>1, CacheInvariant, PTL DEF Spec, RunsAgainOnlyWhenFull
=============================================================================
