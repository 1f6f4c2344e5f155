----------------------------- MODULE ReplyCache -----------------------------
(***************************************************************************)
(* The reply cache of a server with many clients (netmount-server.cpp).    *)
(* Each entry holds the last request of one client, so that a repeated     *)
(* request is not executed again; a new client takes the oldest entry.     *)
(* Times are in seconds (time(NULL)), many requests share one; the clock   *)
(* of the server is assumed not to be set back.                            *)
(*                                                                         *)
(* Server and Transport follow one client and let it lose its entry at any *)
(* time; here is when that can happen.  The requests of a client have      *)
(* different bytes here (Transport is about sequence numbers that come     *)
(* round), and any of them may arrive any number of times.                 *)
(***************************************************************************)
EXTENDS Integers, FiniteSets

CONSTANTS
  Clients,     \* clients, each an IP address and a port
  NoClient,    \* address 0 of an entry never used
  CacheSize,   \* REPLY_CACHE_SIZE, 16 in the code
  MaxTime,     \* bound on the clock
  MaxReq,      \* bound on the requests of a client
  MaxRuns      \* bound on the executions of one request

ASSUME CacheAssumption ==
  /\ NoClient \notin Clients /\ IsFiniteSet(Clients)
  /\ CacheSize \in Nat \ {0} /\ MaxTime \in Nat \ {0} /\ MaxReq \in Nat /\ MaxRuns \in Nat

VARIABLES
  items,     \* the entries: addr, stamp (timestamp), req (recv_packet, 0 if recv_len is 0)
  now,       \* time(NULL)
  ordered,   \* do the datagrams of each client arrive in the order they were sent?
  ran,       \* history: ran[c][q], how often request q of client c was executed
  latest,    \* history: the request of c that arrived last, 0 if none
  servedAt   \* history: when that was, 0 if never

vars == <<items, now, ordered, ran, latest, servedAt>>

Index == 1..CacheSize
Requests == 1..MaxReq

Init ==
  /\ items = [i \in Index |-> [addr |-> NoClient, stamp |-> 0, req |-> 0]]
  /\ now = 1
  /\ ordered \in BOOLEAN
  /\ ran = [c \in Clients |-> [q \in Requests |-> 0]]
  /\ latest = [c \in Clients |-> 0]
  /\ servedAt = [c \in Clients |-> 0]

Matching(c) == {i \in Index : items[i].addr = c}

\* The first of the oldest entries.
Oldest ==
  {i \in Index : \A j \in Index :
     \/ items[i].stamp < items[j].stamp
     \/ items[i].stamp = items[j].stamp /\ i <= j}

\* Without the search for the client's own entry.
FoundOldest(c) == Oldest

\* get_reply_info: the client's entry, or the oldest one, emptied.
Found(c) == IF Matching(c) # {} THEN Matching(c) ELSE Oldest

\* Repeated requests are not recognised.
NeverRepeated(i, c, q) == FALSE

\* process_request: the packet is the one the entry of the client holds.
Repeated(i, c, q) == items[i].addr = c /\ items[i].req = q

(***************************************************************************)
(* One turn of the main loop: request q of c arrives, for the first time,  *)
(* again, or, unless datagrams keep their order, after a later one.  It is *)
(* executed unless its packet is the one in the entry, which holds it from *)
(* then on.                                                                *)
(***************************************************************************)
Receive(c, q) ==
  /\ ordered => q >= latest[c]
  /\ ran[c][q] < MaxRuns
  /\ \E i \in Found(c) :
       /\ ran' = IF Repeated(i, c, q) THEN ran ELSE [ran EXCEPT ![c][q] = @ + 1]
       /\ items' = [items EXCEPT ![i] = [addr |-> c, stamp |-> now, req |-> q]]
  /\ latest' = [latest EXCEPT ![c] = q]
  /\ servedAt' = [servedAt EXCEPT ![c] = now]
  /\ UNCHANGED <<now, ordered>>

Tick ==
  /\ now < MaxTime
  /\ now' = now + 1
  /\ UNCHANGED <<items, ordered, ran, latest, servedAt>>

Next ==
  \/ \E c \in Clients, q \in Requests : Receive(c, q)
  \/ Tick

Spec == Init /\ [][Next]_vars

-----------------------------------------------------------------------------
(* Properties *)

\* The variables have their types.
TypeOK ==
  /\ items \in [Index -> [addr : Clients \cup {NoClient}, stamp : Nat, req : Nat]]
  /\ now \in Nat \ {0} /\ ordered \in BOOLEAN
  /\ ran \in [Clients -> [Requests -> Nat]]
  /\ latest \in [Clients -> Nat] /\ servedAt \in [Clients -> Nat]

Forgotten(c) == servedAt[c] > 0 /\ Matching(c) = {}

\* The order of the table that get_reply_info relies on and keeps: no client has two
\* entries, an entry's time is the time its client was served and its packet the
\* request that came last, a client that lost its entry was not served after any of
\* those that have one, and if datagrams keep their order, no request after the
\* latest was executed.
CacheInv ==
  /\ TypeOK
  /\ \A i, j \in Index : items[i].addr = items[j].addr /\ items[i].addr # NoClient => i = j
  /\ \A i \in Index : IF items[i].addr = NoClient THEN items[i].stamp = 0
                      ELSE /\ items[i].stamp = servedAt[items[i].addr]
                           /\ items[i].stamp > 0
                           /\ items[i].req = latest[items[i].addr]
  /\ \A c \in Clients, q \in Requests :
       ran[c][q] > 0 => servedAt[c] > 0 /\ (ordered => q <= latest[c])
  /\ \A c \in Clients : servedAt[c] <= now
  /\ \A c \in Clients : Forgotten(c) =>
       \A i \in Index : items[i].addr # NoClient /\ items[i].stamp >= servedAt[c]

Others(c) == {d \in Clients \ {c} : servedAt[d] >= servedAt[c]}

\* A request is executed again only if, since its client was last served, at least
\* as many other clients were served as the cache has entries (in the same second
\* counts as since), or if the network does not keep the order of the client's
\* datagrams and another of its requests was the last to arrive.  So with no more
\* clients than entries, and datagrams in order, no request is executed twice
\* (get_reply_info, process_request, the end of the main loop).
RunsAgainOnlyWhenFull ==
  [][\A c \in Clients, q \in Requests :
       ran[c][q] > 0 /\ ran'[c][q] > ran[c][q] =>
         \/ Cardinality(Others(c)) >= CacheSize
         \/ ~ordered /\ latest[c] # q]_vars
=============================================================================
