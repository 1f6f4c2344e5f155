----------------------------- MODULE DriveProofs -----------------------------
(***************************************************************************)
(* Theorems about a shared drive: a read-only share is never changed by a  *)
(* request, a handle changes its path only when it has to, and the disk    *)
(* stays a tree whatever is made, renamed and deleted, for all drives.     *)
(* With room and numbers for all names in a list: every file can be named, *)
(* a pattern deletes all it matches, what was made is found, and a search  *)
(* misses nothing.                                                         *)
(***************************************************************************)
EXTENDS Drive, SequenceTheorems, FiniteSetTheorems, WellFoundedInduction, TLAPS

-----------------------------------------------------------------------------
(* Read-only drives *)

\* A step that leaves everything on the drive as it is, the bytes and the dates
\* of the files too.
Untouched == disk' = disk /\ last' # Written

\* The records of what a request did are told apart.
LEMMA Results ==
  /\ NoResult # Written
  /\ \A cp, p : [op |-> "made", cp |-> cp, path |-> p] # Written
BY DEF NoResult, Written

\* An answer that changes only the handles.
LEMMA AnswerUntouched ==
  ASSUME NEW its, Answer(its)
  PROVE  Untouched
BY Results DEF Answer, Effect, SetDisk, Untouched

\* On a read-only drive the requests that rebuild lists change nothing.
LEMMA ReadOnlyRebuild ==
  ASSUME NEW r, NEW ok, NEW dk, NEW cp, readOnly, ChangeAndRebuild(r, ok, dk, cp)
  PROVE  Untouched
BY AnswerUntouched DEF ChangeAndRebuild

\* No request of a client changes a read-only drive.
LEMMA ReadOnlyRequest ==
  ASSUME readOnly, ClientRequest
  PROVE  Untouched
<1>1. ASSUME NEW cp, MakeDir(cp) PROVE Untouched
  BY <1>1, ReadOnlyRebuild DEF MakeDir
<1>2. ASSUME NEW cp, RemoveDir(cp) PROVE Untouched
  BY <1>2, ReadOnlyRebuild DEF RemoveDir
<1>3. ASSUME NEW dir, ChangeDir(dir) PROVE Untouched
  BY <1>3, AnswerUntouched DEF ChangeDir
<1>4. ASSUME NEW cp, GetAttrs(cp) PROVE Untouched
  BY <1>4, AnswerUntouched DEF GetAttrs
<1>5. ASSUME NEW cp, NEW ro, SetAttrs(cp, ro) PROVE Untouched
  BY <1>5, AnswerUntouched, ReadOnlyRebuild DEF SetAttrs
<1>6. ASSUME NEW cp1, NEW cp2, Rename(cp1, cp2) PROVE Untouched
  BY <1>6, ReadOnlyRebuild DEF Rename, RenameFile
<1>7. ASSUME NEW cp, DeleteFile(cp) PROVE Untouched
  BY <1>7, AnswerUntouched DEF DeleteFile
<1>8. ASSUME NEW dir, DeleteMatching(dir) PROVE Untouched
  BY <1>8, AnswerUntouched DEF DeleteMatching
<1>9. ASSUME NEW p, NEW its, OpenedAs(p, disk, its, NoResult) PROVE Untouched
  BY <1>9, Results DEF OpenedAs, Effect, SetDisk, Untouched
<1>10. ASSUME NEW cp, NEW write, OpenFile(cp, write) PROVE Untouched
  BY <1>10, <1>9, AnswerUntouched DEF OpenFile
<1>11. ASSUME NEW cp, NEW ro, CreateFile(cp, ro) PROVE Untouched
  BY <1>11, AnswerUntouched DEF CreateFile, CanCreate
<1>12. ASSUME NEW cp, ExtendedOpen(cp) PROVE Untouched
  <2>1. \A p : ~CanCreate(p) BY DEF CanCreate
  <2> QED BY <1>12, <2>1, <1>9, AnswerUntouched, ZenonT(40) DEF ExtendedOpen
<1>13. ASSUME NEW h, UseHandle(h) PROVE Untouched
  BY <1>13, AnswerUntouched DEF UseHandle
<1>14. ASSUME NEW h, WriteFile(h) PROVE Untouched
  BY <1>14, AnswerUntouched DEF WriteFile
<1>15. ASSUME NEW h, CloseFile(h) PROVE Untouched
  BY <1>15, AnswerUntouched DEF CloseFile
<1>16. ASSUME NEW s, NEW dir, NEW attr, FindFirst(s, dir, attr) PROVE Untouched
  BY <1>16, Results DEF FindFirst, SearchFails, Searched, Untouched
<1>17. ASSUME NEW s, FindNext(s) PROVE Untouched
  BY <1>17, Results DEF FindNext, SearchFails, Searched, Untouched
<1>18. ASSUME NEW s, EndSearch(s) PROVE Untouched
  BY <1>18, Results DEF EndSearch, SearchFails, Untouched
<1> QED
  BY <1>1, <1>2, <1>3, <1>4, <1>5, <1>6, <1>7, <1>8, <1>10, <1>11, <1>12, <1>13,
     <1>14, <1>15, <1>16, <1>17, <1>18 DEF ClientRequest

\* No request, however it is put together, changes anything on a drive that is
\* shared read-only, neither names and attributes nor the bytes and the date of a
\* file: only the host itself does, for every drive.
THEOREM ReadOnlyKeptHolds == Spec => ReadOnlyKept
<1>1. Next => (readOnly /\ ~Untouched => \E p \in HostPaths : HostChange(p))
  <2> SUFFICES ASSUME Next, readOnly, ~Untouched
               PROVE  \E p \in HostPaths : HostChange(p)
    OBVIOUS
  <2>1. CASE ClientRequest BY <2>1, ReadOnlyRequest
  <2>2. CASE Tick BY <2>2, Results DEF Tick, Untouched
  <2>3. CASE Restart BY <2>3, AnswerUntouched DEF Restart
  <2> QED BY <2>1, <2>2, <2>3 DEF Next
<1>2. [Next]_vars =>
        [readOnly /\ (disk' # disk \/ last' = Written) => \E p \in HostPaths : HostChange(p)]_vars
  BY <1>1 DEF Untouched
<1> QED BY <1>2, PTL DEF Spec, ReadOnlyKept

-----------------------------------------------------------------------------
(* Natural numbers: least elements, induction and recursion *)

\* A set of natural numbers that is not empty has a least element.
LEMMA NatMin ==
  ASSUME NEW T \in SUBSET Nat, T # {}
  PROVE  \E m \in T : \A k \in T : m <= k
<1>1. PICK m \in T : \A k \in T : <<k, m>> \notin OpToRel(<, Nat)
  BY NatLessThanWellFounded, WFMin, Zenon
<1>2. \A k \in T : ~ (k < m)
  <2> SUFFICES ASSUME NEW k \in T, k < m PROVE FALSE OBVIOUS
  <2>1. k \in Nat /\ m \in Nat OBVIOUS
  <2>2. <<k, m>> \in OpToRel(<, Nat) BY <2>1 DEF OpToRel
  <2> QED BY <2>2, <1>1
<1> QED BY <1>2

\* Least is that element.
LEMMA LeastOf ==
  ASSUME NEW T \in SUBSET Nat, T # {}
  PROVE  Least(T) \in T /\ \A k \in T : Least(T) <= k
<1>1. \E m \in T : \A k \in T : m <= k BY NatMin
<1> QED BY <1>1 DEF Least

\* A set that holds 0 and the successor of each of its numbers holds them all.
LEMMA SetInduction ==
  ASSUME NEW S, 0 \in S, \A n \in Nat : n \in S => n + 1 \in S
  PROVE  \A n \in Nat : n \in S
<1> SUFFICES ASSUME NEW n \in Nat, n \notin S PROVE FALSE OBVIOUS
<1> DEFINE T == {k \in Nat : k \notin S}
<1>1. PICK m \in T : \A k \in T : m <= k
  <2> T # {} /\ T \in SUBSET Nat OBVIOUS
  <2> HIDE DEF T
  <2> QED BY NatMin
<1>2. m # 0 /\ m \in Nat OBVIOUS
<1>3. m - 1 \in Nat /\ m - 1 \in S BY <1>1, <1>2
<1> QED BY <1>1, <1>2, <1>3

\* A chain of values of T, each the image of the one before under a step.
Chained(T, start, n, F) ==
  \E f \in [0 .. n -> T] : f[0] = start /\ \A k \in 1 .. n : f[k] = F[k][f[k - 1]]

\* There is such a chain for every sequence of steps.
LEMMA Iterate ==
  ASSUME NEW T, NEW start \in T, NEW n \in Nat, NEW F \in [1 .. n -> [T -> T]]
  PROVE  Chained(T, start, n, F)
<1> DEFINE P(m, f) == /\ f \in [0 .. m -> T]
                      /\ f[0] = start /\ \A k \in 1 .. m : f[k] = F[k][f[k - 1]]
           S == {m \in Nat : m <= n => \E f : P(m, f)}
<1>1. 0 \in S
  <2> DEFINE f == [k \in 0 .. 0 |-> start]
  <2>1. P(0, f) OBVIOUS
  <2> QED BY <2>1
<1>2. ASSUME NEW m \in Nat, m \in S PROVE m + 1 \in S
  <2> SUFFICES ASSUME m + 1 <= n PROVE \E f : P(m + 1, f) OBVIOUS
  <2>1. PICK f : P(m, f) BY <1>2
  <2>2. f[m] \in T BY <2>1
  <2>3. F[m + 1][f[m]] \in T
    <3>1. F[m + 1] \in [T -> T] OBVIOUS
    <3> QED BY <3>1, <2>2
  <2> DEFINE g == [k \in 0 .. m + 1 |-> IF k <= m THEN f[k] ELSE F[m + 1][f[m]]]
  <2>4. g \in [0 .. m + 1 -> T] BY <2>1, <2>3
  <2>5. g[0] = start BY <2>1
  <2>6. ASSUME NEW k \in 1 .. m + 1 PROVE g[k] = F[k][g[k - 1]]
    <3>1. g[k - 1] = f[k - 1] OBVIOUS
    <3>2. CASE k <= m
      <4>1. g[k] = f[k] BY <3>2
      <4> HIDE DEF g
      <4> QED BY <3>1, <3>2, <4>1, <2>1
    <3>3. CASE k = m + 1
      <4>1. g[k] = F[m + 1][f[m]] BY <3>3
      <4> HIDE DEF g
      <4> QED BY <3>1, <3>3, <4>1
    <3> QED BY <3>2, <3>3
  <2>7. P(m + 1, g)
    <3> HIDE DEF g
    <3> QED BY <2>4, <2>5, <2>6
  <2> QED BY <2>7
<1>3. \A m \in Nat : m \in S
  <2> HIDE DEF S
  <2> QED BY <1>1, <1>2, SetInduction
<1> QED BY <1>3 DEF Chained

-----------------------------------------------------------------------------
(* Directory lists *)

Lists == {l \in Seq(Entry) : Len(l) <= MaxEntries}

\* The short names a host name may get.
ShortsOf(n) == {Plain[n]} \cup {Numbered(n, k) : k \in 1 .. MaxSuffix}

\* A host name gets one of them.
LEMMA ShortNameType ==
  ASSUME NEW n \in Names, NEW used
  PROVE  FileNameTo83(n, used) \in ShortsOf(n)
<1> DEFINE free == {k \in 1 .. MaxSuffix : Numbered(n, k) \notin used}
<1>1. \A k \in 1 .. MaxSuffix : Numbered(n, k) \in ShortsOf(n) BY DEF ShortsOf
<1>2. MaxSuffix \in Nat /\ MaxSuffix # 0 BY NamesAssumption
<1>3. free # {} => Least(free) \in 1 .. MaxSuffix
  <2>1. free \in SUBSET Nat /\ free \subseteq 1 .. MaxSuffix BY <1>2
  <2> HIDE DEF free
  <2> QED BY <2>1, LeastOf
<1>4. Plain[n] \in ShortsOf(n) BY DEF ShortsOf
<1>5. \/ FileNameTo83(n, used) \in {Plain[n], Numbered(n, MaxSuffix)}
      \/ free # {} /\ FileNameTo83(n, used) = Numbered(n, Least(free))
  BY DEF FileNameTo83
<1> HIDE DEF free
<1> QED BY <1>1, <1>2, <1>3, <1>4, <1>5

\* An entry for a host name.
LEMMA NameEntry ==
  ASSUME NEW n \in Names, NEW s \in ShortsOf(n), NEW k \in {"file", "dir"}
  PROVE  [short |-> s, name |-> n, kind |-> k] \in Entry
<1>1. n # NoName BY NamesAssumption
<1>2. [short |-> s, name |-> n, kind |-> k] \in EntryOf(n) BY <1>1 DEF EntryOf, ShortsOf
<1> QED BY <1>2 DEF Entry

\* What an entry says of its host name.
LEMMA EntryIs ==
  ASSUME NEW e \in Entry
  PROVE  /\ e.name \in Names \cup {NoName, ".", ".."}
         /\ e.name \in Names => e.short \in ShortsOf(e.name) /\ e.kind # "vol"
         /\ e.name \notin Names => e.kind = "vol" \/ e.short \in {<<".", 0>>, <<"..", 0>>}
<1>1. PICK n \in Names \cup {NoName, ".", ".."} : e \in EntryOf(n) BY DEF Entry
<1>2. CASE n \in Names
  <2>1. n # NoName BY <1>2, NamesAssumption
  <2> QED BY <1>1, <1>2, <2>1 DEF EntryOf, ShortsOf
<1>3. CASE n \notin Names /\ n = NoName BY <1>1, <1>3 DEF EntryOf
<1>4. CASE n \notin Names /\ n # NoName BY <1>1, <1>4 DEF EntryOf
<1> QED BY <1>2, <1>3, <1>4

\* The leading entries fit in a list.
LEMMA LeadType ==
  ASSUME NEW p
  PROVE  /\ LeadEntries(p) \in Lists /\ Len(LeadEntries(p)) <= 2
         /\ \A i \in 1 .. Len(LeadEntries(p)) : LeadEntries(p)[i].name \notin Names
<1>1. MaxEntries \in Nat /\ MaxEntries >= 2 BY NamesAssumption
<1> DEFINE v == [short |-> <<"label", 0>>, name |-> NoName, kind |-> "vol"]
           d1 == [short |-> <<".", 0>>, name |-> ".", kind |-> "dir"]
           d2 == [short |-> <<"..", 0>>, name |-> "..", kind |-> "dir"]
<1>2. v \in Entry /\ d1 \in Entry /\ d2 \in Entry
  <2>1. NoName \notin Names /\ "." \notin Names /\ ".." \notin Names BY NamesAssumption
  <2>2. "." # NoName /\ ".." # NoName BY DEF NoName
  <2>3. v \in EntryOf(NoName) BY <2>1 DEF EntryOf
  <2>4. d1 \in EntryOf(".") BY <2>1, <2>2 DEF EntryOf
  <2>5. d2 \in EntryOf("..") BY <2>1, <2>2 DEF EntryOf
  <2> HIDE DEF v, d1, d2
  <2> QED BY <2>3, <2>4, <2>5 DEF Entry
<1>3. LeadEntries(p) \in {<<>>, <<v>>, <<d1, d2>>} BY DEF LeadEntries
<1>n. v.name \notin Names /\ d1.name \notin Names /\ d2.name \notin Names BY NamesAssumption
<1> HIDE DEF v, d1, d2
<1>4. <<>> \in Lists /\ Len(<<>>) = 0 BY <1>1 DEF Lists
<1>5. <<v>> \in Lists /\ Len(<<v>>) = 1 /\ <<v>>[1] = v BY <1>1, <1>2 DEF Lists
<1>6. <<d1, d2>> \in Lists /\ Len(<<d1, d2>>) = 2 /\ <<d1, d2>>[1] = d1 /\ <<d1, d2>>[2] = d2
  <2>1. /\ <<d1, d2>> \in Seq(Entry) /\ Len(<<d1, d2>>) = 2
        /\ <<d1, d2>>[1] = d1 /\ <<d1, d2>>[2] = d2
    BY <1>2
  <2> QED BY <1>1, <2>1 DEF Lists
<1>7. CASE LeadEntries(p) = <<>> BY <1>4, <1>7
<1>8. CASE LeadEntries(p) = <<v>>
  <2>1. \A i \in 1 .. 1 : i = 1 OBVIOUS
  <2> QED BY <1>5, <1>8, <1>n, <2>1
<1>9. CASE LeadEntries(p) = <<d1, d2>>
  <2>1. \A i \in 1 .. 2 : i = 1 \/ i = 2 OBVIOUS
  <2> QED BY <1>6, <1>9, <1>n, <2>1
<1> QED BY <1>3, <1>7, <1>8, <1>9

\* The places in Order of the names in a directory.
There(dk, p) == {i \in DOMAIN Order : Append(p, Order[i]) \in DOMAIN dk}

\* The entry create_directory_list puts behind the list l for a name.
NewEntry(dk, p, k, l) ==
  [short |-> FileNameTo83(Order[k], UsedNames(l)),
   name |-> Order[k],
   kind |-> Kind(dk, Append(p, Order[k]))]

\* One turn of its loop.
Extended(dk, p, k, l) ==
  IF k \notin There(dk, p) \/ Len(l) = MaxEntries THEN l ELSE Append(l, NewEntry(dk, p, k, l))

\* The lists it goes through.
ListChain(dk, p, u) ==
  /\ u \in [0 .. Len(Order) -> Lists]
  /\ u[0] = LeadEntries(p)
  /\ \A k \in 1 .. Len(Order) : u[k] = Extended(dk, p, k, u[k - 1])

\* A turn of the loop makes a list from a list.
LEMMA ExtendedType ==
  ASSUME NEW dk, NEW p, NEW k \in 1 .. Len(Order), NEW l \in Lists
  PROVE  /\ Extended(dk, p, k, l) \in Lists
         /\ Order[k] \in Names /\ NewEntry(dk, p, k, l) \in Entry
<1> DEFINE x == NewEntry(dk, p, k, l)
<1>1. DOMAIN Order = 1 .. Len(Order) BY NamesAssumption, LenProperties
<1>2. Order[k] \in Names BY <1>1 DEF Names
<1>3. x \in Entry
  <2>1. FileNameTo83(Order[k], UsedNames(l)) \in ShortsOf(Order[k]) BY <1>2, ShortNameType
  <2>2. Kind(dk, Append(p, Order[k])) \in {"file", "dir"} BY DEF Kind
  <2> QED BY <1>2, <2>1, <2>2, NameEntry DEF NewEntry
<1> HIDE DEF x
<1>4. l \in Seq(Entry) /\ Len(l) \in Nat /\ Len(l) <= MaxEntries BY LenProperties DEF Lists
<1>5. MaxEntries \in Nat BY NamesAssumption
<1>6. CASE k \notin There(dk, p) \/ Len(l) = MaxEntries BY <1>2, <1>3, <1>6 DEF Extended, x
<1>7. CASE ~(k \notin There(dk, p) \/ Len(l) = MaxEntries)
  <2>1. Extended(dk, p, k, l) = Append(l, x) BY <1>7 DEF Extended, x
  <2>2. Append(l, x) \in Seq(Entry) /\ Len(Append(l, x)) = Len(l) + 1
    BY <1>3, <1>4, AppendProperties
  <2>3. Len(l) # MaxEntries BY <1>7
  <2>4. Append(l, x) \in Lists BY <2>2, <2>3, <1>4, <1>5 DEF Lists
  <2> QED BY <2>1, <2>4, <1>2, <1>3 DEF x
<1> QED BY <1>6, <1>7

\* A directory list is the last of such lists.
LEMMA ListMade ==
  ASSUME NEW dk, NEW p
  PROVE  \E u : /\ ListChain(dk, p, u)
               /\ DirectoryList(dk, p) =
                    IF There(dk, p) = {} \/ ~IsDir(dk, p) THEN <<>> ELSE u[Len(Order)]
<1> DEFINE n == Len(Order)
           there == There(dk, p)
           Step(k, l) == Extended(dk, p, k, l)
           Makes(u) == u = [k \in 0 .. n |-> IF k = 0 THEN LeadEntries(p) ELSE Step(k, u[k - 1])]
           upto == CHOOSE u : Makes(u)
<1>1. n \in Nat /\ DOMAIN Order = 1 .. n BY NamesAssumption, LenProperties
<1>2. ASSUME NEW k \in 1 .. n, NEW l \in Lists PROVE Step(k, l) \in Lists
  BY ExtendedType
<1>3. DirectoryList(dk, p) = IF there = {} \/ ~IsDir(dk, p) THEN <<>> ELSE upto[n]
  BY DEF DirectoryList, There, Extended, NewEntry
<1> HIDE DEF Step, there
<1>4. \E u : Makes(u)
  <2> DEFINE F == [k \in 1 .. n |-> [l \in Lists |-> Step(k, l)]]
  <2>1. F \in [1 .. n -> [Lists -> Lists]] BY <1>2
  <2>2. \A k \in 1 .. n, l \in Lists : F[k][l] = Step(k, l) OBVIOUS
  <2>3. LeadEntries(p) \in Lists BY LeadType
  <2> HIDE DEF F
  <2>4. PICK f \in [0 .. n -> Lists] :
          f[0] = LeadEntries(p) /\ \A k \in 1 .. n : f[k] = F[k][f[k - 1]]
    BY <1>1, <2>1, <2>3, Iterate DEF Chained
  <2> DEFINE g == [k \in 0 .. n |-> IF k = 0 THEN LeadEntries(p) ELSE Step(k, f[k - 1])]
  <2>5. \A k \in 0 .. n : f[k] = g[k]
    <3>1. \A k \in 1 .. n : f[k - 1] \in Lists BY <1>1
    <3> QED BY <1>1, <2>2, <2>4, <3>1
  <2>6. DOMAIN g = 0 .. n /\ g = [k \in DOMAIN g |-> g[k]] OBVIOUS
  <2>7. DOMAIN f = 0 .. n /\ f = [k \in DOMAIN f |-> f[k]] OBVIOUS
  <2>8. f = g
    <3> HIDE DEF g
    <3> QED BY <2>5, <2>6, <2>7
  <2>9. Makes(f) BY <2>8
  <2> QED BY <2>9
<1>5. Makes(upto)
  <2> HIDE DEF Makes
  <2> QED BY <1>4
<1> HIDE DEF upto
<1>6. /\ upto[0] = LeadEntries(p) /\ \A k \in 1 .. n : upto[k] = Step(k, upto[k - 1])
      /\ DOMAIN upto = 0 .. n /\ upto = [k \in 0 .. n |-> upto[k]]
  <2> DEFINE g == [k \in 0 .. n |-> IF k = 0 THEN LeadEntries(p) ELSE Step(k, upto[k - 1])]
  <2>1. upto = g BY <1>5
  <2>2. g[0] = LeadEntries(p) /\ \A k \in 1 .. n : g[k] = Step(k, upto[k - 1]) BY <1>1
  <2>3. DOMAIN g = 0 .. n /\ g = [k \in 0 .. n |-> g[k]] OBVIOUS
  <2> HIDE DEF g
  <2> QED BY <2>1, <2>2, <2>3
<1>7. \A k \in Nat : k <= n => upto[k] \in Lists
  <2> DEFINE S == {k \in Nat : k <= n => upto[k] \in Lists}
  <2>1. 0 \in S BY <1>6, LeadType
  <2>2. ASSUME NEW k \in Nat, k \in S PROVE k + 1 \in S
    <3> SUFFICES ASSUME k + 1 <= n PROVE upto[k + 1] \in Lists OBVIOUS
    <3>1. k + 1 \in 1 .. n /\ k <= n /\ (k + 1) - 1 = k BY <1>1
    <3>2. upto[k] \in Lists BY <2>2, <3>1
    <3> QED BY <3>1, <3>2, <1>6, <1>2
  <2> HIDE DEF S
  <2>3. \A k \in Nat : k \in S BY <2>1, <2>2, SetInduction
  <2> QED BY <2>3 DEF S
<1>8. upto \in [0 .. n -> Lists]
  <2>1. \A k \in 0 .. n : upto[k] \in Lists BY <1>1, <1>7
  <2> QED BY <2>1, <1>6
<1>9. ListChain(dk, p, upto) BY <1>6, <1>8 DEF ListChain, Step
<1> QED BY <1>3, <1>9 DEF there

\* A list is one, whatever the directory holds.
LEMMA ListType ==
  ASSUME NEW dk, NEW p
  PROVE  DirectoryList(dk, p) \in Lists
<1>1. PICK u : /\ ListChain(dk, p, u)
               /\ DirectoryList(dk, p) =
                    IF There(dk, p) = {} \/ ~IsDir(dk, p) THEN <<>> ELSE u[Len(Order)]
  BY ListMade
<1>2. Len(Order) \in Nat BY NamesAssumption, LenProperties
<1>3. u[Len(Order)] \in Lists BY <1>1, <1>2 DEF ListChain
<1>4. <<>> \in Lists BY NamesAssumption DEF Lists
<1> QED BY <1>1, <1>3, <1>4

-----------------------------------------------------------------------------
(* Handles *)

\* What an item is at the time t.
Item(t) == [path : Seq(STRING), used : 0 .. t, list : Lists]

\* Every handle has a path of its own.
ItemsOK(its, t) ==
  /\ its \in Seq(Item(t)) /\ Len(its) <= MaxHandles
  /\ \A g, h \in 1 .. Len(its) : its[g].path = its[h].path => g = h

(***************************************************************************)
(* What a request at the time t may do to the handles a: it uses some of   *)
(* them, and gives one to another path only when all are taken and each of *)
(* the others was used later, before the request or by it.  Unlike         *)
(* HandleKept this can be put together from the parts of a request.        *)
(***************************************************************************)
Kept(a, b, t) ==
  /\ Len(a) <= Len(b)
  /\ \A h \in 1 .. Len(a) :
       /\ b[h].used \in {a[h].used, t}
       /\ b[h].path # a[h].path =>
            /\ Len(b) = MaxHandles
            /\ \A g \in 1 .. Len(a) : a[h].used <= a[g].used \/ b[g].used = t

\* The items have their fields.
LEMMA ItemFields ==
  ASSUME NEW t \in Nat, NEW its, ItemsOK(its, t)
  PROVE  /\ Len(its) \in Nat /\ DOMAIN its = 1 .. Len(its) /\ Len(its) <= MaxHandles
         /\ \A h \in 1 .. Len(its) :
              /\ its[h] \in Item(t) /\ its[h].path \in Seq(STRING)
              /\ its[h].used \in Nat /\ its[h].used <= t /\ its[h].list \in Lists
<1>1. its \in Seq(Item(t)) BY DEF ItemsOK
<1>2. \A h \in 1 .. Len(its) : its[h] \in Item(t) BY <1>1, ElementOfSeq
<1>3. \A x \in Item(t) : /\ x.path \in Seq(STRING) /\ x.list \in Lists
                         /\ x.used \in Nat /\ x.used <= t
  BY DEF Item
<1> QED BY <1>1, <1>2, <1>3, LenProperties DEF ItemsOK

\* Doing nothing is allowed.
LEMMA KeptSelf ==
  ASSUME NEW t \in Nat, NEW a, ItemsOK(a, t)
  PROVE  Kept(a, a, t)
BY ItemFields DEF Kept

\* Two parts of a request make one.
LEMMA KeptTrans ==
  ASSUME NEW t \in Nat, NEW a, NEW b, NEW c, ItemsOK(a, t), ItemsOK(b, t), ItemsOK(c, t),
         Kept(a, b, t), Kept(b, c, t)
  PROVE  Kept(a, c, t)
<1>1. /\ Len(a) \in Nat /\ Len(b) \in Nat /\ Len(c) \in Nat /\ MaxHandles \in Nat
      /\ Len(a) <= Len(b) /\ Len(b) <= Len(c) /\ Len(c) <= MaxHandles
  BY ItemFields, NamesAssumption DEF Kept
<1>2. \A h \in 1 .. Len(a) :
        /\ h \in 1 .. Len(b) /\ h \in 1 .. Len(c)
        /\ a[h].used \in Nat /\ b[h].used \in Nat /\ c[h].used \in Nat
        /\ a[h].used <= t /\ b[h].used <= t /\ c[h].used <= t
        /\ b[h].used \in {a[h].used, t} /\ c[h].used \in {b[h].used, t}
  <2> TAKE h \in 1 .. Len(a)
  <2>1. h \in 1 .. Len(b) /\ h \in 1 .. Len(c) BY <1>1
  <2> QED BY <2>1, ItemFields DEF Kept
<1>3. ASSUME NEW h \in 1 .. Len(a), c[h].path # a[h].path
      PROVE  /\ Len(c) = MaxHandles
             /\ \A g \in 1 .. Len(a) : a[h].used <= a[g].used \/ c[g].used = t
  <2>1. CASE b[h].path # a[h].path
    <3>1. Len(b) = MaxHandles /\ \A g \in 1 .. Len(a) : a[h].used <= a[g].used \/ b[g].used = t
      BY <2>1 DEF Kept
    <3> QED BY <1>1, <1>2, <3>1
  <2>2. CASE b[h].path = a[h].path
    <3>1. c[h].path # b[h].path /\ h \in 1 .. Len(b) BY <1>2, <1>3, <2>2
    <3>2. Len(c) = MaxHandles /\ \A g \in 1 .. Len(b) : b[h].used <= b[g].used \/ c[g].used = t
      BY <3>1 DEF Kept
    <3>3. ASSUME NEW g \in 1 .. Len(a) PROVE a[h].used <= a[g].used \/ c[g].used = t
      <4>1. b[h].used <= b[g].used \/ c[g].used = t BY <1>2, <3>2
      <4> QED BY <4>1, <1>2, SMTT(30)
    <3> QED BY <3>2, <3>3
  <2> QED BY <2>1, <2>2
<1>4. \A h \in 1 .. Len(a) : c[h].used \in {a[h].used, t} BY <1>2
<1> QED BY <1>1, <1>3, <1>4 DEF Kept

\* The same paths with other lists, some of them used: every handle is kept.
LEMMA SamePaths ==
  ASSUME NEW t \in Nat, NEW a, ItemsOK(a, t), NEW b \in Seq(Item(t)), Len(b) = Len(a),
         \A h \in 1 .. Len(a) : b[h].path = a[h].path /\ b[h].used \in {a[h].used, t}
  PROVE  ItemsOK(b, t) /\ Kept(a, b, t)
<1>1. Len(a) \in Nat BY ItemFields
<1> QED BY <1>1 DEF ItemsOK, Kept

\* One item is changed.
LEMMA SetItem ==
  ASSUME NEW t \in Nat, NEW a, ItemsOK(a, t), NEW h \in 1 .. Len(a), NEW x \in Item(t),
         x.path = a[h].path, x.used \in {a[h].used, t}
  PROVE  /\ ItemsOK([a EXCEPT ![h] = x], t) /\ Kept(a, [a EXCEPT ![h] = x], t)
         /\ Len([a EXCEPT ![h] = x]) = Len(a)
         /\ \A g \in 1 .. Len(a) : [a EXCEPT ![h] = x][g] = IF g = h THEN x ELSE a[g]
<1> DEFINE b == [a EXCEPT ![h] = x]
<1>1. a \in Seq(Item(t)) BY DEF ItemsOK
<1>2. b \in Seq(Item(t)) /\ Len(b) = Len(a)
      /\ \A g \in 1 .. Len(a) : b[g] = IF g = h THEN x ELSE a[g]
  BY <1>1, ExceptSeq
<1> HIDE DEF b
<1>3. \A g \in 1 .. Len(a) : b[g].path = a[g].path /\ b[g].used \in {a[g].used, t} BY <1>2
<1>4. ItemsOK(b, t) /\ Kept(a, b, t) BY <1>2, <1>3, SamePaths
<1> QED BY <1>2, <1>4 DEF b

\* What a part of a request returns: the handles b made from a, h one of them,
\* with the path p.
HandleOK(a, b, h, p, t) ==
  /\ ItemsOK(b, t) /\ Kept(a, b, t)
  /\ h \in 1 .. Len(b) /\ b[h].path = p

\* get_handle returns a handle of the path; if it takes one away, the oldest.
LEMMA GetHandleOK ==
  ASSUME NEW t \in Nat, NEW a, ItemsOK(a, t), NEW p \in Seq(STRING)
  PROVE  HandleOK(a, GetHandle(a, p, t).items, GetHandle(a, p, t).h, p, t)
<1> DEFINE n == Len(a)
           found == {h \in DOMAIN a : a[h].path = p}
           stop == IF found # {} THEN Least(found) ELSE n + 1
           old == {h \in DOMAIN a : h < stop /\ t - a[h].used > ListTtl}
           aged == [h \in DOMAIN a |-> IF h \in old THEN [a[h] EXCEPT !.list = <<>>] ELSE a[h]]
           oldest == Oldest(a)
           new == NewItem(p, t)
           g == GetHandle(a, p, t)
<1>1. /\ n \in Nat /\ DOMAIN a = 1 .. n /\ n <= MaxHandles
      /\ MaxHandles \in Nat /\ MaxHandles # 0
  BY ItemFields, NamesAssumption
<1>2. \A h \in 1 .. n : /\ a[h] \in Item(t) /\ a[h].path \in Seq(STRING)
                        /\ a[h].used \in Nat /\ a[h].used <= t /\ a[h].list \in Lists
  BY ItemFields
<1>e. <<>> \in Lists BY NamesAssumption DEF Lists
<1>3. /\ aged \in Seq(Item(t)) /\ Len(aged) = n
      /\ \A h \in 1 .. n : aged[h].path = a[h].path /\ aged[h].used = a[h].used
  <2>1. ASSUME NEW h \in 1 .. n
        PROVE  /\ aged[h] \in Item(t)
               /\ aged[h].path = a[h].path /\ aged[h].used = a[h].used
    <3> DEFINE x == [a[h] EXCEPT !.list = <<>>]
    <3>1. x \in Item(t) /\ x.path = a[h].path /\ x.used = a[h].used
      BY <1>2, <1>e DEF Item
    <3>2. aged[h] \in {x, a[h]} BY <1>1
    <3> HIDE DEF x, aged
    <3> QED BY <3>1, <3>2, <1>2
  <2>2. DOMAIN aged = 1 .. n /\ aged \in [1 .. n -> Item(t)]
    <3>1. DOMAIN aged = 1 .. n /\ aged = [h \in 1 .. n |-> aged[h]] BY <1>1
    <3> HIDE DEF aged
    <3> QED BY <2>1, <3>1
  <2> HIDE DEF aged
  <2>3. aged \in Seq(Item(t)) BY <2>2, <1>1
  <2>4. Len(aged) = n
    <3>1. Len(aged) \in Nat /\ DOMAIN aged = 1 .. Len(aged) BY <2>3, LenProperties
    <3> QED BY <2>2, <3>1, <1>1
  <2> QED BY <2>1, <2>3, <2>4
<1>4. new \in Item(t) /\ new.path = p /\ new.used = t BY <1>e DEF Item, NewItem
<1>5. g = IF found # {} THEN [items |-> [aged EXCEPT ![stop].used = t], h |-> stop]
          ELSE IF n < MaxHandles THEN [items |-> Append(aged, new), h |-> stop]
          ELSE [items |-> [aged EXCEPT ![oldest] = new], h |-> oldest]
  BY DEF GetHandle
<1>6. found # {} => stop \in found /\ stop \in 1 .. n
  <2>1. found \in SUBSET Nat BY <1>1
  <2>2. found # {} => Least(found) \in found
    <3> HIDE DEF found
    <3> QED BY <2>1, LeastOf
  <2> QED BY <2>2, <1>1
<1>7. ItemsOK(aged, t) /\ Kept(a, aged, t) BY <1>1, <1>3, SamePaths
<1>8. found = {} => \A h \in 1 .. n : aged[h].path # p BY <1>1, <1>3
<1>9. found # {} => a[stop].path = p BY <1>6
<1>10. found = {} => stop = n + 1 OBVIOUS
<1>11. n # 0 => /\ oldest \in 1 .. n /\ \A h \in 1 .. n : a[oldest].used <= a[h].used
  <2> DEFINE least == {h \in DOMAIN a : \A i \in DOMAIN a : a[h].used <= a[i].used}
  <2>1. least \in SUBSET Nat BY <1>1
  <2>2. n # 0 => least # {}
    <3> SUFFICES ASSUME n # 0 PROVE least # {} OBVIOUS
    <3> DEFINE U == {a[h].used : h \in 1 .. n}
    <3>1. U \in SUBSET Nat /\ U # {} BY <1>1, <1>2
    <3>2. PICK u \in U : \A v \in U : u <= v
      <4> HIDE DEF U
      <4> QED BY <3>1, NatMin
    <3>3. PICK h \in 1 .. n : u = a[h].used OBVIOUS
    <3>4. \A i \in 1 .. n : a[h].used <= a[i].used BY <3>2, <3>3
    <3> QED BY <3>4, <1>1
  <2>3. oldest = Least(least) BY DEF Oldest
  <2>4. n # 0 => Least(least) \in least
    <3> HIDE DEF least
    <3> QED BY <2>1, <2>2, LeastOf
  <2>5. n # 0 => oldest \in least BY <2>3, <2>4
  <2> QED BY <2>5, <1>1
<1> HIDE DEF aged, new, stop, oldest, found, old
<1>12. CASE found # {}
  <2> DEFINE x == [aged[stop] EXCEPT !.used = t]
  <2>1. stop \in 1 .. Len(aged) /\ aged[stop] \in Item(t) /\ aged[stop].path = p
    BY <1>3, <1>6, <1>9, <1>12, ElementOfSeq
  <2>2. x \in Item(t) /\ x.path = p /\ x.used = t BY <2>1 DEF Item
  <2>3. g.items = [aged EXCEPT ![stop] = x] /\ g.h = stop
    <3>1. g = [items |-> [aged EXCEPT ![stop].used = t], h |-> stop] BY <1>5, <1>12
    <3> HIDE DEF g
    <3> QED BY <3>1
  <2> HIDE DEF x, g
  <2> DEFINE b == [aged EXCEPT ![stop] = x]
  <2>4. /\ ItemsOK(b, t) /\ Kept(aged, b, t) /\ Len(b) = Len(aged)
        /\ b[stop] = x
    BY <2>1, <2>2, <1>7, SetItem
  <2> HIDE DEF b
  <2>5. Kept(a, b, t) BY <2>4, <1>7, KeptTrans
  <2>6. HandleOK(a, b, stop, p, t) BY <2>1, <2>2, <2>4, <2>5 DEF HandleOK
  <2> QED BY <2>3, <2>6 DEF b, g
<1>13. CASE found = {} /\ n < MaxHandles
  <2> DEFINE b == Append(aged, new)
  <2>1. g.items = b /\ g.h = n + 1
    <3>1. g = [items |-> Append(aged, new), h |-> stop] BY <1>5, <1>13
    <3> HIDE DEF g
    <3> QED BY <3>1, <1>10, <1>13
  <2>2. /\ b \in Seq(Item(t)) /\ Len(b) = n + 1 /\ b[n + 1] = new
        /\ \A h \in 1 .. n : b[h] = aged[h]
    BY <1>3, <1>4, AppendProperties
  <2> HIDE DEF b, g
  <2>3. ItemsOK(b, t)
    <3>1. ASSUME NEW h \in 1 .. n + 1, NEW i \in 1 .. n + 1, b[h].path = b[i].path PROVE h = i
      <4>1. CASE h <= n /\ i <= n
        <5>1. h \in 1 .. n /\ i \in 1 .. n BY <4>1, <1>1
        <5>2. aged[h].path = aged[i].path BY <5>1, <2>2, <3>1
        <5> QED BY <5>1, <5>2, <1>3, <1>7 DEF ItemsOK
      <4>2. CASE h = n + 1 /\ i = n + 1 BY <4>2
      <4>3. CASE h <= n /\ i = n + 1
        <5>1. h \in 1 .. n BY <4>3, <1>1
        <5> QED BY <5>1, <4>3, <3>1, <2>2, <1>4, <1>8, <1>13
      <4>4. CASE i <= n /\ h = n + 1
        <5>1. i \in 1 .. n BY <4>4, <1>1
        <5> QED BY <5>1, <4>4, <3>1, <2>2, <1>4, <1>8, <1>13
      <4> QED BY <4>1, <4>2, <4>3, <4>4, <1>1
    <3>2. n + 1 <= MaxHandles BY <1>1, <1>13
    <3> QED BY <2>2, <3>1, <3>2 DEF ItemsOK
  <2>4. Kept(a, b, t) BY <1>1, <1>3, <2>2, SMTT(30) DEF Kept
  <2>5. HandleOK(a, b, n + 1, p, t) BY <1>1, <1>4, <2>2, <2>3, <2>4 DEF HandleOK
  <2> QED BY <2>1, <2>5 DEF g
<1>14. CASE found = {} /\ n >= MaxHandles
  <2> DEFINE b == [aged EXCEPT ![oldest] = new]
  <2>1. n = MaxHandles /\ n # 0
    <3>1. \A i, j \in Nat : i <= j /\ i >= j => i = j OBVIOUS
    <3> HIDE DEF n
    <3> QED BY <3>1, <1>1, <1>14
  <2>2. g.items = b /\ g.h = oldest
    <3>1. g = [items |-> [aged EXCEPT ![oldest] = new], h |-> oldest] BY <1>1, <1>5, <1>14
    <3> HIDE DEF g
    <3> QED BY <3>1
  <2>3. oldest \in 1 .. n /\ \A h \in 1 .. n : a[oldest].used <= a[h].used BY <1>11, <2>1
  <2>4. /\ b \in Seq(Item(t)) /\ Len(b) = n
        /\ \A h \in 1 .. n : b[h] = IF h = oldest THEN new ELSE aged[h]
    BY <1>3, <1>4, <2>3, ExceptSeq
  <2> HIDE DEF b, g
  <2>5. ItemsOK(b, t)
    <3>1. ASSUME NEW h \in 1 .. n, NEW i \in 1 .. n, b[h].path = b[i].path PROVE h = i
      <4>1. CASE h # oldest /\ i # oldest
        <5>1. aged[h].path = aged[i].path BY <4>1, <2>4, <3>1
        <5> QED BY <5>1, <1>3, <1>7 DEF ItemsOK
      <4>2. CASE h = oldest \/ i = oldest BY <4>2, <2>4, <3>1, <1>4, <1>8, <1>14
      <4> QED BY <4>1, <4>2
    <3> QED BY <1>1, <2>4, <3>1 DEF ItemsOK
  <2>6. Kept(a, b, t)
    <3>1. ASSUME NEW h \in 1 .. n
          PROVE  /\ b[h].used \in {a[h].used, t}
                 /\ b[h].path # a[h].path => \A i \in 1 .. n : a[h].used <= a[i].used
      BY <1>3, <1>4, <2>3, <2>4
    <3> QED BY <1>1, <2>1, <2>4, <3>1 DEF Kept
  <2>7. HandleOK(a, b, oldest, p, t) BY <1>4, <2>3, <2>4, <2>5, <2>6 DEF HandleOK
  <2> QED BY <2>2, <2>7 DEF g
<1> QED BY <1>12, <1>13, <1>14, <1>1

\* A new list changes one item.
LEMMA RescanOK ==
  ASSUME NEW t \in Nat, NEW a, ItemsOK(a, t), NEW h \in 1 .. Len(a), NEW dk
  PROVE  HandleOK(a, Rescan(dk, a, h, t), h, a[h].path, t)
<1> DEFINE l == DirectoryList(dk, a[h].path)
           u == IF IsDir(dk, a[h].path) THEN t ELSE a[h].used
           x == [a[h] EXCEPT !.list = l, !.used = u]
           b == [a EXCEPT ![h] = x]
<1>1. a[h] \in Item(t) /\ a[h].used \in 0 .. t /\ DOMAIN a = 1 .. Len(a) BY ItemFields
<1>2. l \in Lists BY ListType
<1>3. u \in 0 .. t /\ u \in {a[h].used, t} BY <1>1
<1>4. Rescan(dk, a, h, t) = b
  <2> HIDE DEF l
  <2> QED BY <1>1 DEF Rescan, Item, l
<1> HIDE DEF l, u
<1>5. x \in Item(t) /\ x.path = a[h].path /\ x.used = u BY <1>1, <1>2, <1>3 DEF Item
<1> HIDE DEF x
<1>6. ItemsOK(b, t) /\ Kept(a, b, t) /\ Len(b) = Len(a) /\ b[h] = x BY <1>3, <1>5, SetItem
<1> HIDE DEF b
<1> QED BY <1>4, <1>5, <1>6 DEF HandleOK

\* So does the look for a list.
LEMMA ListedOK ==
  ASSUME NEW t \in Nat, NEW a, ItemsOK(a, t), NEW h \in 1 .. Len(a), NEW dk, NEW rescan
  PROVE  HandleOK(a, Listed(dk, a, h, rescan, t), h, a[h].path, t)
BY RescanOK, KeptSelf DEF Listed, HandleOK

\* An entry is taken off a list.
LEMMA RemoveAtOK ==
  ASSUME NEW l \in Lists, NEW i \in 1 .. Len(l)
  PROVE  RemoveAt(l, i) \in Lists
<1> DEFINE x == SubSeq(l, 1, i - 1)
           y == SubSeq(l, i + 1, Len(l))
<1>1. l \in Seq(Entry) /\ Len(l) \in Nat /\ Len(l) <= MaxEntries /\ MaxEntries \in Nat
  BY NamesAssumption, LenProperties DEF Lists
<1>2. \A j \in 1 .. Len(l) : l[j] \in Entry BY <1>1, ElementOfSeq
<1>3. x \in Seq(Entry) /\ Len(x) = i - 1
  <2>1. \A j \in 1 .. i - 1 : l[j] \in Entry BY <1>1, <1>2
  <2> QED BY <2>1, <1>1, SubSeqProperties
<1>4. y \in Seq(Entry) /\ Len(y) = Len(l) - i
  <2>1. \A j \in i + 1 .. Len(l) : l[j] \in Entry BY <1>1, <1>2
  <2> QED BY <2>1, <1>1, SubSeqProperties
<1> HIDE DEF x, y
<1>5. x \o y \in Seq(Entry) /\ Len(x \o y) <= MaxEntries
  <2>1. x \o y \in Seq(Entry) /\ Len(x \o y) = Len(x) + Len(y)
    BY <1>3, <1>4, ConcatProperties, Zenon
  <2>2. (i - 1) + (Len(l) - i) <= MaxEntries BY <1>1
  <2> QED BY <2>1, <2>2, <1>3, <1>4
<1>6. RemoveAt(l, i) = x \o y BY Zenon DEF RemoveAt, x, y
<1> QED BY <1>5, <1>6, Zenon DEF Lists

\* The host name found is that of something on the disk.
LEMMA ServerNameOK ==
  ASSUME NEW t \in Nat, NEW a, ItemsOK(a, t), NEW h \in 1 .. Len(a), NEW dk, NEW short
  PROVE  LET s == ServerName(dk, a, h, short)
         IN  /\ HandleOK(a, s.items, h, a[h].path, t)
             /\ s.name = NoName \/ Append(a[h].path, s.name) \in DOMAIN dk
<1> DEFINE s == ServerName(dk, a, h, short)
           list == a[h].list
           i == PlaceOf(list, short)
           b == [a EXCEPT ![h].list = RemoveAt(list, i)]
<1>1. a[h] \in Item(t) /\ list \in Lists /\ DOMAIN a = 1 .. Len(a) BY ItemFields
<1>2. Len(list) \in Nat /\ DOMAIN list = 1 .. Len(list) BY <1>1, LenProperties DEF Lists
<1>3. i \in 1 .. Len(list) + 1
  <2> DEFINE T == {j \in DOMAIN list : list[j].kind # "vol" /\ list[j].short = short}
                    \cup {Len(list) + 1}
  <2>1. T \in SUBSET Nat /\ T # {} /\ T \subseteq 1 .. Len(list) + 1 BY <1>2
  <2>2. i = Least(T) BY DEF PlaceOf
  <2> HIDE DEF T, i
  <2> QED BY <2>1, <2>2, LeastOf
<1>4. HandleOK(a, a, h, a[h].path, t) BY KeptSelf DEF HandleOK
<1>5. CASE i > Len(list)
  <2>1. s = [items |-> a, name |-> NoName] BY <1>5 DEF ServerName
  <2> HIDE DEF s
  <2> QED BY <2>1, <1>4 DEF s
<1>6. CASE ~(i > Len(list)) /\ Append(a[h].path, list[i].name) \in DOMAIN dk
  <2>1. s = [items |-> a, name |-> list[i].name] BY <1>6 DEF ServerName
  <2> HIDE DEF s
  <2>2. s.items = a /\ Append(a[h].path, s.name) \in DOMAIN dk BY <2>1, <1>6
  <2> QED BY <2>2, <1>4 DEF s
<1>7. CASE ~(i > Len(list)) /\ ~(Append(a[h].path, list[i].name) \in DOMAIN dk)
  <2>1. s = [items |-> [a EXCEPT ![h].list = RemoveAt(@, i)], name |-> NoName]
    BY <1>7 DEF ServerName
  <2> DEFINE x == [a[h] EXCEPT !.list = RemoveAt(list, i)]
             c == [a EXCEPT ![h] = x]
  <2>2. [a EXCEPT ![h].list = RemoveAt(@, i)] = c BY <1>1
  <2>3. i \in 1 .. Len(list)
    <3> HIDE DEF i, list
    <3> QED BY <1>2, <1>3, <1>7
  <2>4. RemoveAt(list, i) \in Lists
    <3> HIDE DEF i, list
    <3> QED BY <1>1, <2>3, RemoveAtOK
  <2>5. x \in Item(t) /\ x.path = a[h].path /\ x.used = a[h].used
    <3> HIDE DEF i, list
    <3> QED BY <1>1, <2>4 DEF Item
  <2> HIDE DEF x
  <2>6. ItemsOK(c, t) /\ Kept(a, c, t) /\ Len(c) = Len(a) /\ c[h] = x BY <2>5, SetItem
  <2>7. HandleOK(a, c, h, a[h].path, t)
    <3> HIDE DEF c
    <3> QED BY <2>5, <2>6 DEF HandleOK
  <2>8. s.items = c /\ s.name = NoName
    <3> HIDE DEF s, c
    <3> QED BY <2>1, <2>2
  <2> HIDE DEF c, s
  <2> QED BY <2>7, <2>8 DEF s
<1> QED BY <1>5, <1>6, <1>7

-----------------------------------------------------------------------------
(* create_server_path *)

\* The disk is a tree of strings.
LEMMA TreePaths ==
  ASSUME NEW dk, Tree(dk), NEW p \in DOMAIN dk
  PROVE  p \in Seq(STRING) /\ p # Root
BY DEF Tree

\* The name a path ends with is a name.
LEMMA AppendedName ==
  ASSUME NEW p \in Seq(STRING), NEW x, Append(p, x) \in Seq(STRING)
  PROVE  x \in STRING
<1>1. Len(p) \in Nat BY LenProperties
<1>2. Len(Append(p, x)) = Len(p) + 1 /\ Append(p, x)[Len(p) + 1] = x OBVIOUS
<1>3. Len(p) + 1 \in 1 .. Len(Append(p, x)) BY <1>1, <1>2
<1> QED BY <1>2, <1>3, ElementOfSeq

\* get_server_name finds the name of something in the directory of its handle.
LEMMA GetServerNameOK ==
  ASSUME NEW t \in Nat, NEW a, ItemsOK(a, t), NEW h \in 1 .. Len(a), NEW dk, Tree(dk),
         NEW short, NEW rescan
  PROVE  LET s == GetServerName(dk, a, h, short, rescan, t)
         IN  /\ ItemsOK(s.items, t) /\ Kept(a, s.items, t)
             /\ s.name = NoName \/ s.name \in STRING
<1> DEFINE b == Listed(dk, a, h, rescan, t)
           s == ServerName(dk, b, h, short)
<1>1. HandleOK(a, b, h, a[h].path, t) BY ListedOK
<1> HIDE DEF b
<1>2. ItemsOK(b, t) /\ Kept(a, b, t) /\ h \in 1 .. Len(b) /\ b[h].path = a[h].path
  BY <1>1 DEF HandleOK
<1>3. /\ HandleOK(b, s.items, h, b[h].path, t)
      /\ s.name = NoName \/ Append(b[h].path, s.name) \in DOMAIN dk
  BY <1>2, ServerNameOK
<1> HIDE DEF s
<1>4. ItemsOK(s.items, t) /\ Kept(b, s.items, t) BY <1>3 DEF HandleOK
<1>5. Kept(a, s.items, t) BY <1>2, <1>4, KeptTrans
<1>6. s.name = NoName \/ s.name \in STRING
  <2>1. a[h].path \in Seq(STRING) BY ItemFields
  <2> QED BY <1>2, <1>3, <2>1, TreePaths, AppendedName
<1>7. GetServerName(dk, a, h, short, rescan, t) = s BY DEF GetServerName, s, b
<1> QED BY <1>4, <1>5, <1>6, <1>7

\* What create_server_path has after k parts of a path.
PathOK(a, r, k, t) ==
  /\ ItemsOK(r.items, t) /\ Kept(a, r.items, t)
  /\ r.path \in Seq(STRING) /\ (r.ok => Len(r.path) = k)

\* The result is a record with flags.
Parts == {"items", "path", "exist", "ok"}
Flagged(r) == r = [x \in Parts |-> r[x]] /\ r.exist \in BOOLEAN /\ r.ok \in BOOLEAN

\* One part more.
LEMMA DescendOK ==
  ASSUME NEW t \in Nat, NEW a, ItemsOK(a, t), NEW dk, Tree(dk), NEW k \in Nat,
         NEW r, PathOK(a, r, k, t), Flagged(r),
         NEW short \in Shorts \cup {All}, NEW rescan
  PROVE  LET d == Descend(dk, r, GetHandle(r.items, r.path, t), short, rescan, t)
         IN  PathOK(a, d, k + 1, t) /\ Flagged(d)
<1> DEFINE g == GetHandle(r.items, r.path, t)
           s == GetServerName(dk, g.items, g.h, short, rescan, t)
           d == Descend(dk, r, g, short, rescan, t)
<1>1. ItemsOK(r.items, t) /\ Kept(a, r.items, t) /\ r.path \in Seq(STRING) BY DEF PathOK
<1>2. CASE ~r.ok \/ ~r.exist
  <2>1. d = [r EXCEPT !.ok = FALSE] BY <1>2 DEF Descend
  <2>2. DOMAIN r = Parts
    <3> DEFINE e == [x \in Parts |-> r[x]]
    <3>1. DOMAIN e = Parts OBVIOUS
    <3>2. r = e BY DEF Flagged
    <3> HIDE DEF e
    <3> QED BY <3>1, <3>2
  <2> HIDE DEF d
  <2>3. d.items = r.items /\ d.path = r.path /\ d.ok = FALSE /\ DOMAIN d = Parts
    BY <2>1, <2>2 DEF Parts
  <2>4. Flagged(d)
    <3>1. d = [x \in Parts |-> d[x]] BY <2>1, <2>2
    <3>2. d.exist = r.exist BY <2>1, <2>2 DEF Parts
    <3> QED BY <3>1, <3>2, <2>3, Zenon DEF Flagged
  <2> QED BY <2>3, <2>4, <1>1 DEF PathOK, d
<1>3. CASE r.ok /\ r.exist
  <2>1. HandleOK(r.items, g.items, g.h, r.path, t) BY <1>1, GetHandleOK
  <2>2. d = NextPart(r, s, short) BY <1>3 DEF Descend
  <2> HIDE DEF g
  <2>3. ItemsOK(g.items, t) /\ Kept(r.items, g.items, t) /\ g.h \in 1 .. Len(g.items)
    BY <2>1 DEF HandleOK
  <2>4. /\ ItemsOK(s.items, t) /\ Kept(g.items, s.items, t)
        /\ s.name = NoName \/ s.name \in STRING
    BY <2>3, GetServerNameOK
  <2> HIDE DEF s
  <2>5. Kept(a, s.items, t)
    <3>1. Kept(a, g.items, t) BY <1>1, <2>3, KeptTrans
    <3> QED BY <2>3, <2>4, <3>1, KeptTrans
  <2> DEFINE nm == IF s.name # NoName THEN s.name ELSE HostName[short]
  <2>6. nm \in STRING BY <2>4, NamesAssumption DEF All
  <2>7. Append(r.path, nm) \in Seq(STRING) /\ Len(Append(r.path, nm)) = k + 1
    <3>1. Len(r.path) = k BY <1>3 DEF PathOK
    <3> HIDE DEF nm
    <3> QED BY <1>1, <2>6, <3>1, AppendProperties
  <2>8. d = [items |-> s.items, path |-> Append(r.path, nm), exist |-> s.name # NoName, ok |-> TRUE]
    BY <2>2 DEF NextPart
  <2> HIDE DEF d, nm
  <2>9. d.items = s.items /\ d.path = Append(r.path, nm) /\ Flagged(d)
    <3>1. d.items = s.items BY <2>8
    <3>2. d.path = Append(r.path, nm) BY <2>8
    <3>3. d = [x \in Parts |-> d[x]] BY <2>8 DEF Parts
    <3>4. d.exist = (s.name # NoName) /\ d.ok = TRUE BY <2>8, Zenon
    <3> QED BY <3>1, <3>2, <3>3, <3>4, Zenon DEF Flagged
  <2> QED BY <2>4, <2>5, <2>7, <2>9 DEF PathOK, d, g
<1> QED BY <1>2, <1>3

\* What create_server_path goes through, part by part.
LookupChain(dk, a, cp, rescan, t, u) ==
  /\ u[0] = [items |-> a, path |-> Root, exist |-> TRUE, ok |-> TRUE]
  /\ \A k \in 1 .. Len(cp) :
       u[k] = Descend(dk, u[k - 1], GetHandle(u[k - 1].items, u[k - 1].path, t),
                      cp[k], rescan, t)
  /\ \A k \in Nat : k <= Len(cp) => PathOK(a, u[k], k, t) /\ Flagged(u[k])

\* Its result is the last of these.
LEMMA LookupMade ==
  ASSUME NEW t \in Nat, NEW a, ItemsOK(a, t), NEW dk, Tree(dk),
         NEW cp \in Seq(Shorts \cup {All}), NEW rescan
  PROVE  \E u : /\ LookupChain(dk, a, cp, rescan, t, u)
               /\ CreateServerPath(dk, a, cp, rescan, t) = u[Len(cp)]
<1> DEFINE n == Len(cp)
           start == [items |-> a, path |-> Root, exist |-> TRUE, ok |-> TRUE]
           Step(k, r) == Descend(dk, r, GetHandle(r.items, r.path, t), cp[k], rescan, t)
           Makes(u) == u = [k \in 0 .. n |-> IF k = 0 THEN start ELSE Step(k, u[k - 1])]
           upto == CHOOSE u : Makes(u)
           T == {r \in [items : Seq(Item(t)), path : Seq(STRING),
                        exist : BOOLEAN, ok : BOOLEAN] :
                   ItemsOK(r.items, t) /\ Kept(a, r.items, t)}
<1>1. n \in Nat /\ \A k \in 1 .. n : cp[k] \in Shorts \cup {All} BY LenProperties, ElementOfSeq
<1>2. PathOK(a, start, 0, t) /\ Flagged(start)
  <2>1. start.items = a /\ start.path = Root OBVIOUS
  <2>2. start = [x \in Parts |-> start[x]] BY DEF Parts
  <2>3. start.exist = TRUE /\ start.ok = TRUE OBVIOUS
  <2>4. Kept(a, a, t) BY KeptSelf
  <2>5. Root \in Seq(STRING) /\ Len(Root) = 0 BY DEF Root
  <2> HIDE DEF start
  <2> QED BY <2>1, <2>2, <2>3, <2>4, <2>5 DEF PathOK, Flagged
<1>3. ASSUME NEW k \in 1 .. n, NEW j \in Nat, NEW r, PathOK(a, r, j, t), Flagged(r)
      PROVE  PathOK(a, Step(k, r), j + 1, t) /\ Flagged(Step(k, r))
  BY <1>1, <1>3, DescendOK
<1>4. ASSUME NEW r \in T PROVE PathOK(a, r, Len(r.path), t) /\ Flagged(r) /\ Len(r.path) \in Nat
  <2>1. /\ r.path \in Seq(STRING) /\ r.exist \in BOOLEAN /\ r.ok \in BOOLEAN
        /\ ItemsOK(r.items, t) /\ Kept(a, r.items, t)
    OBVIOUS
  <2>2. r = [x \in Parts |-> r[x]] BY DEF Parts
  <2> QED BY <2>1, <2>2, LenProperties DEF PathOK, Flagged
<1>5. ASSUME NEW r, NEW j, PathOK(a, r, j, t), Flagged(r) PROVE r \in T
  <2> DEFINE R == [items : Seq(Item(t)), path : Seq(STRING), exist : BOOLEAN, ok : BOOLEAN]
  <2>1. r.items \in Seq(Item(t)) /\ r.path \in Seq(STRING) BY <1>5 DEF PathOK, ItemsOK
  <2>2. r.exist \in BOOLEAN /\ r.ok \in BOOLEAN /\ r = [x \in Parts |-> r[x]]
    BY <1>5 DEF Flagged
  <2>3. r \in R
    <3> DEFINE e == [items |-> r.items, path |-> r.path, exist |-> r.exist, ok |-> r.ok]
    <3>1. e = [x \in Parts |-> r[x]] BY DEF Parts
    <3>2. e \in R BY <2>1, <2>2
    <3> HIDE DEF e
    <3> QED BY <2>2, <3>1, <3>2
  <2> QED BY <2>3, <1>5 DEF PathOK
<1>6. CreateServerPath(dk, a, cp, rescan, t) = upto[n] BY DEF CreateServerPath
<1> HIDE DEF Step, T, start
<1>7. \E u : Makes(u)
  <2> DEFINE F == [k \in 1 .. n |-> [r \in T |-> Step(k, r)]]
  <2>1. F \in [1 .. n -> [T -> T]]
    <3>1. ASSUME NEW k \in 1 .. n, NEW r \in T PROVE Step(k, r) \in T
      BY <1>3, <1>4, <1>5
    <3> QED BY <3>1
  <2>2. \A k \in 1 .. n, r \in T : F[k][r] = Step(k, r) OBVIOUS
  <2>3. start \in T BY <1>2, <1>5
  <2> HIDE DEF F
  <2>4. PICK f \in [0 .. n -> T] : f[0] = start /\ \A k \in 1 .. n : f[k] = F[k][f[k - 1]]
    <3>1. Chained(T, start, n, F) BY <1>1, <2>1, <2>3, Iterate
    <3> QED BY <3>1, Zenon DEF Chained
  <2> DEFINE g == [k \in 0 .. n |-> IF k = 0 THEN start ELSE Step(k, f[k - 1])]
  <2>5. \A k \in 0 .. n : f[k] = g[k]
    <3>1. \A k \in 1 .. n : f[k - 1] \in T BY <1>1
    <3> QED BY <1>1, <2>2, <2>4, <3>1
  <2>6. DOMAIN g = 0 .. n /\ g = [k \in DOMAIN g |-> g[k]] OBVIOUS
  <2>7. DOMAIN f = 0 .. n /\ f = [k \in DOMAIN f |-> f[k]] OBVIOUS
  <2>8. f = g
    <3> HIDE DEF g
    <3> QED BY <2>5, <2>6, <2>7
  <2>9. Makes(f) BY <2>8
  <2> QED BY <2>9
<1>8. Makes(upto)
  <2> HIDE DEF Makes
  <2> QED BY <1>7
<1> HIDE DEF upto
<1>9. upto[0] = start /\ \A k \in 1 .. n : upto[k] = Step(k, upto[k - 1])
  <2> DEFINE g == [k \in 0 .. n |-> IF k = 0 THEN start ELSE Step(k, upto[k - 1])]
  <2>1. upto = g BY <1>8
  <2>2. g[0] = start /\ \A k \in 1 .. n : g[k] = Step(k, upto[k - 1]) BY <1>1
  <2> HIDE DEF g
  <2> QED BY <2>1, <2>2
<1>10. \A k \in Nat : k <= n => PathOK(a, upto[k], k, t) /\ Flagged(upto[k])
  <2> DEFINE S == {k \in Nat : k <= n => PathOK(a, upto[k], k, t) /\ Flagged(upto[k])}
  <2>1. 0 \in S BY <1>2, <1>9
  <2>2. ASSUME NEW k \in Nat, k \in S PROVE k + 1 \in S
    <3> SUFFICES ASSUME k + 1 <= n PROVE PathOK(a, upto[k + 1], k + 1, t) /\ Flagged(upto[k + 1])
      OBVIOUS
    <3>1. k + 1 \in 1 .. n /\ k <= n /\ (k + 1) - 1 = k BY <1>1
    <3>2. PathOK(a, upto[k], k, t) /\ Flagged(upto[k]) BY <2>2, <3>1
    <3>3. upto[k + 1] = Step(k + 1, upto[k]) BY <3>1, <1>9
    <3> QED BY <3>1, <3>2, <3>3, <1>3
  <2> HIDE DEF S
  <2>3. \A k \in Nat : k \in S BY <2>1, <2>2, SetInduction
  <2> QED BY <2>3 DEF S
<1>11. LookupChain(dk, a, cp, rescan, t, upto)
  BY <1>9, <1>10 DEF LookupChain, Step, start
<1> QED BY <1>6, <1>11

\* A lookup leaves the handles in order and keeps them; a path that is looked
\* up without an exception is as long as the client's.
LEMMA LookupOK ==
  ASSUME NEW t \in Nat, NEW a, ItemsOK(a, t), NEW dk, Tree(dk),
         NEW cp \in Seq(Shorts \cup {All}), NEW rescan
  PROVE  PathOK(a, CreateServerPath(dk, a, cp, rescan, t), Len(cp), t)
<1>1. PICK u : /\ LookupChain(dk, a, cp, rescan, t, u)
               /\ CreateServerPath(dk, a, cp, rescan, t) = u[Len(cp)]
  BY LookupMade
<1>2. Len(cp) \in Nat /\ Len(cp) <= Len(cp) BY LenProperties
<1> QED BY <1>1, <1>2 DEF LookupChain

-----------------------------------------------------------------------------
(* The disk is a tree *)

Attributes == [dir : BOOLEAN, ro : BOOLEAN]

\* The directory something is in.
LEMMA FrontOf ==
  ASSUME NEW p \in Seq(STRING), p # Root
  PROVE  /\ Len(p) \in Nat /\ Len(p) >= 1 /\ DOMAIN p = 1 .. Len(p)
         /\ Front(p) \in Seq(STRING) /\ Len(Front(p)) = Len(p) - 1 /\ Front(p) # p
         /\ \A i \in 1 .. Len(p) - 1 : Front(p)[i] = p[i]
<1>1. Len(p) \in Nat /\ DOMAIN p = 1 .. Len(p) BY LenProperties
<1>2. Len(p) # 0 BY EmptySeq DEF Root
<1>3. \A i \in 1 .. Len(p) - 1 : p[i] \in STRING
  <2>1. \A i \in 1 .. Len(p) : p[i] \in STRING BY ElementOfSeq
  <2> QED BY <1>1, <2>1
<1>4. /\ SubSeq(p, 1, Len(p) - 1) \in Seq(STRING)
      /\ Len(SubSeq(p, 1, Len(p) - 1)) = Len(p) - 1
      /\ \A i \in 1 .. Len(p) - 1 : SubSeq(p, 1, Len(p) - 1)[i] = p[i]
  <2> DEFINE m == Len(p) - 1
  <2>1. m \in Int /\ m - 1 + 1 = m /\ m >= 0 BY <1>1, <1>2
  <2>2. /\ SubSeq(p, 1, m) \in Seq(STRING)
        /\ Len(SubSeq(p, 1, m)) = IF 1 <= m THEN m - 1 + 1 ELSE 0
        /\ \A i \in 1 .. m - 1 + 1 : SubSeq(p, 1, m)[i] = p[1 + i - 1]
    <3> HIDE DEF m
    <3>1. \A i \in 1 .. m : p[i] \in STRING BY <1>3 DEF m
    <3> QED BY <2>1, <3>1, SubSeqProperties
  <2>3. Len(SubSeq(p, 1, m)) = m BY <2>1, <2>2
  <2>4. \A i \in 1 .. m : SubSeq(p, 1, m)[i] = p[i]
    <3> TAKE i \in 1 .. m
    <3>1. 1 + i - 1 = i /\ i \in 1 .. m - 1 + 1 BY <2>1
    <3> HIDE DEF m
    <3> QED BY <3>1, <2>2
  <2> QED BY <2>2, <2>3, <2>4
<1>5. Front(p) # p
  <2>1. Len(Front(p)) = Len(p) - 1 BY <1>4 DEF Front
  <2>2. \A k \in Nat : k - 1 # k OBVIOUS
  <2> QED BY <2>1, <2>2, <1>1, Zenon
<1>6. Len(p) >= 1
  <2>1. \A k \in Nat : k # 0 => k >= 1 OBVIOUS
  <2> QED BY <2>1, <1>1, <1>2, Zenon
<1> QED BY <1>1, <1>4, <1>5, <1>6, Zenon DEF Front

\* What is on the disk has attributes and a directory.
LEMMA TreeOf ==
  ASSUME NEW dk, Tree(dk), NEW p \in DOMAIN dk
  PROVE  /\ dk[p] \in Attributes /\ p \in Seq(STRING) /\ p # Root
         /\ Front(p) = Root \/ (Front(p) \in DOMAIN dk /\ dk[Front(p)].dir)
BY DEF Tree, Attributes, IsDir

\* Nothing is in a file.
LEMMA NothingInFile ==
  ASSUME NEW dk, Tree(dk), NEW p \in DOMAIN dk, ~dk[p].dir
  PROVE  Children(dk, p) = {}
BY TreeOf DEF Children

\* A function is a tree when its parts are in place.
LEMMA IsTree ==
  ASSUME NEW D, NEW dk \in [D -> Attributes],
         \A p \in D : p \in Seq(STRING) /\ p # Root,
         \A p \in D : Front(p) # Root => Front(p) \in D /\ dk[Front(p)].dir
  PROVE  Tree(dk)
<1>1. DOMAIN dk = D OBVIOUS
<1> QED BY <1>1 DEF Tree, IsDir, Attributes

\* A file or directory is put into a directory.
LEMMA PutTree ==
  ASSUME NEW dk, Tree(dk), NEW p \in Seq(STRING), p # Root, IsDir(dk, Front(p)),
         NEW attrs \in Attributes, p \in DOMAIN dk => attrs.dir \/ ~dk[p].dir
  PROVE  Tree(Put(dk, p, attrs))
<1> DEFINE D == DOMAIN dk \cup {p}
           e == [q \in D |-> IF q = p THEN attrs ELSE dk[q]]
<1>1. e \in [D -> Attributes] BY TreeOf
<1>2. \A q \in D : q \in Seq(STRING) /\ q # Root BY TreeOf
<1>3. ASSUME NEW q \in D, Front(q) # Root PROVE Front(q) \in D /\ e[Front(q)].dir
  <2>1. Front(q) \in DOMAIN dk /\ dk[Front(q)].dir
    <3>1. CASE q = p BY <3>1, <1>3 DEF IsDir
    <3>2. CASE q # p BY <3>2, <1>3, TreeOf
    <3> QED BY <3>1, <3>2
  <2>2. CASE Front(q) = p BY <2>1, <2>2
  <2>3. CASE Front(q) # p BY <2>1, <2>3
  <2> QED BY <2>2, <2>3
<1>4. Put(dk, p, attrs) = e BY DEF Put
<1> HIDE DEF e, D
<1> QED BY <1>1, <1>2, <1>3, <1>4, IsTree

\* What has nothing in it is taken off.
LEMMA WithoutTree ==
  ASSUME NEW dk, Tree(dk), NEW P, \A p \in P : Children(dk, p) = {}
  PROVE  Tree(Without(dk, P))
<1> DEFINE D == DOMAIN dk \ P
           e == [q \in D |-> dk[q]]
<1>1. e \in [D -> Attributes] BY TreeOf
<1>2. \A q \in D : q \in Seq(STRING) /\ q # Root BY TreeOf
<1>3. ASSUME NEW q \in D, Front(q) # Root PROVE Front(q) \in D /\ e[Front(q)].dir
  <2>1. Front(q) \in DOMAIN dk /\ dk[Front(q)].dir BY <1>3, TreeOf
  <2>2. Front(q) \notin P
    <3>1. q \in Children(dk, Front(q)) BY <1>2 DEF Children
    <3> QED BY <3>1
  <2> QED BY <2>1, <2>2
<1>4. Without(dk, P) = e BY DEF Without
<1> HIDE DEF e, D
<1> QED BY <1>1, <1>2, <1>3, <1>4, IsTree

\* The read-only attribute is set or cleared.
LEMMA AttrTree ==
  ASSUME NEW dk, Tree(dk), NEW p \in DOMAIN dk, NEW ro \in BOOLEAN
  PROVE  Tree([dk EXCEPT ![p].ro = ro])
<1> DEFINE x == [dk[p] EXCEPT !.ro = ro]
           e == [dk EXCEPT ![p].ro = ro]
<1>1. dk[p] \in Attributes BY TreeOf
<1>2. x \in Attributes /\ x.dir = dk[p].dir BY <1>1 DEF Attributes
<1>3. dk \in [DOMAIN dk -> Attributes] BY DEF Tree, Attributes
<1>4. e = [dk EXCEPT ![p] = x] BY <1>3
<1> HIDE DEF x
<1>5. e \in [DOMAIN dk -> Attributes] /\ \A q \in DOMAIN dk : e[q].dir = dk[q].dir
  BY <1>2, <1>3, <1>4
<1> HIDE DEF e
<1>6. \A q \in DOMAIN dk : Front(q) # Root => Front(q) \in DOMAIN dk /\ e[Front(q)].dir
  BY <1>5, TreeOf
<1>7. Tree(e) BY <1>5, <1>6, TreeOf, IsTree
<1> QED BY <1>7 DEF e

\* Below, name by name.
LEMMA BelowIs ==
  ASSUME NEW r \in Seq(STRING), NEW p \in Seq(STRING)
  PROVE  Below(r, p) <=> Len(p) <= Len(r) /\ \A i \in 1 .. Len(p) : r[i] = p[i]
<1> DEFINE n == Len(p)
           x == SubSeq(p, 1, n)
           y == SubSeq(r, 1, n)
<1>1. n \in Nat /\ Len(r) \in Nat BY LenProperties
<1>2. \A i \in 1 .. n : p[i] \in STRING BY ElementOfSeq
<1>3. \A i \in 1 .. Len(r) : r[i] \in STRING BY ElementOfSeq
<1>4. x = p BY SubSeqFull
<1>5. Below(r, p) <=> n <= Len(r) /\ p = y BY <1>4 DEF Below, IsPrefix
<1>6. n <= Len(r) => /\ y \in Seq(STRING) /\ Len(y) = n /\ \A i \in 1 .. n : y[i] = r[i]
  <2> SUFFICES ASSUME n <= Len(r)
               PROVE  y \in Seq(STRING) /\ Len(y) = n /\ \A i \in 1 .. n : y[i] = r[i]
    OBVIOUS
  <2>1. \A i \in 1 .. n : r[i] \in STRING BY <1>1, <1>3
  <2>2. /\ y \in Seq(STRING) /\ Len(y) = IF 1 <= n THEN n - 1 + 1 ELSE 0
        /\ \A i \in 1 .. n - 1 + 1 : y[i] = r[1 + i - 1]
    <3> HIDE DEF n
    <3>1. n \in Int /\ 1 \in Int BY <1>1
    <3> QED BY <2>1, <3>1, SubSeqProperties
  <2>3. (IF 1 <= n THEN n - 1 + 1 ELSE 0) = n
    <3> HIDE DEF n
    <3> QED BY <1>1
  <2>4. \A i \in 1 .. n : i \in 1 .. n - 1 + 1 /\ 1 + i - 1 = i
    <3> HIDE DEF n
    <3> QED BY <1>1
  <2> HIDE DEF y, n
  <2> QED BY <2>2, <2>3, <2>4
<1> HIDE DEF y
<1>7. ASSUME n <= Len(r), \A i \in 1 .. n : r[i] = p[i] PROVE p = y
  BY <1>6, <1>7, SeqEqual
<1> QED BY <1>5, <1>6, <1>7

\* What is below a path lies in something on the disk that is in that path.
LEMMA BelowHasChild ==
  ASSUME NEW dk, Tree(dk), NEW q \in Seq(STRING), q # Root, NEW r0 \in DOMAIN dk,
         Below(r0, q), r0 # q
  PROVE  q \in DOMAIN dk /\ dk[q].dir /\ Children(dk, q) # {}
<1> DEFINE S == {k \in Nat : \A r \in DOMAIN dk :
                    Below(r, q) /\ Len(r) = Len(q) + (k + 1) => Children(dk, q) # {}}
<1>1. Len(q) \in Nat /\ Len(q) >= 1 BY FrontOf
<1>2. ASSUME NEW r \in DOMAIN dk, Below(r, q), NEW k \in Nat, Len(r) = Len(q) + (k + 1)
      PROVE  /\ Front(r) \in Seq(STRING) /\ Len(Front(r)) = Len(q) + k
             /\ \A i \in 1 .. Len(q) : Front(r)[i] = q[i]
             /\ Len(q) <= Len(Front(r))
  <2>1. r \in Seq(STRING) /\ r # Root BY TreeOf
  <2>2. /\ Front(r) \in Seq(STRING) /\ Len(Front(r)) = Len(r) - 1
        /\ \A i \in 1 .. Len(r) - 1 : Front(r)[i] = r[i]
    BY <2>1, FrontOf
  <2>3. \A i \in 1 .. Len(q) : r[i] = q[i] BY <1>2, <2>1, BelowIs
  <2>4. \A m \in Nat : (m + (k + 1)) - 1 = m + k /\ m <= m + k OBVIOUS
  <2>5. Len(r) - 1 = Len(q) + k /\ Len(q) <= Len(r) - 1 BY <1>1, <1>2, <2>4, Zenon
  <2>6. \A m, j \in Nat : j <= m => \A i \in 1 .. j : i \in 1 .. m OBVIOUS
  <2>7. \A i \in 1 .. Len(q) : i \in 1 .. Len(r) - 1
    <3>1. Len(r) - 1 \in Nat BY <1>1, <2>5
    <3> QED BY <3>1, <2>5, <2>6, <1>1, Zenon
  <2> QED BY <2>2, <2>3, <2>5, <2>7, Zenon
<1>3. 0 \in S
  <2> SUFFICES ASSUME NEW r \in DOMAIN dk, Below(r, q), Len(r) = Len(q) + (0 + 1)
               PROVE  Children(dk, q) # {}
    OBVIOUS
  <2>1. /\ Front(r) \in Seq(STRING) /\ Len(Front(r)) = Len(q) + 0
        /\ \A i \in 1 .. Len(q) : Front(r)[i] = q[i]
    BY <1>2
  <2>2. Len(Front(r)) = Len(q) BY <2>1, <1>1
  <2>3. Front(r) = q BY <2>1, <2>2, SeqEqual
  <2> QED BY <2>3, TreeOf DEF Children
<1>4. ASSUME NEW k \in Nat, k \in S PROVE k + 1 \in S
  <2> SUFFICES ASSUME NEW r \in DOMAIN dk, Below(r, q), Len(r) = Len(q) + ((k + 1) + 1)
               PROVE  Children(dk, q) # {}
    OBVIOUS
  <2>1. /\ Front(r) \in Seq(STRING) /\ Len(Front(r)) = Len(q) + (k + 1)
        /\ \A i \in 1 .. Len(q) : Front(r)[i] = q[i]
        /\ Len(q) <= Len(Front(r))
    <3>1. k + 1 \in Nat OBVIOUS
    <3> QED BY <3>1, <1>2, Zenon
  <2>2. Below(Front(r), q) BY <2>1, BelowIs
  <2>3. Front(r) # Root
    <3>1. Len(Front(r)) # 0 BY <1>1, <2>1
    <3> QED BY <3>1 DEF Root
  <2>4. Front(r) \in DOMAIN dk BY <2>3, TreeOf
  <2> QED BY <2>1, <2>2, <2>4, <1>4
<1>5. \A k \in Nat : k \in S
  <2> HIDE DEF S
  <2> QED BY <1>3, <1>4, SetInduction
<1>6. Children(dk, q) # {}
  <2>1. /\ r0 \in Seq(STRING) /\ Len(r0) \in Nat
        /\ Len(q) <= Len(r0) /\ \A i \in 1 .. Len(q) : r0[i] = q[i]
    BY TreeOf, BelowIs, LenProperties
  <2>2. Len(r0) # Len(q)
    <3> SUFFICES ASSUME Len(r0) = Len(q) PROVE FALSE OBVIOUS
    <3>1. r0 = q BY <2>1, SeqEqual
    <3> QED BY <3>1
  <2>3. \A m, j \in Nat : m <= j /\ j # m => j - m - 1 \in Nat /\ j = m + ((j - m - 1) + 1) OBVIOUS
  <2> DEFINE k == Len(r0) - Len(q) - 1
  <2>4. k \in Nat /\ Len(r0) = Len(q) + (k + 1) BY <2>1, <2>2, <2>3, <1>1, Zenon
  <2> HIDE DEF k
  <2> QED BY <2>4, <1>5
<1>7. PICK c \in DOMAIN dk : c # Root /\ Front(c) = q BY <1>6 DEF Children
<1> QED BY <1>6, <1>7, TreeOf

\* Where rename puts r when it moves p to q.
Moved(p, q, r) == q \o SubSeq(r, Len(p) + 1, Len(r))

\* The new path, name by name.
LEMMA MovedIs ==
  ASSUME NEW p \in Seq(STRING), NEW q \in Seq(STRING), NEW r \in Seq(STRING), Below(r, p)
  PROVE  /\ Moved(p, q, r) \in Seq(STRING)
         /\ Len(p) \in Nat /\ Len(q) \in Nat /\ Len(r) \in Nat /\ Len(p) <= Len(r)
         /\ Len(Moved(p, q, r)) = Len(q) + (Len(r) - Len(p))
         /\ \A i \in 1 .. Len(q) : Moved(p, q, r)[i] = q[i]
         /\ \A j \in 1 .. Len(r) - Len(p) : Moved(p, q, r)[Len(q) + j] = r[Len(p) + j]
<1> DEFINE a == Len(p)
           b == Len(r)
           c == Len(q)
           y == SubSeq(r, a + 1, b)
           m == q \o y
<1>1. a \in Nat /\ b \in Nat /\ c \in Nat BY LenProperties
<1>2. a <= b BY BelowIs
<1>3. \A i \in 1 .. b : r[i] \in STRING BY ElementOfSeq
<1>4. Moved(p, q, r) = m BY DEF Moved
<1>5. /\ y \in Seq(STRING) /\ Len(y) = b - a
      /\ \A j \in 1 .. b - a : y[j] = r[a + j]
  <2> HIDE DEF a, b
  <2>1. \A i \in a + 1 .. b : r[i] \in STRING BY <1>1, <1>3
  <2>2. /\ y \in Seq(STRING) /\ Len(y) = IF a + 1 <= b THEN b - (a + 1) + 1 ELSE 0
        /\ \A j \in 1 .. b - (a + 1) + 1 : y[j] = r[(a + 1) + j - 1]
    <3>1. a + 1 \in Int /\ b \in Int BY <1>1
    <3> QED BY <2>1, <3>1, SubSeqProperties
  <2>3. (IF a + 1 <= b THEN b - (a + 1) + 1 ELSE 0) = b - a BY <1>1, <1>2
  <2>4. \A j \in 1 .. b - a : j \in 1 .. b - (a + 1) + 1 /\ (a + 1) + j - 1 = a + j BY <1>1
  <2> HIDE DEF y
  <2> QED BY <2>2, <2>3, <2>4
<1> HIDE DEF y
<1>6. /\ m \in Seq(STRING) /\ Len(m) = c + Len(y)
      /\ \A i \in 1 .. c + Len(y) : m[i] = IF i <= c THEN q[i] ELSE y[i - c]
  BY <1>5, ConcatProperties
<1> HIDE DEF m, a, b, c
<1>7. \A i \in 1 .. c : m[i] = q[i]
  <2>1. \A i \in 1 .. c : i \in 1 .. c + Len(y) /\ i <= c BY <1>1, <1>2, <1>5
  <2> QED BY <2>1, <1>6
<1>8. \A j \in 1 .. b - a : m[c + j] = r[a + j]
  <2> TAKE j \in 1 .. b - a
  <2>1. c + j \in 1 .. c + Len(y) /\ ~(c + j <= c) /\ (c + j) - c = j BY <1>1, <1>2, <1>5
  <2>2. m[c + j] = y[j] BY <2>1, <1>6
  <2> QED BY <2>2, <1>5
<1> QED BY <1>1, <1>2, <1>4, <1>5, <1>6, <1>7, <1>8 DEF a, b, c

\* No two paths are moved to the same place.
LEMMA MovedInjective ==
  ASSUME NEW p \in Seq(STRING), NEW q \in Seq(STRING), NEW r \in Seq(STRING),
         NEW s \in Seq(STRING), Below(r, p), Below(s, p), Moved(p, q, r) = Moved(p, q, s)
  PROVE  r = s
<1> DEFINE a == Len(p)
           b == Len(r)
           c == Len(q)
           d == Len(s)
           x == Moved(p, q, r)
           y == Moved(p, q, s)
<1>1. /\ a \in Nat /\ b \in Nat /\ c \in Nat /\ a <= b
      /\ Len(x) = c + (b - a) /\ \A j \in 1 .. b - a : x[c + j] = r[a + j]
  BY MovedIs
<1>2. /\ d \in Nat /\ a <= d
      /\ Len(y) = c + (d - a) /\ \A j \in 1 .. d - a : y[c + j] = s[a + j]
  BY MovedIs
<1>3. \A i \in 1 .. a : r[i] = p[i] /\ s[i] = p[i] BY BelowIs
<1>4. x = y OBVIOUS
<1> HIDE DEF a, b, c, d, x, y
<1>5. b = d BY <1>1, <1>2, <1>4
<1>6. ASSUME NEW i \in 1 .. b PROVE r[i] = s[i]
  <2>1. CASE i <= a
    <3>1. i \in 1 .. a BY <2>1, <1>1
    <3> QED BY <3>1, <1>3
  <2>2. CASE i > a
    <3> DEFINE j == i - a
    <3>1. j \in 1 .. b - a /\ a + j = i BY <2>2, <1>1
    <3> HIDE DEF j
    <3> QED BY <3>1, <1>1, <1>2, <1>4, <1>5
  <2> QED BY <2>1, <2>2, <1>1
<1> QED BY <1>5, <1>6, SeqEqual DEF b, d

\* The directory something is in moves with it.
LEMMA MovedFront ==
  ASSUME NEW p \in Seq(STRING), NEW q \in Seq(STRING), NEW r \in Seq(STRING), Below(r, p),
         p # Root, q # Root, r # p
  PROVE  /\ Below(Front(r), p) /\ Front(r) \in Seq(STRING) /\ Front(r) # Root
         /\ Front(Moved(p, q, r)) = Moved(p, q, Front(r))
<1> DEFINE a == Len(p)
           b == Len(r)
           c == Len(q)
           f == Front(r)
           x == Moved(p, q, r)
           y == Moved(p, q, f)
           z == Front(x)
<1>1. /\ a \in Nat /\ b \in Nat /\ c \in Nat /\ a <= b /\ x \in Seq(STRING)
      /\ Len(x) = c + (b - a) /\ \A i \in 1 .. c : x[i] = q[i]
      /\ \A j \in 1 .. b - a : x[c + j] = r[a + j]
  BY MovedIs
<1>2. a >= 1 /\ c >= 1 BY FrontOf
<1>3. \A i \in 1 .. a : r[i] = p[i] BY BelowIs
<1>4. b # a
  <2> SUFFICES ASSUME b = a PROVE FALSE OBVIOUS
  <2>1. r = p BY <1>3, SeqEqual
  <2> QED BY <2>1
<1>5. r # Root
  <2>1. b # 0
    <3> HIDE DEF a, b
    <3> QED BY <1>1, <1>2
  <2> QED BY <2>1 DEF Root
<1>6. f \in Seq(STRING) /\ Len(f) = b - 1 /\ \A i \in 1 .. b - 1 : f[i] = r[i] BY <1>5, FrontOf
<1>7. Below(f, p)
  <2>1. a <= Len(f) /\ \A i \in 1 .. a : i \in 1 .. b - 1
    <3> HIDE DEF a, b, f
    <3> QED BY <1>1, <1>4, <1>6
  <2>2. \A i \in 1 .. a : f[i] = p[i] BY <2>1, <1>3, <1>6
  <2> QED BY <2>1, <2>2, <1>6, BelowIs
<1>8. f # Root
  <2>1. Len(f) # 0
    <3> HIDE DEF a, b, f
    <3> QED BY <1>1, <1>2, <1>4, <1>6
  <2> QED BY <2>1 DEF Root
<1>9. /\ y \in Seq(STRING) /\ Len(y) = c + (Len(f) - a) /\ \A i \in 1 .. c : y[i] = q[i]
      /\ \A j \in 1 .. Len(f) - a : y[c + j] = f[a + j]
  BY <1>6, <1>7, MovedIs, ZenonT(40)
<1>10. x # Root
  <2>1. Len(x) # 0
    <3> HIDE DEF a, b, c, x
    <3> QED BY <1>1, <1>2
  <2> QED BY <2>1 DEF Root
<1>11. z \in Seq(STRING) /\ Len(z) = Len(x) - 1 /\ \A i \in 1 .. Len(x) - 1 : z[i] = x[i]
  BY <1>1, <1>10, FrontOf
<1> HIDE DEF a, b, c, f, x, y, z
<1>12. Len(z) = Len(y) /\ Len(y) = c + (b - 1 - a) BY <1>1, <1>6, <1>9, <1>11
<1>13. ASSUME NEW i \in 1 .. Len(z) PROVE z[i] = y[i]
  <2>1. z[i] = x[i] BY <1>11
  <2>2. CASE i <= c
    <3>1. i \in 1 .. c BY <2>2, <1>1, <1>12
    <3> QED BY <2>1, <3>1, <1>1, <1>9
  <2>3. CASE i > c
    <3> DEFINE j == i - c
    <3>1. /\ j \in 1 .. b - a /\ c + j = i /\ j \in 1 .. Len(f) - a
          /\ a + j \in 1 .. b - 1
      BY <2>3, <1>1, <1>6, <1>12
    <3> HIDE DEF j
    <3>2. x[i] = r[a + j] BY <3>1, <1>1
    <3>3. y[i] = f[a + j] BY <3>1, <1>9
    <3> QED BY <2>1, <3>1, <3>2, <3>3, <1>6
  <2> QED BY <2>2, <2>3, <1>1, <1>12
<1>14. z = y BY <1>9, <1>11, <1>12, <1>13, SeqEqual
<1> QED BY <1>6, <1>7, <1>8, <1>14 DEF f, x, y, z

\* A path is below itself.
LEMMA BelowSelf ==
  ASSUME NEW p \in Seq(STRING)
  PROVE  Below(p, p)
<1>1. Len(p) \in Nat BY LenProperties
<1> QED BY <1>1, BelowIs

\* What is in a directory below p is below p.
LEMMA BelowFront ==
  ASSUME NEW r \in Seq(STRING), r # Root, NEW p \in Seq(STRING), Below(Front(r), p)
  PROVE  Below(r, p)
<1> DEFINE a == Len(p)
           b == Len(r)
<1>1. /\ Front(r) \in Seq(STRING) /\ Len(Front(r)) = b - 1 /\ b \in Nat /\ a \in Nat
      /\ \A i \in 1 .. b - 1 : Front(r)[i] = r[i]
  BY FrontOf, LenProperties
<1>2. a <= b - 1 /\ \A i \in 1 .. a : Front(r)[i] = p[i] BY <1>1, BelowIs
<1>3. a <= b /\ \A i \in 1 .. a : i \in 1 .. b - 1
  <2> HIDE DEF a, b
  <2> QED BY <1>1, <1>2
<1>4. \A i \in 1 .. a : r[i] = p[i] BY <1>1, <1>2, <1>3
<1> QED BY <1>3, <1>4, BelowIs

\* rename keeps the tree: what moves stays in its directory, and nothing is
\* left without one.
LEMMA MoveTree ==
  ASSUME NEW dk, Tree(dk), NEW p, NEW q \in Seq(STRING), q # Root, CanMove(dk, p, q)
  PROVE  Tree(Move(dk, p, q))
<1> DEFINE moved == {r \in DOMAIN dk : Below(r, p)}
           To(r) == Moved(p, q, r)
           From(r) == CHOOSE s \in moved : To(s) = r
           come == {To(r) : r \in moved}
           D == (DOMAIN dk \ (moved \cup {q})) \cup come
           e == [r \in D |-> IF r \in come THEN dk[From(r)] ELSE dk[r]]
<1>1. /\ p \in DOMAIN dk /\ p \in Seq(STRING) /\ p # Root
      /\ Front(q) = Root \/ (Front(q) \in DOMAIN dk /\ dk[Front(q)].dir)
      /\ q = p \/ ~Below(q, p)
      /\ q # p /\ q \in DOMAIN dk => Children(dk, q) = {}
  BY TreeOf DEF CanMove, IsDir
<1>2. \A s \in moved : s \in Seq(STRING) /\ s # Root /\ s \in DOMAIN dk /\ Below(s, p)
  BY TreeOf
<1>3. \A s \in moved : To(s) \in Seq(STRING) /\ Below(To(s), q) /\ To(s) # Root
  <2> TAKE s \in moved
  <2>1. /\ To(s) \in Seq(STRING) /\ Len(q) \in Nat /\ Len(s) \in Nat /\ Len(p) \in Nat
        /\ Len(p) <= Len(s) /\ Len(To(s)) = Len(q) + (Len(s) - Len(p))
        /\ \A i \in 1 .. Len(q) : To(s)[i] = q[i]
    BY <1>1, <1>2, MovedIs
  <2> HIDE DEF To
  <2>2. Len(q) >= 1 BY FrontOf
  <2>3. \A i, j, k \in Nat : j <= k /\ i >= 1 => i <= i + (k - j) /\ i + (k - j) # 0 OBVIOUS
  <2>4. Len(q) <= Len(To(s)) /\ Len(To(s)) # 0 BY <2>1, <2>2, <2>3, Zenon
  <2>5. To(s) # Root BY <2>4 DEF Root
  <2> QED BY <2>1, <2>4, <2>5, BelowIs
<1>4. \A s \in moved : From(To(s)) = s
  <2> TAKE s \in moved
  <2>1. \A r \in moved : To(r) = To(s) => r = s BY <1>1, <1>2, MovedInjective
  <2> HIDE DEF moved, To
  <2> QED BY <2>1
<1>5. p \in moved /\ To(p) = q
  <2>1. p \in moved BY <1>1, BelowSelf
  <2>2. /\ To(p) \in Seq(STRING) /\ Len(q) \in Nat /\ Len(p) \in Nat
        /\ Len(To(p)) = Len(q) + (Len(p) - Len(p)) /\ \A i \in 1 .. Len(q) : To(p)[i] = q[i]
    BY <1>1, <2>1, MovedIs
  <2> HIDE DEF To
  <2>3. \A i, j \in Nat : i + (j - j) = i OBVIOUS
  <2>4. Len(To(p)) = Len(q) BY <2>2, <2>3, Zenon
  <2> QED BY <2>1, <2>2, <2>4, SeqEqual
<1>6. Move(dk, p, q) = e
  BY Zenon DEF Move, Moved
<1>7. \A s \in moved : s # p => Front(s) \in moved /\ dk[Front(s)].dir
                                /\ Front(To(s)) = To(Front(s))
  <2> SUFFICES ASSUME NEW s \in moved, s # p
               PROVE  Front(s) \in moved /\ dk[Front(s)].dir /\ Front(To(s)) = To(Front(s))
    OBVIOUS
  <2>1. /\ Below(Front(s), p) /\ Front(s) # Root /\ Front(To(s)) = To(Front(s))
    BY <1>1, <1>2, MovedFront
  <2> QED BY <2>1, <1>2, TreeOf
<1>8. \A s \in moved : To(s) \in D /\ e[To(s)] = dk[s]
  <2> TAKE s \in moved
  <2>1. To(s) \in come OBVIOUS
  <2>2. e[To(s)] = dk[From(To(s))] BY <2>1
  <2> HIDE DEF e, From, To, moved
  <2> QED BY <2>1, <2>2, <1>4
<1>9. \A r \in DOMAIN dk \ (moved \cup {q}) :
        r \in D /\ (r \notin come => e[r] = dk[r])
  OBVIOUS
<1> HIDE DEF To, From, moved, e
<1>10. e \in [D -> Attributes]
  <2>1. DOMAIN e = D /\ e = [r \in D |-> e[r]] BY DEF e
  <2>2. ASSUME NEW r \in D PROVE e[r] \in Attributes
    <3>1. CASE r \in come BY <3>1, <1>2, <1>8, TreeOf
    <3>2. CASE r \notin come BY <3>2, <1>9, TreeOf
    <3> QED BY <3>1, <3>2
  <2> HIDE DEF D
  <2> QED BY <2>1, <2>2
<1>11. \A r \in D : r \in Seq(STRING) /\ r # Root BY <1>3, TreeOf
<1>12. ASSUME NEW r \in D, Front(r) # Root PROVE Front(r) \in D /\ e[Front(r)].dir
  <2>1. CASE r = q
    <3>1. Front(q) \in DOMAIN dk /\ dk[Front(q)].dir /\ Front(q) # q BY <1>1, <1>12, <2>1, FrontOf
    <3>2. Front(q) \notin moved
      <4> SUFFICES ASSUME Front(q) \in moved PROVE FALSE OBVIOUS
      <4>1. Below(q, p) /\ Below(Front(q), p) BY <1>1, <1>2, BelowFront
      <4>2. q = p BY <4>1, <1>1
      <4>3. Len(p) <= Len(Front(p)) BY <4>1, <4>2, <1>1, FrontOf, BelowIs
      <4>4. Len(Front(p)) = Len(p) - 1 /\ Len(p) \in Nat BY <1>1, FrontOf
      <4>5. \A k \in Nat : ~(k <= k - 1) OBVIOUS
      <4> QED BY <4>3, <4>4, <4>5, Zenon
    <3>3. Front(q) \notin come
      <4> SUFFICES ASSUME Front(q) \in come PROVE FALSE OBVIOUS
      <4>1. Below(Front(q), q) BY <1>3
      <4>2. Len(q) <= Len(Front(q)) BY <4>1, FrontOf, BelowIs
      <4>3. Len(Front(q)) = Len(q) - 1 /\ Len(q) \in Nat BY FrontOf
      <4>4. \A k \in Nat : ~(k <= k - 1) OBVIOUS
      <4> QED BY <4>2, <4>3, <4>4, Zenon
    <3> QED BY <2>1, <3>1, <3>2, <3>3, <1>9
  <2>2. CASE r \in come /\ r # q
    <3>1. PICK s \in moved : r = To(s) BY <2>2
    <3>2. s # p BY <3>1, <2>2, <1>5
    <3> QED BY <3>1, <3>2, <1>7, <1>8
  <2>3. CASE r \notin come /\ r # q
    <3>1. r \in DOMAIN dk /\ r \notin moved BY <2>3
    <3>2. Front(r) \in DOMAIN dk /\ dk[Front(r)].dir BY <3>1, <1>12, TreeOf
    <3>3. r \in Seq(STRING) /\ r # Root /\ Front(r) \in Seq(STRING) BY <1>11, FrontOf
    <3>4. ~Below(r, p) BY <3>1 DEF moved
    <3>5. Front(r) \notin moved BY <3>3, <3>4, <1>1, <1>2, BelowFront
    <3>6. ~Below(Front(r), q)
      <4> SUFFICES ASSUME Below(Front(r), q) PROVE FALSE OBVIOUS
      <4>1. Below(r, q) BY <3>3, BelowFront
      <4>2. q \in DOMAIN dk /\ Children(dk, q) # {} BY <4>1, <3>1, <2>3, BelowHasChild
      <4>3. q = p BY <4>2, <1>1
      <4> QED BY <4>1, <4>3, <3>4
    <3>7. Front(r) # q BY <3>6, BelowSelf
    <3>8. Front(r) \notin come BY <3>6, <1>3
    <3> QED BY <3>2, <3>5, <3>7, <3>8, <1>9
  <2> QED BY <2>1, <2>2, <2>3
<1>13. Tree(e)
  <2> HIDE DEF D
  <2> QED BY <1>10, <1>11, <1>12, IsTree
<1> QED BY <1>6, <1>13

-----------------------------------------------------------------------------
(* The inductive invariant *)

\* A search has a handle and a place in the list.
SearchOK(sr) ==
  \/ sr = NoSearch
  \/ {"h", "nth"} \subseteq DOMAIN sr /\ sr.h \in 1 .. MaxHandles /\ sr.nth \in Nat \ {0}

DriveInv ==
  /\ Tree(disk)
  /\ now \in Nat
  /\ ItemsOK(items, now)
  /\ \A s \in Searches : SearchOK(search[s])

\* What a step does: it keeps the invariant, and the handles unless the server
\* is started again.
StepOK == DriveInv' /\ (items' = <<>> \/ Kept(items, items', now))

\* Handles made from those of the drive by a part of a request.
Working(its) == ItemsOK(its, now) /\ Kept(items, its, now)

\* A part of a request that starts on such handles ends on such handles.
LEMMA WorkingOn ==
  ASSUME DriveInv, NEW a, Working(a), NEW b, ItemsOK(b, now), Kept(a, b, now)
  PROVE  Working(b)
BY KeptTrans DEF Working, DriveInv

\* The handles at the start of a request.
LEMMA WorkingStart ==
  ASSUME DriveInv
  PROVE  Working(items)
BY KeptSelf DEF Working, DriveInv

\* The lookups of a request.
LEMMA WorkingLookup ==
  ASSUME DriveInv, NEW a, Working(a), NEW dk, Tree(dk),
         NEW cp \in Seq(Shorts \cup {All}), cp # <<>>, NEW rescan
  PROVE  LET r == Lookup(dk, a, cp, rescan)
         IN  /\ Working(r.items) /\ r.path \in Seq(STRING)
             /\ r.ok => r.path # Root
<1> DEFINE r == Lookup(dk, a, cp, rescan)
<1>1. PathOK(a, r, Len(cp), now) BY LookupOK DEF DriveInv, Working, Lookup
<1> HIDE DEF r
<1>2. Len(cp) # 0 BY EmptySeq
<1>3. Working(r.items) BY <1>1, WorkingOn DEF PathOK
<1>4. r.path \in Seq(STRING) /\ (r.ok => Len(r.path) = Len(cp)) BY <1>1 DEF PathOK
<1>5. r.ok => r.path # Root BY <1>2, <1>4, EmptySeq DEF Root
<1> QED BY <1>3, <1>4, <1>5 DEF r

\* The lookup of any directory, the root included, leaves the handles in order.
LEMMA WorkingLookupAny ==
  ASSUME DriveInv, NEW a, Working(a), NEW dk, Tree(dk),
         NEW cp \in Seq(Shorts \cup {All}), NEW rescan
  PROVE  Working(Lookup(dk, a, cp, rescan).items)
<1> DEFINE r == Lookup(dk, a, cp, rescan)
<1>1. PathOK(a, r, Len(cp), now) BY LookupOK DEF DriveInv, Working, Lookup
<1> HIDE DEF r
<1> QED BY <1>1, WorkingOn DEF PathOK, r

\* The handle a request asks for.
LEMMA WorkingHandle ==
  ASSUME DriveInv, NEW a, Working(a), NEW p \in Seq(STRING)
  PROVE  LET g == GetHandle(a, p, now)
         IN  Working(g.items) /\ g.h \in 1 .. Len(g.items)
<1> DEFINE g == GetHandle(a, p, now)
<1>1. HandleOK(a, g.items, g.h, p, now) BY GetHandleOK DEF DriveInv, Working
<1> HIDE DEF g
<1> QED BY <1>1, WorkingOn DEF HandleOK, g

\* The searches of the others keep their handles and places.
LEMMA WatchedOK ==
  ASSUME DriveInv, NEW dk, NEW its
  PROVE  /\ DOMAIN Watched(dk, its) = Searches
         /\ \A s \in Searches : SearchOK(Watched(dk, its)[s])
<1> SUFFICES ASSUME NEW s \in Searches PROVE SearchOK(Watched(dk, its)[s]) BY DEF Watched
<1>1. SearchOK(search[s]) BY DEF DriveInv
<1>2. CASE search[s] = NoSearch BY <1>2 DEF Watched, SearchOK
<1>3. CASE search[s] # NoSearch
  <2> DEFINE x == [search[s] EXCEPT !.clean = @ /\ Undisturbed(search[s], dk, its)]
  <2>1. Watched(dk, its)[s] = x BY <1>3 DEF Watched
  <2>2. DOMAIN x = DOMAIN search[s] /\ {"h", "nth"} \subseteq DOMAIN search[s]
    BY <1>1, <1>3 DEF SearchOK
  <2>3. x.h = search[s].h /\ x.nth = search[s].nth BY <2>2
  <2> HIDE DEF x
  <2> QED BY <2>1, <2>2, <2>3, <1>1, <1>3 DEF SearchOK
<1> QED BY <1>2, <1>3

\* A request ends: the disk is a tree and the handles are in order.
LEMMA EffectOK ==
  ASSUME DriveInv, NEW dk, Tree(dk), NEW its, Working(its) \/ its = <<>>, NEW result,
         Effect(dk, its, result)
  PROVE  StepOK
<1>1. disk' = dk /\ items' = its /\ search' = Watched(dk, its) /\ now' = now
  BY DEF Effect, SetDisk
<1>2. \A s \in Searches : SearchOK(search'[s])
  <2>1. \A s \in Searches : SearchOK(Watched(dk, its)[s]) BY WatchedOK
  <2> QED BY <1>1, <2>1
<1>3. ItemsOK(its, now) /\ (its = <<>> \/ Kept(items, its, now))
  <2>1. CASE Working(its) BY <2>1 DEF Working
  <2>2. CASE its = <<>>
    <3>1. <<>> \in Seq(Item(now)) /\ Len(<<>>) = 0 OBVIOUS
    <3> QED BY <2>2, <3>1, NamesAssumption DEF ItemsOK
  <2> QED BY <2>1, <2>2
<1>4. Tree(disk)' /\ ItemsOK(items, now)' /\ (now \in Nat)' /\ (\A s \in Searches : SearchOK(search[s]))'
  <2>1. Tree(disk') BY <1>1
  <2>2. ItemsOK(items', now') BY <1>1, <1>3
  <2>3. now' \in Nat BY <1>1 DEF DriveInv
  <2> QED BY <2>1, <2>2, <2>3, <1>2
<1>5. items' = <<>> \/ Kept(items, items', now) BY <1>1, <1>3
<1> QED BY <1>4, <1>5 DEF StepOK, DriveInv

\* A request that changes only the handles.
LEMMA AnswerOK ==
  ASSUME DriveInv, NEW its, Working(its) \/ its = <<>>, Answer(its)
  PROVE  StepOK
BY EffectOK DEF Answer, DriveInv

-----------------------------------------------------------------------------
(* Every request keeps the invariant *)

\* The paths clients name can be looked up.
LEMMA ClientPathOK ==
  /\ \A cp \in ClientPaths : cp \in Seq(Shorts \cup {All}) /\ cp # <<>>
  /\ \A dir \in ClientDirs : /\ dir \in Seq(Shorts \cup {All})
                             /\ Append(dir, All) \in Seq(Shorts \cup {All})
                             /\ Append(dir, All) # <<>>
<1>1. \A cp \in Seq(Shorts) : cp \in Seq(Shorts \cup {All}) BY SeqMonotonic
<1>2. All \in Shorts \cup {All} OBVIOUS
<1>3. \A cp \in Seq(Shorts \cup {All}) :
        Append(cp, All) \in Seq(Shorts \cup {All}) /\ Append(cp, All) # <<>>
  BY <1>2, AppendProperties
<1> QED BY <1>1, <1>3, DriveAssumption DEF Root

\* The first lookup of a request.
LEMMA FirstLookup ==
  ASSUME DriveInv, NEW cp \in ClientPaths
  PROVE  LET r == Lookup(disk, items, cp, FALSE)
         IN  Working(r.items) /\ r.path \in Seq(STRING) /\ (r.ok => r.path # Root)
<1>1. cp \in Seq(Shorts \cup {All}) /\ cp # <<>> BY ClientPathOK
<1>2. Working(items) /\ Tree(disk) BY WorkingStart DEF DriveInv
<1> QED BY <1>1, <1>2, WorkingLookup

\* A change of the disk with a rebuild of the lists.
LEMMA ChangeOK ==
  ASSUME DriveInv, NEW r, NEW ok, NEW dk, NEW cp \in ClientPaths, Working(r.items),
         ok => Tree(dk), ChangeAndRebuild(r, ok, dk, cp)
  PROVE  StepOK
<1>1. CASE Answer(items) BY <1>1, WorkingStart, AnswerOK
<1>2. CASE Answer(r.items) BY <1>2, AnswerOK
<1>3. ASSUME ok, NEW again, again = Lookup(dk, r.items, cp, TRUE), NEW result,
             Effect(dk, again.items, result)
      PROVE  StepOK
  <2>1. cp \in Seq(Shorts \cup {All}) BY ClientPathOK
  <2>2. Working(again.items) BY <1>3, <2>1, WorkingLookupAny
  <2> QED BY <1>3, <2>2, EffectOK
<1> QED BY <1>1, <1>2, <1>3, Zenon DEF ChangeAndRebuild

\* MAKE_DIR
LEMMA MakeDirOK ==
  ASSUME DriveInv, NEW cp \in ClientPaths, MakeDir(cp)
  PROVE  StepOK
<1> DEFINE dirAttrs == [dir |-> TRUE, ro |-> FALSE]
           Ok(r) == r.ok /\ ~r.exist /\ ~Exists(disk, r.path) /\ IsDir(disk, Front(r.path))
<1>1. PICK r : /\ r = Lookup(disk, items, cp, FALSE)
               /\ ChangeAndRebuild(r, Ok(r), Put(disk, r.path, dirAttrs), cp)
  BY Zenon DEF MakeDir
<1>2. Working(r.items) /\ r.path \in Seq(STRING) /\ (r.ok => r.path # Root)
  BY <1>1, FirstLookup
<1>3. Ok(r) => Tree(Put(disk, r.path, dirAttrs))
  <2>1. dirAttrs \in Attributes /\ dirAttrs.dir BY DEF Attributes
  <2> HIDE DEF dirAttrs
  <2> QED BY <2>1, <1>2, PutTree DEF DriveInv, Exists
<1> HIDE DEF Ok, dirAttrs
<1> QED BY <1>1, <1>2, <1>3, ChangeOK

\* REMOVE_DIR
LEMMA RemoveDirOK ==
  ASSUME DriveInv, NEW cp \in ClientPaths, RemoveDir(cp)
  PROVE  StepOK
<1> DEFINE Ok(r) == r.ok /\ r.exist /\ IsDir(disk, r.path) /\ Children(disk, r.path) = {}
<1>1. PICK r : /\ r = Lookup(disk, items, cp, FALSE)
               /\ ChangeAndRebuild(r, Ok(r), Without(disk, {r.path}), cp)
  BY Zenon DEF RemoveDir
<1>2. Working(r.items) BY <1>1, FirstLookup
<1>3. Ok(r) => Tree(Without(disk, {r.path})) BY WithoutTree DEF DriveInv
<1> HIDE DEF Ok
<1> QED BY <1>1, <1>2, <1>3, ChangeOK

\* SET_ATTRS
LEMMA SetAttrsOK ==
  ASSUME DriveInv, NEW cp \in ClientPaths, NEW ro \in BOOLEAN, SetAttrs(cp, ro)
  PROVE  StepOK
<1>1. CASE Answer(items) BY <1>1, WorkingStart, AnswerOK
<1>2. ASSUME NEW r, r = Lookup(disk, items, cp, FALSE),
             ChangeAndRebuild(r, r.ok /\ r.path \in DOMAIN disk,
                              [disk EXCEPT ![r.path].ro = ro], cp)
      PROVE  StepOK
  <2> DEFINE dk == [disk EXCEPT ![r.path].ro = ro]
             ok == r.ok /\ r.path \in DOMAIN disk
  <2>1. Working(r.items) BY <1>2, FirstLookup
  <2>2. ok => Tree(dk) BY AttrTree DEF DriveInv
  <2>3. ChangeAndRebuild(r, ok, dk, cp) BY <1>2
  <2> HIDE DEF ok, dk
  <2> QED BY <2>1, <2>2, <2>3, ChangeOK
<1> QED BY <1>1, <1>2, Zenon DEF SetAttrs

\* RENAME_FILE
LEMMA RenameOK ==
  ASSUME DriveInv, NEW cp1 \in ClientPaths, NEW cp2 \in ClientPaths, Rename(cp1, cp2)
  PROVE  StepOK
<1> DEFINE Ok(r1, r2) == r1.ok /\ r2.ok /\ ~r2.exist /\ CanMove(disk, r1.path, r2.path)
<1>1. PICK r1, r2 :
        /\ r1 = Lookup(disk, items, cp1, FALSE)
        /\ r2 = (IF r1.ok THEN Lookup(disk, r1.items, cp2, FALSE) ELSE r1)
        /\ ChangeAndRebuild(r2, Ok(r1, r2), Move(disk, r1.path, r2.path), cp2)
  <2>1. RenameFile(cp1, cp2) BY DEF Rename
  <2> QED BY <2>1, Zenon DEF RenameFile
<1>2. Working(r1.items) /\ r1.path \in Seq(STRING) /\ (r1.ok => r1.path # Root)
  BY <1>1, FirstLookup
<1>3. Working(r2.items) /\ r2.path \in Seq(STRING) /\ (r2.ok => r2.path # Root)
  <2>1. CASE r1.ok
    <3>1. cp2 \in Seq(Shorts \cup {All}) /\ cp2 # <<>> BY ClientPathOK
    <3>2. r2 = Lookup(disk, r1.items, cp2, FALSE) BY <1>1, <2>1
    <3>3. Tree(disk) BY DEF DriveInv
    <3> QED BY <3>1, <3>2, <3>3, <1>2, WorkingLookup
  <2>2. CASE ~r1.ok
    <3>1. r2 = r1 BY <1>1, <2>2
    <3> QED BY <3>1, <1>2
  <2> QED BY <2>1, <2>2
<1>4. Ok(r1, r2) => Tree(Move(disk, r1.path, r2.path)) BY <1>3, MoveTree DEF DriveInv
<1> HIDE DEF Ok
<1> QED BY <1>1, <1>3, <1>4, ChangeOK

\* Files have nothing in them.
LEMMA FilesOK ==
  ASSUME DriveInv, NEW P, \A p \in P : IsFile(p)
  PROVE  Tree(Without(disk, P))
<1>1. \A p \in P : Children(disk, p) = {} BY NothingInFile DEF DriveInv, IsFile
<1> QED BY <1>1, WithoutTree DEF DriveInv

\* DELETE_FILE of one file
LEMMA DeleteFileOK ==
  ASSUME DriveInv, NEW cp \in ClientPaths, DeleteFile(cp)
  PROVE  StepOK
<1>1. PICK r : /\ r = Lookup(disk, items, cp, FALSE)
               /\ \/ Answer(items)
                  \/ Answer(r.items)
                  \/ /\ IsFile(r.path)
                     /\ Effect(Without(disk, {r.path}), r.items, NoResult)
  BY Zenon DEF DeleteFile
<1>2. Working(r.items) BY <1>1, FirstLookup
<1>3. CASE Answer(items) BY <1>3, WorkingStart, AnswerOK
<1>4. CASE Answer(r.items) BY <1>2, <1>4, AnswerOK
<1>5. CASE /\ IsFile(r.path)
           /\ Effect(Without(disk, {r.path}), r.items, NoResult)
  <2>1. Tree(Without(disk, {r.path})) BY <1>5, FilesOK
  <2> QED BY <1>2, <1>5, <2>1, EffectOK
<1> QED BY <1>1, <1>3, <1>4, <1>5

\* The lookup of a pattern, and the handle of its directory.
LEMMA PatternLookup ==
  ASSUME DriveInv, NEW dir \in ClientDirs
  PROVE  LET r == Lookup(disk, items, Append(dir, All), FALSE)
         IN  Working(r.items) /\ (r.ok => Front(r.path) \in Seq(STRING))
<1> DEFINE r == Lookup(disk, items, Append(dir, All), FALSE)
<1>1. Append(dir, All) \in Seq(Shorts \cup {All}) /\ Append(dir, All) # <<>> BY ClientPathOK
<1>2. Working(items) /\ Tree(disk) BY WorkingStart DEF DriveInv
<1>3. Working(r.items) /\ r.path \in Seq(STRING) /\ (r.ok => r.path # Root)
  BY <1>1, <1>2, WorkingLookup
<1> HIDE DEF r
<1> QED BY <1>3, FrontOf DEF r

\* DELETE_FILE with a pattern
LEMMA DeleteMatchingOK ==
  ASSUME DriveInv, NEW dir \in ClientDirs, DeleteMatching(dir)
  PROVE  StepOK
<1>1. PICK r : /\ r = Lookup(disk, items, Append(dir, All), FALSE)
               /\ \/ Answer(items)
                  \/ Answer(r.items)
                  \/ /\ r.ok
                     /\ \E p \in {Front(r.path)}, g \in {GetHandle(r.items, Front(r.path), now)} :
                          Effect(Without(disk, Victims(g.items[g.h].list, p)), g.items,
                                 [op |-> "deleted", path |-> p])
  BY Zenon DEF DeleteMatching
<1>2. Working(r.items) /\ (r.ok => Front(r.path) \in Seq(STRING)) BY <1>1, PatternLookup
<1>3. CASE Answer(items) BY <1>3, WorkingStart, AnswerOK
<1>4. CASE Answer(r.items) BY <1>2, <1>4, AnswerOK
<1>5. ASSUME r.ok, NEW p, p = Front(r.path), NEW g, g = GetHandle(r.items, p, now),
             Effect(Without(disk, Victims(g.items[g.h].list, p)), g.items,
                    [op |-> "deleted", path |-> p])
      PROVE  StepOK
  <2>1. Working(g.items) BY <1>2, <1>5, WorkingHandle
  <2>2. Tree(Without(disk, Victims(g.items[g.h].list, p))) BY FilesOK DEF Victims
  <2> QED BY <1>5, <2>1, <2>2, EffectOK
<1> QED BY <1>1, <1>3, <1>4, <1>5, Zenon

\* A file is opened on handles that are in order.
LEMMA OpenedOK ==
  ASSUME DriveInv, NEW p \in Seq(STRING), NEW dk, Tree(dk), NEW its, Working(its), NEW result,
         OpenedAs(p, dk, its, result)
  PROVE  StepOK
<1>1. Working(GetHandle(its, p, now).items) BY WorkingHandle
<1> QED BY <1>1, EffectOK DEF OpenedAs

\* OPEN_FILE
LEMMA OpenFileOK ==
  ASSUME DriveInv, NEW cp \in ClientPaths, NEW write, OpenFile(cp, write)
  PROVE  StepOK
<1>1. PICK r : /\ r = Lookup(disk, items, cp, FALSE)
               /\ Answer(r.items) \/ OpenedAs(r.path, disk, r.items, NoResult)
  BY Zenon DEF OpenFile
<1>2. Working(r.items) /\ r.path \in Seq(STRING) BY <1>1, FirstLookup
<1>3. CASE Answer(r.items) BY <1>2, <1>3, AnswerOK
<1>4. CASE OpenedAs(r.path, disk, r.items, NoResult)
  BY <1>2, <1>4, OpenedOK DEF DriveInv
<1> QED BY <1>1, <1>3, <1>4

\* A file that is created is in a directory.
LEMMA CreatedTree ==
  ASSUME DriveInv, NEW p \in Seq(STRING), p # Root, IsDir(disk, Front(p)), CanCreate(p),
         NEW ro \in BOOLEAN
  PROVE  Tree(Created(p, ro))
<1> DEFINE x == ro /\ AttrsStored
           attrs == [dir |-> FALSE, ro |-> x]
<1>1. x \in BOOLEAN OBVIOUS
<1> HIDE DEF x
<1>2. attrs \in Attributes BY <1>1 DEF Attributes
<1>3. Created(p, ro) = Put(disk, p, attrs) BY DEF Created, x
<1> HIDE DEF attrs
<1>4. p \in DOMAIN disk => ~disk[p].dir BY DEF CanCreate
<1> QED BY <1>2, <1>3, <1>4, PutTree DEF DriveInv

\* A new file is made.
LEMMA MakeFileOK ==
  ASSUME DriveInv, NEW cp \in ClientPaths, NEW r, Working(r.items), r.path \in Seq(STRING),
         r.path # Root, IsDir(disk, Front(r.path)), CanCreate(r.path), NEW ro \in BOOLEAN,
         MakeFile(cp, r, ro)
  PROVE  StepOK
<1> DEFINE dk == Created(r.path, ro)
<1>1. Tree(dk) BY CreatedTree
<1>2. PICK again : /\ again = Lookup(dk, r.items, cp, TRUE)
                   /\ \/ OpenedAs(r.path, dk, again.items, Result(cp, r.path))
                      \/ Effect(dk, again.items, NoResult)
  BY Zenon DEF MakeFile
<1>3. Working(again.items)
  <2>1. cp \in Seq(Shorts \cup {All}) BY ClientPathOK
  <2> HIDE DEF dk
  <2> QED BY <1>1, <1>2, <2>1, WorkingLookupAny
<1> HIDE DEF dk
<1>4. CASE OpenedAs(r.path, dk, again.items, Result(cp, r.path))
  BY <1>1, <1>3, <1>4, OpenedOK
<1>5. CASE Effect(dk, again.items, NoResult)
  BY <1>1, <1>3, <1>5, EffectOK
<1> QED BY <1>2, <1>4, <1>5

\* CREATE_FILE
LEMMA CreateFileOK ==
  ASSUME DriveInv, NEW cp \in ClientPaths, NEW ro \in BOOLEAN, CreateFile(cp, ro)
  PROVE  StepOK
<1> DEFINE Ok(r) == r.ok /\ IsDir(disk, Front(r.path)) /\ CanCreate(r.path)
<1>1. PICK r : /\ r = Lookup(disk, items, cp, FALSE)
               /\ \/ Answer(r.items)
                  \/ Ok(r) /\ MakeFile(cp, r, ro)
                  \/ /\ Ok(r)
                     /\ OpenedAs(r.path, Created(r.path, ro), r.items, Result(cp, r.path))
  BY Zenon DEF CreateFile
<1>2. Working(r.items) /\ r.path \in Seq(STRING) /\ (r.ok => r.path # Root)
  BY <1>1, FirstLookup
<1>3. CASE Answer(r.items) BY <1>2, <1>3, AnswerOK
<1>4. CASE Ok(r) /\ MakeFile(cp, r, ro) BY <1>2, <1>4, MakeFileOK
<1>5. CASE Ok(r) /\ OpenedAs(r.path, Created(r.path, ro), r.items, Result(cp, r.path))
  <2>1. Tree(Created(r.path, ro)) BY <1>2, <1>5, CreatedTree
  <2> QED BY <1>2, <1>5, <2>1, OpenedOK
<1> QED BY <1>1, <1>3, <1>4, <1>5

\* A file may be made or replaced: its directory is there, and nothing forbids it.
MayCreate(r) == r.ok /\ IsDir(disk, Front(r.path)) /\ CanCreate(r.path)

\* What EXTENDED_OPEN_CREATE_FILE comes to.
LEMMA ExtendedOpenIs ==
  ASSUME NEW cp, ExtendedOpen(cp)
  PROVE  \E r, ro :
           /\ r = Lookup(disk, items, cp, FALSE) /\ ro \in NewAttrs
           /\ \/ MayCreate(r) /\ r.path \notin DOMAIN disk /\ MakeFile(cp, r, ro)
              \/ OpenedAs(r.path, disk, r.items, NoResult)
              \/ /\ MayCreate(r) /\ (AttrsStored => r.path \in DOMAIN disk)
                 /\ OpenedAs(r.path, Created(r.path, ro), r.items, Result(cp, r.path))
              \/ Answer(r.items)
<1>1. PICK r \in {Lookup(disk, items, cp, FALSE)}, ifExist \in {"open", "replace", "fail"},
           create \in BOOLEAN, write \in OpenModes, ro \in NewAttrs :
        LET p == r.path
            ok == r.ok /\ IsDir(disk, Front(p))
            notFound == AttrsStored /\ p \notin DOMAIN disk
            makes == ok /\ notFound /\ create /\ CanCreate(p)
            opens == ok /\ ~notFound /\ ifExist = "open" /\ CanOpen(p, write)
            replaces == ok /\ ~notFound /\ ifExist = "replace" /\ CanCreate(p)
        IN  \/ makes /\ MakeFile(cp, r, ro)
            \/ opens /\ OpenedAs(p, disk, r.items, NoResult)
            \/ replaces /\ OpenedAs(p, Created(p, ro), r.items, Result(cp, p))
            \/ ~makes /\ ~opens /\ ~replaces /\ Answer(r.items)
  BY DEF ExtendedOpen
<1>2. \/ MayCreate(r) /\ r.path \notin DOMAIN disk /\ MakeFile(cp, r, ro)
      \/ OpenedAs(r.path, disk, r.items, NoResult)
      \/ /\ MayCreate(r) /\ (AttrsStored => r.path \in DOMAIN disk)
         /\ OpenedAs(r.path, Created(r.path, ro), r.items, Result(cp, r.path))
      \/ Answer(r.items)
  BY <1>1, Zenon DEF MayCreate
<1>3. r = Lookup(disk, items, cp, FALSE) OBVIOUS
<1> QED BY <1>2, <1>3, Zenon

\* EXTENDED_OPEN_CREATE_FILE
LEMMA ExtendedOpenOK ==
  ASSUME DriveInv, NEW cp \in ClientPaths, ExtendedOpen(cp)
  PROVE  StepOK
<1>1. PICK r, ro :
        /\ r = Lookup(disk, items, cp, FALSE) /\ ro \in NewAttrs
        /\ \/ MayCreate(r) /\ MakeFile(cp, r, ro)
           \/ OpenedAs(r.path, disk, r.items, NoResult)
           \/ MayCreate(r) /\ OpenedAs(r.path, Created(r.path, ro), r.items, Result(cp, r.path))
           \/ Answer(r.items)
  BY ExtendedOpenIs, Zenon
<1>2. Working(r.items) /\ r.path \in Seq(STRING) /\ (r.ok => r.path # Root)
  BY <1>1, FirstLookup
<1>3. ro \in BOOLEAN BY <1>1, DriveAssumption
<1>4. CASE MayCreate(r) /\ MakeFile(cp, r, ro) BY <1>2, <1>3, <1>4, MakeFileOK DEF MayCreate
<1>5. CASE OpenedAs(r.path, disk, r.items, NoResult) BY <1>2, <1>5, OpenedOK DEF DriveInv
<1>6. CASE MayCreate(r) /\ OpenedAs(r.path, Created(r.path, ro), r.items, Result(cp, r.path))
  <2>1. Tree(Created(r.path, ro)) BY <1>2, <1>3, <1>6, CreatedTree DEF MayCreate
  <2> QED BY <1>2, <1>6, <2>1, OpenedOK
<1>7. CASE Answer(r.items) BY <1>2, <1>7, AnswerOK
<1> QED BY <1>1, <1>4, <1>5, <1>6, <1>7

\* The requests with a handle, and what they come to.
HandleRequest(h) == UseHandle(h) \/ WriteFile(h) \/ CloseFile(h)

LEMMA HandleRequestIs ==
  ASSUME NEW h, HandleRequest(h)
  PROVE  /\ h \in DOMAIN items /\ behind' = behind
         /\ \E its, result : /\ Effect(disk, its, result)
                             /\ its = items \/ its = [items EXCEPT ![h].used = now]
                             /\ result = NoResult \/ result = Written
BY Zenon DEF HandleRequest, UseHandle, WriteFile, CloseFile, Answer, UsedNow

\* READ, WRITE and the other requests with a handle
LEMMA HandleRequestOK ==
  ASSUME DriveInv, NEW h, HandleRequest(h)
  PROVE  StepOK
<1> DEFINE x == [items[h] EXCEPT !.used = now]
           used == [items EXCEPT ![h] = x]
<1>1. h \in 1 .. Len(items) /\ items[h] \in Item(now) /\ now \in Nat /\ ItemsOK(items, now)
  BY HandleRequestIs, ItemFields DEF DriveInv
<1>2. x \in Item(now) /\ x.path = items[h].path /\ x.used = now BY <1>1 DEF Item
<1>3. [items EXCEPT ![h].used = now] = used OBVIOUS
<1> HIDE DEF x
<1>4. ItemsOK(used, now) /\ Kept(items, used, now) BY <1>1, <1>2, SetItem
<1> HIDE DEF used
<1>5. PICK its, result : Effect(disk, its, result) /\ (its = items \/ its = used)
  BY <1>3, HandleRequestIs
<1>6. Working(its) BY <1>4, <1>5, WorkingStart DEF Working
<1> QED BY <1>5, <1>6, EffectOK DEF DriveInv

\* A step that leaves the disk alone, sets the handles and one search.
LEMMA SearchStepOK ==
  ASSUME DriveInv, NEW its, Working(its), NEW s, NEW x, SearchOK(x),
         items' = its, search' = [Watched(disk, its) EXCEPT ![s] = x],
         UNCHANGED <<disk, now>>
  PROVE  StepOK
<1>1. \A i \in Searches : SearchOK(search'[i])
  <2> DEFINE w == Watched(disk, its)
  <2>1. DOMAIN w = Searches /\ \A i \in Searches : SearchOK(w[i]) BY WatchedOK
  <2>2. search' = [w EXCEPT ![s] = x] OBVIOUS
  <2> HIDE DEF w
  <2> QED BY <2>1, <2>2
<1>2. Tree(disk') /\ now' \in Nat /\ ItemsOK(items', now') /\ Kept(items, items', now)
  BY DEF DriveInv, Working
<1> QED BY <1>1, <1>2 DEF StepOK, DriveInv

\* A search ends without an answer.
LEMMA SearchFailsOK ==
  ASSUME DriveInv, NEW its, Working(its), NEW s, SearchFails(s, its)
  PROVE  StepOK
<1>1. SearchOK(NoSearch) BY DEF SearchOK
<1> QED BY <1>1, SearchStepOK DEF SearchFails

\* find_file leaves the handles in order and finds a place behind nth.
LEMMA FindFileOK ==
  ASSUME DriveInv, NEW its, Working(its), NEW h \in 1 .. Len(its), NEW attr, NEW nth \in Nat
  PROVE  LET f == FindFile(its, h, attr, nth)
         IN  Working(f.items) /\ f.n \in Nat
<1> DEFINE f == FindFile(its, h, attr, nth)
           scanned == Scanned(its, h, nth)
           list == scanned[h].list
           hits == {n \in nth + 1 .. Len(list) : {list[n].kind} \ {"file"} \subseteq attr}
           m == IF nth = 0 /\ HasLabel THEN 1 ELSE 0
           nm == list[Least(hits)].name
<1>1. now \in Nat /\ ItemsOK(its, now) BY DEF DriveInv, Working
<1>2. Working(scanned)
  <2>1. HandleOK(its, Rescan(disk, its, h, now), h, its[h].path, now) BY <1>1, RescanOK
  <2>2. Working(Rescan(disk, its, h, now)) BY <2>1, WorkingOn DEF HandleOK
  <2> QED BY <2>2 DEF Scanned
<1>3. hits # {} => Least(hits) \in Nat
  <2>1. hits \in SUBSET Nat OBVIOUS
  <2> HIDE DEF hits
  <2> QED BY <2>1, LeastOf
<1>4. f = IF attr = {"vol"} THEN [items |-> its, n |-> m, name |-> NoName]
          ELSE IF hits = {} THEN [items |-> scanned, n |-> 0, name |-> NoName]
          ELSE [items |-> scanned, n |-> Least(hits), name |-> nm]
  BY Zenon DEF FindFile
<1>5. m \in Nat OBVIOUS
<1> HIDE DEF scanned, hits, m, nm, f
<1>6. CASE attr = {"vol"}
  <2>1. f = [items |-> its, n |-> m, name |-> NoName] BY <1>4, <1>6
  <2> QED BY <2>1, <1>5 DEF f
<1>7. CASE attr # {"vol"} /\ hits = {}
  <2>1. f = [items |-> scanned, n |-> 0, name |-> NoName] BY <1>4, <1>7
  <2>2. f.items = scanned /\ f.n = 0 BY <2>1
  <2> QED BY <2>2, <1>2 DEF f
<1>8. CASE attr # {"vol"} /\ hits # {}
  <2>1. f = [items |-> scanned, n |-> Least(hits), name |-> nm] BY <1>4, <1>8
  <2>2. f.items = scanned /\ f.n = Least(hits) BY <2>1
  <2> QED BY <2>2, <1>2, <1>3, <1>8 DEF f
<1> QED BY <1>6, <1>7, <1>8

\* The answer to a search.
LEMMA SearchedOK ==
  ASSUME DriveInv, NEW s, NEW sr, {"h", "nth"} \subseteq DOMAIN sr, sr.h \in 1 .. MaxHandles,
         NEW f, Working(f.items), f.n \in Nat, Searched(s, sr, f)
  PROVE  StepOK
<1> DEFINE y == [sr EXCEPT !.nth = f.n, !.due = @ \ {f.name}]
           x == IF f.n = 0 THEN NoSearch ELSE y
<1>1. DOMAIN y = DOMAIN sr /\ y.h = sr.h /\ y.nth = f.n OBVIOUS
<1> HIDE DEF y
<1>2. SearchOK(x)
  <2>1. CASE f.n = 0 BY <2>1 DEF SearchOK
  <2>2. CASE f.n # 0
    <3>1. x = y BY <2>2
    <3> HIDE DEF x
    <3> QED BY <2>2, <3>1, <1>1 DEF SearchOK
  <2> QED BY <2>1, <2>2
<1>3. /\ items' = f.items /\ search' = [Watched(disk, f.items) EXCEPT ![s] = x]
      /\ UNCHANGED <<disk, now>>
  BY DEF Searched, y
<1> HIDE DEF x
<1> QED BY <1>2, <1>3, SearchStepOK

\* FIND_FIRST
LEMMA FindFirstOK ==
  ASSUME DriveInv, NEW s, NEW dir \in ClientDirs, NEW attr, FindFirst(s, dir, attr)
  PROVE  StepOK
<1> DEFINE New(g, p) == [h |-> g.h, attr |-> attr, nth |-> 0, dir |-> p,
                         due |-> Due(p, attr), clean |-> TRUE]
<1>1. PICK r : /\ r = Lookup(disk, items, Append(dir, All), FALSE)
               /\ \/ SearchFails(s, r.items)
                  \/ /\ r.ok
                     /\ \E p \in {Front(r.path)}, g \in {GetHandle(r.items, Front(r.path), now)} :
                          Searched(s, New(g, p), FindFile(g.items, g.h, attr, 0))
  BY Zenon DEF FindFirst
<1>2. Working(r.items) /\ (r.ok => Front(r.path) \in Seq(STRING)) BY <1>1, PatternLookup
<1>3. CASE SearchFails(s, r.items) BY <1>2, <1>3, SearchFailsOK
<1>4. ASSUME r.ok, NEW p, p = Front(r.path), NEW g, g = GetHandle(r.items, p, now),
             Searched(s, New(g, p), FindFile(g.items, g.h, attr, 0))
      PROVE  StepOK
  <2> DEFINE f == FindFile(g.items, g.h, attr, 0)
             sr == New(g, p)
  <2>1. Working(g.items) /\ g.h \in 1 .. Len(g.items) BY <1>2, <1>4, WorkingHandle
  <2>2. Working(f.items) /\ f.n \in Nat BY <2>1, FindFileOK
  <2>3. {"h", "nth"} \subseteq DOMAIN sr /\ sr.h = g.h OBVIOUS
  <2>4. g.h \in 1 .. MaxHandles
    <3>1. Len(g.items) \in Nat /\ Len(g.items) <= MaxHandles
      BY <2>1, ItemFields DEF Working, DriveInv
    <3>2. MaxHandles \in Nat BY NamesAssumption
    <3> QED BY <2>1, <3>1, <3>2
  <2>5. Searched(s, sr, f) BY <1>4
  <2> HIDE DEF sr, f
  <2> QED BY <2>2, <2>3, <2>4, <2>5, SearchedOK
<1> HIDE DEF New
<1> QED BY <1>1, <1>3, <1>4, Zenon

\* FIND_NEXT
LEMMA FindNextOK ==
  ASSUME DriveInv, NEW s \in Searches, FindNext(s)
  PROVE  StepOK
<1> DEFINE sr == search[s]
           f == FindFile(items, sr.h, sr.attr, sr.nth)
<1>1. /\ {"h", "nth"} \subseteq DOMAIN sr /\ sr.h \in 1 .. MaxHandles /\ sr.nth \in Nat
  BY DEF FindNext, DriveInv, SearchOK
<1>2. Working(items) BY WorkingStart
<1>3. CASE SearchFails(s, items) BY <1>2, <1>3, SearchFailsOK
<1>4. CASE sr.h \in DOMAIN items /\ Searched(s, sr, f)
  <2>1. sr.h \in 1 .. Len(items) BY <1>4, ItemFields DEF DriveInv
  <2>2. Working(f.items) /\ f.n \in Nat BY <1>1, <1>2, <2>1, FindFileOK
  <2>3. Searched(s, sr, f) BY <1>4
  <2> HIDE DEF f
  <2> QED BY <1>1, <2>2, <2>3, SearchedOK
<1> QED BY <1>3, <1>4 DEF FindNext

\* The host creates or deletes a file.
LEMMA HostChangeOK ==
  ASSUME DriveInv, NEW p \in HostPaths, HostChange(p)
  PROVE  StepOK
<1> DEFINE attrs == [dir |-> FALSE, ro |-> FALSE]
           dk == IF p \in DOMAIN disk THEN Without(disk, {p}) ELSE Put(disk, p, attrs)
<1>1. IsDir(disk, Front(p)) /\ ~IsDir(disk, p) /\ Effect(dk, items, NoResult)
  BY DEF HostChange
<1>2. p \in Seq(STRING) /\ p # Root
  <2>1. Names \subseteq STRING
    <3>1. \A i \in 1 .. Len(Order) : Order[i] \in STRING BY NamesAssumption, ElementOfSeq
    <3>2. DOMAIN Order = 1 .. Len(Order) BY NamesAssumption, LenProperties
    <3> QED BY <3>1, <3>2 DEF Names
  <2>2. p \in Seq(Names) /\ p # Root BY DriveAssumption
  <2> QED BY <2>1, <2>2, SeqMonotonic
<1>3. Tree(dk)
  <2>1. CASE p \in DOMAIN disk
    <3>1. IsFile(p) BY <1>1, <2>1 DEF IsDir, IsFile
    <3>2. Tree(Without(disk, {p})) BY <3>1, FilesOK
    <3> QED BY <2>1, <3>2
  <2>2. CASE p \notin DOMAIN disk
    <3>1. attrs \in Attributes BY DEF Attributes
    <3> HIDE DEF attrs
    <3>2. Tree(Put(disk, p, attrs)) BY <1>1, <1>2, <2>2, <3>1, PutTree DEF DriveInv
    <3> QED BY <2>2, <3>2
  <2> QED BY <2>1, <2>2
<1> HIDE DEF dk
<1> QED BY <1>1, <1>3, WorkingStart, EffectOK

\* Time passes.
LEMMA TickOK ==
  ASSUME DriveInv, Tick
  PROVE  StepOK
<1>1. /\ now \in Nat /\ now' = now + 1 /\ items' = items /\ disk' = disk /\ search' = search
  BY DEF Tick, DriveInv
<1>2. ItemsOK(items, now) BY DEF DriveInv
<1>3. ItemsOK(items, now + 1)
  <2>1. \A x \in Item(now) : x \in Item(now + 1) BY <1>1 DEF Item
  <2>2. items \in Seq(Item(now)) BY <1>2 DEF ItemsOK
  <2>3. items \in Seq(Item(now + 1)) BY <2>1, <2>2, SeqMonotonic
  <2> QED BY <1>2, <2>3 DEF ItemsOK
<1>4. Kept(items, items, now) BY <1>1, <1>2, KeptSelf
<1>5. now' \in Nat BY <1>1
<1>6. ItemsOK(items', now') BY <1>1, <1>3
<1> QED BY <1>1, <1>4, <1>5, <1>6 DEF StepOK, DriveInv

\* Every step keeps the invariant.
LEMMA DriveStep ==
  ASSUME DriveInv, Next
  PROVE  StepOK
<1>1. NewFiles \subseteq ClientPaths /\ NewDirs \subseteq ClientPaths /\ NewAttrs \subseteq BOOLEAN
  BY DriveAssumption
<1>2. CASE ClientRequest
  <2>1. CASE \E cp \in NewDirs : MakeDir(cp) BY <2>1, <1>1, MakeDirOK
  <2>2. CASE \E cp \in ClientPaths : RemoveDir(cp) BY <2>2, RemoveDirOK
  <2>3. CASE \E dir \in ClientDirs : ChangeDir(dir)
    <3>1. PICK dir \in ClientDirs : ChangeDir(dir) BY <2>3
    <3>2. dir \in Seq(Shorts \cup {All}) BY ClientPathOK
    <3>3. Working(items) /\ Tree(disk) BY WorkingStart DEF DriveInv
    <3>4. Working(Lookup(disk, items, dir, FALSE).items) BY <3>2, <3>3, WorkingLookupAny
    <3> QED BY <3>1, <3>4, AnswerOK DEF ChangeDir
  <2>4. CASE \E cp \in ClientPaths : GetAttrs(cp)
    <3>1. PICK cp \in ClientPaths : GetAttrs(cp) BY <2>4
    <3>2. Working(Lookup(disk, items, cp, FALSE).items) BY FirstLookup
    <3> QED BY <3>1, <3>2, AnswerOK DEF GetAttrs
  <2>5. CASE \E cp \in ClientPaths, ro \in NewAttrs : SetAttrs(cp, ro)
    BY <2>5, <1>1, SetAttrsOK
  <2>6. CASE \E cp1 \in ClientPaths, cp2 \in NewFiles \cup NewDirs : Rename(cp1, cp2)
    BY <2>6, <1>1, RenameOK
  <2>7. CASE \E cp \in ClientPaths : DeleteFile(cp) BY <2>7, DeleteFileOK
  <2>8. CASE \E dir \in ClientDirs : DeleteMatching(dir) BY <2>8, DeleteMatchingOK
  <2>9. CASE \E cp \in ClientPaths, write \in OpenModes : OpenFile(cp, write)
    BY <2>9, OpenFileOK
  <2>10. CASE \E cp \in NewFiles, ro \in NewAttrs : CreateFile(cp, ro)
    BY <2>10, <1>1, CreateFileOK
  <2>11. CASE \E cp \in NewFiles : ExtendedOpen(cp) BY <2>11, <1>1, ExtendedOpenOK
  <2>12. CASE \E h \in DOMAIN items : UseHandle(h) \/ WriteFile(h) \/ CloseFile(h)
    BY <2>12, HandleRequestOK DEF HandleRequest
  <2>13. CASE \E s \in Searches, dir \in ClientDirs, attr \in AttrSets : FindFirst(s, dir, attr)
    BY <2>13, FindFirstOK
  <2>14. CASE \E s \in Searches : FindNext(s) BY <2>14, FindNextOK
  <2>15. CASE \E s \in Searches : EndSearch(s)
    BY <2>15, WorkingStart, SearchFailsOK DEF EndSearch
  <2> QED BY <1>2, <2>1, <2>2, <2>3, <2>4, <2>5, <2>6, <2>7, <2>8, <2>9, <2>10, <2>11, <2>12,
             <2>13, <2>14, <2>15 DEF ClientRequest
<1>3. CASE \E p \in HostPaths : HostChange(p) BY <1>3, HostChangeOK
<1>4. CASE Tick BY <1>4, TickOK
<1>5. CASE Restart BY <1>5, AnswerOK DEF Restart
<1> QED BY <1>2, <1>3, <1>4, <1>5 DEF Next

\* The invariant holds always.
LEMMA DriveInvariant == Spec => []DriveInv
<1>1. Init => DriveInv
  <2> SUFFICES ASSUME Init PROVE DriveInv OBVIOUS
  <2>1. Tree(disk) BY DriveAssumption DEF Init
  <2>2. ItemsOK(items, now)
    <3>1. <<>> \in Seq(Item(0)) /\ Len(<<>>) = 0 OBVIOUS
    <3> QED BY <3>1, NamesAssumption DEF Init, ItemsOK
  <2>3. \A s \in Searches : SearchOK(search[s]) BY DEF Init, SearchOK
  <2>4. now \in Nat BY DEF Init
  <2> QED BY <2>1, <2>2, <2>3, <2>4 DEF DriveInv
<1>2. DriveInv /\ [Next]_vars => DriveInv'
  <2>1. ASSUME DriveInv, Next PROVE DriveInv' BY <2>1, DriveStep DEF StepOK
  <2>2. ASSUME DriveInv, UNCHANGED vars PROVE DriveInv'
    BY <2>2 DEF vars, DriveInv
  <2> QED BY <2>1, <2>2
<1> QED BY <1>1, <1>2, PTL DEF Spec

-----------------------------------------------------------------------------
(* The theorems *)

\* The shared directory stays a tree whatever is made, renamed and deleted by
\* clients and by the host; no two handles have the same path, no list is
\* longer than a list may be, and every search under way has a handle and a
\* place in the list.
THEOREM DriveTypeOK == Spec => []TypeOK
<1>1. DriveInv => TypeOK
  <2> SUFFICES ASSUME DriveInv PROVE TypeOK OBVIOUS
  <2>1. Tree(disk) /\ now \in Nat /\ ItemsOK(items, now) BY DEF DriveInv
  <2>2. DOMAIN items = 1 .. Len(items) /\ Len(items) <= MaxHandles BY <2>1, ItemFields
  <2>3. ASSUME NEW h \in DOMAIN items
        PROVE  /\ items[h].used \in 0 .. now
               /\ Len(items[h].list) <= MaxEntries
               /\ \A i \in DOMAIN items[h].list : items[h].list[i] \in Entry
               /\ \A g \in DOMAIN items : items[g].path = items[h].path => g = h
    <3>1. items[h].used \in Nat /\ items[h].used <= now /\ items[h].list \in Lists
      BY <2>1, <2>2, ItemFields
    <3>2. items[h].list \in Seq(Entry) /\ Len(items[h].list) <= MaxEntries BY <3>1 DEF Lists
    <3>3. \A i \in DOMAIN items[h].list : items[h].list[i] \in Entry
      BY <3>2, LenProperties, ElementOfSeq
    <3>4. \A g \in DOMAIN items : items[g].path = items[h].path => g = h
      BY <2>1, <2>2 DEF ItemsOK
    <3>5. items[h].used \in 0 .. now BY <2>1, <3>1
    <3> QED BY <3>2, <3>3, <3>4, <3>5
  <2>4. \A s \in Searches :
          search[s] # NoSearch => search[s].h \in 1 .. MaxHandles /\ search[s].nth > 0
    BY DEF DriveInv, SearchOK
  <2> QED BY <2>1, <2>2, <2>3, <2>4 DEF TypeOK
<1> QED BY <1>1, DriveInvariant, PTL

\* A handle, which a client keeps for an open file or a search, is given to
\* another path only when all handles are taken, and only if each of the others
\* was used later, before the request or by it: get_handle takes the oldest, in
\* every one of the lookups a request is made of.
THEOREM HandleKeptHolds == Spec => HandleKept
<1> DEFINE A == \A h \in DOMAIN items \cap DOMAIN items' :
                  items'[h].path # items[h].path =>
                    /\ Len(items') = MaxHandles
                    /\ \A g \in DOMAIN items :
                         items'[g].path = items[g].path =>
                           items[h].used <= items[g].used \/ items'[g].used = now
<1>1. DriveInv /\ [Next]_vars => [A]_vars
  <2> SUFFICES ASSUME DriveInv, Next PROVE A BY DEF vars
  <2>1. items' = <<>> \/ Kept(items, items', now) BY DriveStep DEF StepOK
  <2>2. DOMAIN items = 1 .. Len(items) BY ItemFields DEF DriveInv
  <2>3. CASE items' = <<>> BY <2>3
  <2>4. CASE Kept(items, items', now) BY <2>2, <2>4 DEF Kept
  <2> QED BY <2>1, <2>3, <2>4
<1> QED BY <1>1, DriveInvariant, PTL DEF Spec, HandleKept

-----------------------------------------------------------------------------
(* What a directory list holds *)

\* No list is cut: MAX_ENTRIES leaves room for all names there are.
FewNames == Len(Order) + 2 <= MaxEntries

\* There is a number for every name.
EnoughNumbers == Len(Order) <= MaxSuffix

\* The name n is its own short name, and that of nobody else.
Lone(n) ==
  /\ n \notin Shortened
  /\ \A m \in Names : /\ m # n => Plain[m] # Plain[n]
                      /\ \A k \in 1 .. MaxSuffix : Numbered(m, k) # Plain[n]

(***************************************************************************)
(* The list l holds the first k names of Order that are in the directory,  *)
(* each once and with its kind; if there is a number for every name, each  *)
(* with a short name that no entry in front of it has; a lone name with    *)
(* its own.                                                                *)
(***************************************************************************)
HoldsOnly(dk, p, k, l) ==
  \A i \in 1 .. Len(l) :
    l[i].name \in Names =>
      \E m \in 1 .. k : /\ m \in There(dk, p) /\ l[i].name = Order[m]
                        /\ l[i].kind = Kind(dk, Append(p, Order[m]))
HoldsAll(dk, p, k, l) ==
  \A m \in 1 .. k : m \in There(dk, p) => \E i \in 1 .. Len(l) : l[i].name = Order[m]
HoldsOnce(l) ==
  \A i, j \in 1 .. Len(l) : l[i].name = l[j].name /\ l[i].name \in Names => i = j
ShortsDiffer(l) ==
  \A i, j \in 1 .. Len(l) :
    i < j /\ l[j].name \in Names /\ l[i].kind # "vol" => l[i].short # l[j].short
LoneKept(l) ==
  \A i \in 1 .. Len(l) :
    l[i].name \in Names /\ Lone(l[i].name) => l[i].short = Plain[l[i].name]
Holds(dk, p, k, l) ==
  /\ l \in Lists /\ Len(l) <= k + 2
  /\ HoldsOnly(dk, p, k, l) /\ HoldsAll(dk, p, k, l) /\ HoldsOnce(l) /\ LoneKept(l)
  /\ EnoughNumbers => ShortsDiffer(l)

\* The length of a list and its entries.
LEMMA ListFields ==
  ASSUME NEW l \in Lists
  PROVE  /\ l \in Seq(Entry) /\ Len(l) \in Nat /\ DOMAIN l = 1 .. Len(l)
         /\ \A i \in 1 .. Len(l) : l[i] \in Entry
BY LenProperties, ElementOfSeq DEF Lists

\* The names of Order are the host names, each at one place.
LEMMA OrderIs ==
  /\ Len(Order) \in Nat /\ DOMAIN Order = 1 .. Len(Order)
  /\ \A k \in 1 .. Len(Order) : Order[k] \in Names
  /\ \A n \in Names : \E k \in 1 .. Len(Order) : n = Order[k]
  /\ \A i, j \in 1 .. Len(Order) : Order[i] = Order[j] => i = j
<1>1. Len(Order) \in Nat /\ DOMAIN Order = 1 .. Len(Order) BY NamesAssumption, LenProperties
<1> QED BY <1>1, NamesAssumption DEF Names

\* A short name in use is that of an entry for a host name.
LEMMA UsedIs ==
  ASSUME NEW l \in Lists, NEW s
  PROVE  s \in UsedNames(l) <=> \E i \in 1 .. Len(l) : l[i].name \in Names /\ l[i].short = s
<1>1. DOMAIN l = 1 .. Len(l) /\ \A i \in 1 .. Len(l) : l[i] \in Entry BY ListFields
<1>2. \A i \in 1 .. Len(l) : l[i].name \in Names \cup {NoName, ".", ".."} BY <1>1, EntryIs
<1>3. \A i \in 1 .. Len(l) : l[i].name \in Names <=> l[i].name \notin {NoName, ".", ".."}
  BY <1>2, NamesAssumption
<1> QED BY <1>1, <1>3 DEF UsedNames

\* With a number for every name, the next name gets one that is not in use.
LEMMA NumberIsFree ==
  ASSUME NEW dk, NEW p, NEW k \in Nat, NEW l, Holds(dk, p, k, l), NEW n \in Names,
         k < MaxSuffix
  PROVE  FileNameTo83(n, UsedNames(l)) \notin UsedNames(l)
<1> DEFINE used == UsedNames(l)
           free == {j \in 1 .. MaxSuffix : Numbered(n, j) \notin used}
<1>1. MaxSuffix \in Nat /\ l \in Lists BY NamesAssumption DEF Holds
<1>2. free # {}
  <2> SUFFICES ASSUME free = {} PROVE FALSE OBVIOUS
  <2> DEFINE Has(j, m) == \E i \in 1 .. Len(l) : /\ l[i].name \in Names /\ l[i].name = Order[m]
                                                  /\ l[i].short = Numbered(n, j)
             f == [j \in 1 .. MaxSuffix |-> CHOOSE m \in 1 .. k : Has(j, m)]
  <2>1. ASSUME NEW j \in 1 .. MaxSuffix PROVE \E m \in 1 .. k : Has(j, m)
    <3>1. Numbered(n, j) \in used OBVIOUS
    <3> HIDE DEF used
    <3>2. PICK i \in 1 .. Len(l) : l[i].name \in Names /\ l[i].short = Numbered(n, j)
      BY <3>1, <1>1, UsedIs DEF used
    <3>3. PICK m \in 1 .. k : l[i].name = Order[m] BY <3>2 DEF Holds, HoldsOnly
    <3> QED BY <3>2, <3>3
  <2>2. \A j \in 1 .. MaxSuffix : f[j] \in 1 .. k /\ Has(j, f[j])
    <3> HIDE DEF Has
    <3> QED BY <2>1
  <2>3. f \in [1 .. MaxSuffix -> 1 .. k]
    <3> HIDE DEF Has
    <3> QED BY <2>1
  <2>4. /\ IsFiniteSet(1 .. MaxSuffix) /\ IsFiniteSet(1 .. k)
        /\ Cardinality(1 .. k) < Cardinality(1 .. MaxSuffix)
    <3>1. /\ IsFiniteSet(1 .. MaxSuffix)
          /\ Cardinality(1 .. MaxSuffix) = IF 1 > MaxSuffix THEN 0 ELSE MaxSuffix - 1 + 1
      BY <1>1, FS_Interval
    <3>2. /\ IsFiniteSet(1 .. k)
          /\ Cardinality(1 .. k) = IF 1 > k THEN 0 ELSE k - 1 + 1
      BY FS_Interval
    <3> QED BY <1>1, <3>1, <3>2
  <2> HIDE DEF f
  <2>5. PICK x, y \in 1 .. MaxSuffix : x # y /\ f[x] = f[y]
    <3> DEFINE S == 1 .. MaxSuffix
               T == 1 .. k
    <3> HIDE DEF S, T
    <3>1. IsFiniteSet(S) /\ IsFiniteSet(T) /\ Cardinality(T) < Cardinality(S) /\ f \in [S -> T]
      BY <2>3, <2>4 DEF S, T
    <3>2. \E x, y \in S : x # y /\ f[x] = f[y]
      <4> HIDE DEF f
      <4> QED BY ONLY <3>1, FS_PigeonHole, SMTT(30)
    <3> QED BY <3>2 DEF S
  <2>6. PICK i \in 1 .. Len(l) : l[i].name \in Names /\ l[i].name = Order[f[x]]
                                /\ l[i].short = Numbered(n, x)
    BY <2>2
  <2>7. PICK j \in 1 .. Len(l) : l[j].name \in Names /\ l[j].name = Order[f[y]]
                                /\ l[j].short = Numbered(n, y)
    BY <2>2
  <2>8. i = j BY <2>5, <2>6, <2>7 DEF Holds, HoldsOnce
  <2>9. Numbered(n, x) = Numbered(n, y) BY <2>6, <2>7, <2>8
  <2> QED BY <2>5, <2>9 DEF Numbered
<1>3. Least(free) \in free
  <2>1. free \in SUBSET Nat OBVIOUS
  <2> HIDE DEF free
  <2> QED BY <1>2, <2>1, LeastOf
<1>4. Numbered(n, Least(free)) \notin used
  <2> HIDE DEF used
  <2> QED BY <1>3
<1>5. FileNameTo83(n, used) = IF n \notin Shortened /\ Plain[n] \notin used THEN Plain[n]
                              ELSE Numbered(n, Least(free))
  BY <1>2 DEF FileNameTo83
<1> HIDE DEF used, free
<1> QED BY <1>4, <1>5 DEF used

\* The next name of Order.
LEMMA HoldsNext ==
  ASSUME FewNames, NEW dk, NEW p, NEW k \in 1 .. Len(Order), NEW l, Holds(dk, p, k - 1, l)
  PROVE  Holds(dk, p, k, Extended(dk, p, k, l))
<1> DEFINE n == Order[k]
           x == NewEntry(dk, p, k, l)
           y == Append(l, x)
<1>1. Len(Order) \in Nat /\ k \in Nat /\ k - 1 \in Nat /\ n \in Names BY OrderIs
<1>2. /\ l \in Lists /\ Len(l) <= k - 1 + 2 /\ HoldsOnly(dk, p, k - 1, l)
      /\ HoldsAll(dk, p, k - 1, l) /\ HoldsOnce(l) /\ LoneKept(l)
      /\ EnoughNumbers => ShortsDiffer(l)
  BY DEF Holds
<1>3. Len(l) \in Nat /\ l \in Seq(Entry) /\ \A i \in 1 .. Len(l) : l[i] \in Entry
  BY <1>2, ListFields
<1>4. MaxEntries \in Nat /\ Len(l) # MaxEntries /\ Len(l) < MaxEntries
  BY <1>1, <1>2, <1>3, NamesAssumption DEF FewNames
<1>5. \A m \in 1 .. k : m \in 1 .. k - 1 \/ m = k BY <1>1
<1>6. \A m \in 1 .. k - 1 : m \in 1 .. k /\ m \in 1 .. Len(Order) /\ m # k BY <1>1
<1>7. CASE k \notin There(dk, p)
  <2>1. Extended(dk, p, k, l) = l BY <1>7 DEF Extended
  <2>2. Len(l) <= k + 2 BY <1>1, <1>2, <1>3
  <2>3. HoldsOnly(dk, p, k, l) BY <1>2, <1>6 DEF HoldsOnly
  <2>4. HoldsAll(dk, p, k, l) BY <1>2, <1>5, <1>7 DEF HoldsAll
  <2> QED BY <2>1, <2>2, <2>3, <2>4, <1>2 DEF Holds
<1>8. CASE k \in There(dk, p)
  <2>1. Extended(dk, p, k, l) = y BY <1>4, <1>8 DEF Extended
  <2>2. x \in Entry /\ x.name = n /\ x.kind = Kind(dk, Append(p, n))
        /\ x.short = FileNameTo83(n, UsedNames(l))
    BY <1>2, ExtendedType DEF NewEntry
  <2>3. x.kind # "vol" BY <2>2 DEF Kind
  <2> HIDE DEF x, n
  <2>4. /\ y \in Seq(Entry) /\ Len(y) = Len(l) + 1 /\ y[Len(l) + 1] = x
        /\ \A i \in 1 .. Len(l) : y[i] = l[i]
    BY <1>3, <2>2, AppendProperties
  <2> HIDE DEF y
  <2>5. \A i \in 1 .. Len(y) : i \in 1 .. Len(l) \/ i = Len(l) + 1 BY <1>3, <2>4
  <2>6. y \in Lists /\ Len(y) <= k + 2
    <3>1. Len(l) + 1 <= MaxEntries /\ Len(l) + 1 <= k + 2 BY <1>1, <1>2, <1>3, <1>4
    <3> QED BY <3>1, <2>4 DEF Lists
  <2>7. HoldsOnly(dk, p, k, y)
    <3>1. k \in 1 .. k BY <1>1
    <3> SUFFICES ASSUME NEW i \in 1 .. Len(y), y[i].name \in Names
                 PROVE  \E m \in 1 .. k : /\ m \in There(dk, p) /\ y[i].name = Order[m]
                                          /\ y[i].kind = Kind(dk, Append(p, Order[m]))
      BY DEF HoldsOnly
    <3>2. CASE i = Len(l) + 1 BY <3>1, <3>2, <2>2, <2>4, <1>8 DEF n
    <3>3. CASE i \in 1 .. Len(l)
      <4>1. y[i] = l[i] BY <3>3, <2>4
      <4>2. PICK m \in 1 .. k - 1 : /\ m \in There(dk, p) /\ l[i].name = Order[m]
                                   /\ l[i].kind = Kind(dk, Append(p, Order[m]))
        BY <3>3, <4>1, <1>2 DEF HoldsOnly
      <4> QED BY <4>1, <4>2, <1>6
    <3> QED BY <3>2, <3>3, <2>5
  <2>8. HoldsAll(dk, p, k, y)
    <3> SUFFICES ASSUME NEW m \in 1 .. k, m \in There(dk, p)
                 PROVE  \E i \in 1 .. Len(y) : y[i].name = Order[m]
      BY DEF HoldsAll
    <3>1. Len(l) + 1 \in 1 .. Len(y) /\ \A i \in 1 .. Len(l) : i \in 1 .. Len(y)
      BY <1>3, <2>4
    <3>2. CASE m = k BY <3>1, <3>2, <2>2, <2>4 DEF n
    <3>3. CASE m \in 1 .. k - 1
      <4>1. PICK i \in 1 .. Len(l) : l[i].name = Order[m] BY <3>3, <1>2 DEF HoldsAll
      <4> QED BY <4>1, <3>1, <2>4
    <3> QED BY <3>2, <3>3, <1>5
  <2>9. ASSUME NEW i \in 1 .. Len(l) PROVE l[i].name # n
    <3> SUFFICES ASSUME l[i].name = n PROVE FALSE OBVIOUS
    <3>1. PICK m \in 1 .. k - 1 : l[i].name = Order[m] BY <1>1, <1>2 DEF HoldsOnly, n
    <3>2. m = k BY <3>1, <1>6, OrderIs DEF n
    <3> QED BY <3>2, <1>6
  <2>10. HoldsOnce(y)
    <3> SUFFICES ASSUME NEW i \in 1 .. Len(y), NEW j \in 1 .. Len(y),
                        y[i].name = y[j].name, y[i].name \in Names
                 PROVE  i = j
      BY DEF HoldsOnce
    <3>1. CASE i \in 1 .. Len(l) /\ j \in 1 .. Len(l) BY <3>1, <2>4, <1>2 DEF HoldsOnce
    <3>2. CASE i = Len(l) + 1 /\ j \in 1 .. Len(l) BY <3>2, <2>2, <2>4, <2>9
    <3>3. CASE i \in 1 .. Len(l) /\ j = Len(l) + 1 BY <3>3, <2>2, <2>4, <2>9
    <3> QED BY <3>1, <3>2, <3>3, <2>5
  <2>11. LoneKept(y)
    <3> SUFFICES ASSUME NEW i \in 1 .. Len(y), y[i].name \in Names, Lone(y[i].name)
                 PROVE  y[i].short = Plain[y[i].name]
      BY DEF LoneKept
    <3>1. CASE i \in 1 .. Len(l) BY <3>1, <2>4, <1>2 DEF LoneKept
    <3>2. CASE i = Len(l) + 1
      <4>1. y[i] = x /\ Lone(n) BY <3>2, <2>2, <2>4
      <4>2. Plain[n] \notin UsedNames(l)
        <5> SUFFICES ASSUME Plain[n] \in UsedNames(l) PROVE FALSE OBVIOUS
        <5>1. PICK j \in 1 .. Len(l) : l[j].name \in Names /\ l[j].short = Plain[n]
          BY <1>2, UsedIs
        <5>2. l[j].short \in ShortsOf(l[j].name) BY <5>1, <1>3, EntryIs
        <5>3. l[j].name # n BY <2>9
        <5> QED BY <4>1, <5>1, <5>2, <5>3 DEF Lone, ShortsOf
      <4>3. n \notin Shortened BY <4>1 DEF Lone
      <4> QED BY <4>1, <4>2, <4>3, <2>2 DEF FileNameTo83
    <3> QED BY <3>1, <3>2, <2>5
  <2>12. EnoughNumbers => ShortsDiffer(y)
    <3> SUFFICES ASSUME EnoughNumbers, NEW i \in 1 .. Len(y), NEW j \in 1 .. Len(y), i < j,
                        y[j].name \in Names, y[i].kind # "vol"
                 PROVE  y[i].short # y[j].short
      BY DEF ShortsDiffer
    <3>1. i \in 1 .. Len(l)
      <4>1. \A m \in 1 .. Len(y) : m < Len(l) + 2 /\ m \in Nat BY <1>3, <2>4
      <4> QED BY <4>1, <2>5, <1>3
    <3>2. CASE j \in 1 .. Len(l) BY <3>1, <3>2, <1>2, <2>4 DEF ShortsDiffer
    <3>3. CASE j = Len(l) + 1
      <4>1. y[j] = x /\ y[i] = l[i] BY <3>1, <3>3, <2>4
      <4>2. MaxSuffix \in Nat /\ k - 1 < MaxSuffix
        BY <1>1, NamesAssumption DEF EnoughNumbers
      <4>3. x.short \notin UsedNames(l) BY <4>2, <1>1, <2>2, NumberIsFree
      <4>4. CASE l[i].name \in Names
        <5>1. l[i].short \in UsedNames(l) BY <4>4, <3>1, <1>2, UsedIs
        <5> QED BY <4>1, <4>3, <5>1
      <4>5. CASE l[i].name \notin Names
        <5>1. l[i].short \in {<<".", 0>>, <<"..", 0>>} BY <4>1, <4>5, <3>1, <1>3, EntryIs
        <5>2. x.short \in ShortsOf(n) BY <1>1, <2>2, EntryIs
        <5>3. Plain[n] \notin {<<".", 0>>, <<"..", 0>>} BY <1>1, NamesAssumption
        <5>4. \A m \in 1 .. MaxSuffix : Numbered(n, m) \notin {<<".", 0>>, <<"..", 0>>}
          BY DEF Numbered
        <5> QED BY <4>1, <5>1, <5>2, <5>3, <5>4 DEF ShortsOf
      <4> QED BY <4>4, <4>5
    <3> QED BY <3>2, <3>3, <2>5
  <2> QED BY <2>1, <2>6, <2>7, <2>8, <2>10, <2>11, <2>12 DEF Holds
<1> QED BY <1>7, <1>8

\* The names of the disk are among those of Order.
Named(dk) == \A q \in DOMAIN dk : Last(q) \in Names

\* The two ends of a path put together.
LEMMA AppendIs ==
  ASSUME NEW p \in Seq(STRING), NEW x \in STRING
  PROVE  /\ Append(p, x) \in Seq(STRING) /\ Append(p, x) # Root
         /\ Front(Append(p, x)) = p /\ Last(Append(p, x)) = x
         /\ Len(Append(p, x)) = Len(p) + 1
<1> DEFINE q == Append(p, x)
<1>1. Len(p) \in Nat BY LenProperties
<1>2. /\ q \in Seq(STRING) /\ Len(q) = Len(p) + 1 /\ q[Len(p) + 1] = x
      /\ \A i \in 1 .. Len(p) : q[i] = p[i]
  <2>1. q \in Seq(STRING) BY AppendProperties
  <2>2. Len(q) = Len(p) + 1 BY AppendProperties
  <2>3. q[Len(p) + 1] = x BY AppendProperties
  <2>4. \A i \in 1 .. Len(p) : q[i] = p[i] BY AppendProperties
  <2> QED BY <2>1, <2>2, <2>3, <2>4
<1> HIDE DEF q
<1>3. q # Root
  <2>1. Len(q) # 0 BY <1>1, <1>2
  <2> QED BY <2>1 DEF Root
<1>4. /\ Front(q) \in Seq(STRING) /\ Len(Front(q)) = Len(q) - 1
      /\ \A i \in 1 .. Len(q) - 1 : Front(q)[i] = q[i]
  BY <1>2, <1>3, FrontOf
<1>5. Len(q) - 1 = Len(p) BY <1>1, <1>2
<1>6. Front(q) = p BY <1>2, <1>4, <1>5, SeqEqual
<1>7. Last(q) = x BY <1>2 DEF Last
<1> QED BY <1>2, <1>3, <1>6, <1>7 DEF q

\* A path is its directory and its name.
LEMMA PathIs ==
  ASSUME NEW q \in Seq(STRING), q # Root
  PROVE  /\ Front(q) \in Seq(STRING) /\ Last(q) \in STRING
         /\ Append(Front(q), Last(q)) = q
<1>1. /\ Len(q) \in Nat /\ Len(q) >= 1
      /\ Front(q) \in Seq(STRING) /\ Len(Front(q)) = Len(q) - 1
      /\ \A i \in 1 .. Len(q) - 1 : Front(q)[i] = q[i]
  BY FrontOf
<1>2. Last(q) = q[Len(q)] /\ Last(q) \in STRING
  <2>1. Len(q) \in 1 .. Len(q) BY <1>1
  <2> QED BY <2>1, ElementOfSeq DEF Last
<1> DEFINE a == Append(Front(q), Last(q))
<1>3. /\ a \in Seq(STRING) /\ Len(a) = Len(Front(q)) + 1
      /\ a[Len(Front(q)) + 1] = Last(q) /\ \A i \in 1 .. Len(Front(q)) : a[i] = Front(q)[i]
  BY <1>1, <1>2, AppendProperties
<1> HIDE DEF a
<1>4. Len(a) = Len(q) BY <1>1, <1>3
<1>5. ASSUME NEW i \in 1 .. Len(q) PROVE a[i] = q[i]
  <2>1. CASE i = Len(q)
    <3>1. Len(Front(q)) + 1 = Len(q) BY <1>1
    <3> QED BY <2>1, <3>1, <1>2, <1>3
  <2>2. CASE i # Len(q)
    <3>1. i \in 1 .. Len(q) - 1 /\ i \in 1 .. Len(Front(q)) BY <2>2, <1>1
    <3> QED BY <3>1, <1>1, <1>3
  <2> QED BY <2>1, <2>2
<1>6. a = q BY <1>3, <1>4, <1>5, SeqEqual
<1> QED BY <1>1, <1>2, <1>6 DEF a

\* Host names are strings.
LEMMA NamesAreStrings == Names \subseteq STRING
<1>1. \A i \in 1 .. Len(Order) : Order[i] \in STRING BY NamesAssumption, ElementOfSeq
<1> QED BY <1>1, OrderIs DEF Names

\* What is in a directory is a place of Order.
LEMMA ChildIsThere ==
  ASSUME NEW dk, Tree(dk), Named(dk), NEW p \in Seq(STRING), NEW q \in Children(dk, p)
  PROVE  /\ q = Append(p, Last(q)) /\ q \in DOMAIN dk /\ Last(q) \in Names
         /\ \E m \in 1 .. Len(Order) : m \in There(dk, p) /\ Last(q) = Order[m]
<1>1. q \in DOMAIN dk /\ q # Root /\ Front(q) = p BY DEF Children
<1>2. q = Append(p, Last(q)) BY <1>1, TreeOf, PathIs
<1>3. Last(q) \in Names BY <1>1 DEF Named
<1>4. PICK m \in 1 .. Len(Order) : Last(q) = Order[m] BY <1>3, OrderIs
<1>5. m \in There(dk, p) BY <1>1, <1>2, <1>4, OrderIs DEF There
<1> QED BY <1>1, <1>2, <1>3, <1>4, <1>5

\* And a place of Order something in the directory.
LEMMA ThereIsChild ==
  ASSUME NEW dk, NEW p \in Seq(STRING), NEW m \in There(dk, p)
  PROVE  /\ m \in 1 .. Len(Order) /\ Order[m] \in Names
         /\ Append(p, Order[m]) \in Children(dk, p) /\ Last(Append(p, Order[m])) = Order[m]
<1>1. m \in 1 .. Len(Order) /\ Append(p, Order[m]) \in DOMAIN dk BY OrderIs DEF There
<1>2. Order[m] \in Names /\ Order[m] \in STRING BY <1>1, OrderIs, NamesAreStrings
<1> QED BY <1>1, <1>2, AppendIs DEF Children

\* The list create_directory_list makes holds the whole directory.
LEMMA ListHolds ==
  ASSUME FewNames, NEW dk, Tree(dk), NEW p \in Seq(STRING)
  PROVE  Holds(dk, p, Len(Order), DirectoryList(dk, p))
<1> DEFINE n == Len(Order)
<1>1. PICK u : /\ ListChain(dk, p, u)
               /\ DirectoryList(dk, p) =
                    IF There(dk, p) = {} \/ ~IsDir(dk, p) THEN <<>> ELSE u[n]
  BY ListMade
<1>2. n \in Nat BY OrderIs
<1>3. \A k \in Nat : k <= n => Holds(dk, p, k, u[k])
  <2> DEFINE S == {k \in Nat : k <= n => Holds(dk, p, k, u[k])}
  <2>1. 0 \in S
    <3>1. u[0] = LeadEntries(p) BY <1>1 DEF ListChain
    <3>2. /\ LeadEntries(p) \in Lists /\ Len(LeadEntries(p)) <= 2
          /\ \A i \in 1 .. Len(LeadEntries(p)) : LeadEntries(p)[i].name \notin Names
      BY LeadType
    <3>3. HoldsAll(dk, p, 0, LeadEntries(p)) BY DEF HoldsAll
    <3> QED BY <3>1, <3>2, <3>3 DEF Holds, HoldsOnly, HoldsOnce, LoneKept, ShortsDiffer
  <2>2. ASSUME NEW k \in Nat, k \in S PROVE k + 1 \in S
    <3> SUFFICES ASSUME k + 1 <= n PROVE Holds(dk, p, k + 1, u[k + 1]) OBVIOUS
    <3>1. k + 1 \in 1 .. n /\ k <= n /\ (k + 1) - 1 = k BY <1>2
    <3>2. Holds(dk, p, (k + 1) - 1, u[k]) BY <2>2, <3>1
    <3>3. u[k + 1] = Extended(dk, p, k + 1, u[k]) BY <1>1, <3>1 DEF ListChain
    <3> QED BY <3>1, <3>2, <3>3, HoldsNext
  <2> HIDE DEF S
  <2>3. \A k \in Nat : k \in S BY <2>1, <2>2, SetInduction
  <2> QED BY <2>3 DEF S
<1>4. CASE There(dk, p) = {} \/ ~IsDir(dk, p)
  <2>1. DirectoryList(dk, p) = <<>> BY <1>1, <1>4
  <2>2. <<>> \in Lists /\ Len(<<>>) = 0 BY NamesAssumption DEF Lists
  <2>3. There(dk, p) = {}
    <3> SUFFICES ASSUME NEW m \in There(dk, p) PROVE FALSE BY <1>4
    <3>1. Append(p, Order[m]) \in Children(dk, p) BY ThereIsChild
    <3>2. IsDir(dk, p) BY <3>1, TreeOf DEF Children, IsDir
    <3> QED BY <3>2, <1>4
  <2> QED BY <2>1, <2>2, <2>3, <1>2
      DEF Holds, HoldsOnly, HoldsAll, HoldsOnce, LoneKept, ShortsDiffer
<1>5. CASE ~(There(dk, p) = {} \/ ~IsDir(dk, p)) BY <1>1, <1>2, <1>3, <1>5
<1> QED BY <1>4, <1>5

(***************************************************************************)
(* The list l of the directory p leads to everything in it: the entry of   *)
(* each name is the first with its short name, which for a lone name is    *)
(* its own.                                                                *)
(***************************************************************************)
LeadsTo(l, i, n) ==
  /\ l[i].name = n
  /\ \A j \in 1 .. i - 1 : l[j].kind # "vol" => l[j].short # l[i].short
  /\ Lone(n) => l[i].short = Plain[n]
Full(dk, p, l) ==
  \A q \in Children(dk, p) :
    \E i \in 1 .. Len(l) : LeadsTo(l, i, Last(q)) /\ l[i].kind = Kind(dk, q)

\* A list that was just made does.
LEMMA ListFull ==
  ASSUME FewNames, EnoughNumbers, NEW dk, Tree(dk), Named(dk), NEW p \in Seq(STRING)
  PROVE  Full(dk, p, DirectoryList(dk, p))
<1> DEFINE l == DirectoryList(dk, p)
           n == Len(Order)
<1>1. Holds(dk, p, n, l) BY ListHolds
<1> HIDE DEF l
<1>2. /\ HoldsOnly(dk, p, n, l) /\ HoldsAll(dk, p, n, l) /\ LoneKept(l) /\ ShortsDiffer(l)
      /\ Len(l) \in Nat
  BY <1>1, ListFields DEF Holds
<1>3. ASSUME NEW q \in Children(dk, p)
      PROVE  \E i \in 1 .. Len(l) : LeadsTo(l, i, Last(q)) /\ l[i].kind = Kind(dk, q)
  <2>1. q = Append(p, Last(q)) /\ q \in DOMAIN dk /\ Last(q) \in Names BY <1>3, ChildIsThere
  <2>2. PICK m \in 1 .. n : m \in There(dk, p) /\ Last(q) = Order[m] BY <1>3, ChildIsThere
  <2>3. PICK i \in 1 .. Len(l) : l[i].name = Last(q) BY <2>2, <1>2 DEF HoldsAll
  <2>4. PICK k \in 1 .. n : /\ k \in There(dk, p) /\ l[i].name = Order[k]
                            /\ l[i].kind = Kind(dk, Append(p, Order[k]))
    BY <2>1, <2>3, <1>2 DEF HoldsOnly
  <2>5. l[i].kind = Kind(dk, q) BY <2>1, <2>3, <2>4
  <2>6. \A j \in 1 .. i - 1 : l[j].kind # "vol" => l[j].short # l[i].short
    <3> TAKE j \in 1 .. i - 1
    <3>1. j \in 1 .. Len(l) /\ j < i BY <1>2
    <3> QED BY <3>1, <2>1, <2>3, <1>2 DEF ShortsDiffer
  <2>7. Lone(Last(q)) => l[i].short = Plain[Last(q)] BY <2>1, <2>3, <1>2 DEF LoneKept
  <2> QED BY <2>3, <2>5, <2>6, <2>7 DEF LeadsTo
<1> QED BY <1>3 DEF Full, l

\* A list without one of its entries.
LEMMA RemoveAtIs ==
  ASSUME NEW l \in Lists, NEW i \in 1 .. Len(l)
  PROVE  /\ RemoveAt(l, i) \in Lists /\ Len(l) \in Nat /\ Len(RemoveAt(l, i)) = Len(l) - 1
         /\ \A j \in 1 .. i - 1 : RemoveAt(l, i)[j] = l[j]
         /\ \A j \in i .. Len(l) - 1 : RemoveAt(l, i)[j] = l[j + 1]
<1> DEFINE x == SubSeq(l, 1, i - 1)
           y == SubSeq(l, i + 1, Len(l))
           z == x \o y
<1>1. l \in Seq(Entry) /\ Len(l) \in Nat /\ \A j \in 1 .. Len(l) : l[j] \in Entry BY ListFields
<1>2. x \in Seq(Entry) /\ Len(x) = i - 1 /\ \A j \in 1 .. i - 1 : x[j] = l[j]
  <2>1. \A j \in 1 .. i - 1 : l[j] \in Entry BY <1>1
  <2>2. /\ x \in Seq(Entry) /\ Len(x) = IF 1 <= i - 1 THEN i - 1 - 1 + 1 ELSE 0
        /\ \A j \in 1 .. i - 1 - 1 + 1 : x[j] = l[1 + j - 1]
    BY <2>1, <1>1, SubSeqProperties
  <2>3. \A j \in 1 .. i - 1 : j \in 1 .. i - 1 - 1 + 1 /\ 1 + j - 1 = j OBVIOUS
  <2>4. (IF 1 <= i - 1 THEN i - 1 - 1 + 1 ELSE 0) = i - 1 OBVIOUS
  <2> HIDE DEF x
  <2> QED BY <2>2, <2>3, <2>4
<1>3. y \in Seq(Entry) /\ Len(y) = Len(l) - i /\ \A j \in 1 .. Len(l) - i : y[j] = l[i + j]
  <2>1. \A j \in i + 1 .. Len(l) : l[j] \in Entry BY <1>1
  <2>2. /\ y \in Seq(Entry) /\ Len(y) = IF i + 1 <= Len(l) THEN Len(l) - (i + 1) + 1 ELSE 0
        /\ \A j \in 1 .. Len(l) - (i + 1) + 1 : y[j] = l[(i + 1) + j - 1]
    BY <2>1, <1>1, SubSeqProperties
  <2>3. \A j \in 1 .. Len(l) - i : j \in 1 .. Len(l) - (i + 1) + 1 /\ (i + 1) + j - 1 = i + j
    BY <1>1
  <2>4. (IF i + 1 <= Len(l) THEN Len(l) - (i + 1) + 1 ELSE 0) = Len(l) - i BY <1>1
  <2> HIDE DEF y
  <2> QED BY <2>2, <2>3, <2>4
<1> HIDE DEF x, y
<1>4. /\ Len(z) = Len(x) + Len(y)
      /\ \A j \in 1 .. Len(x) + Len(y) : z[j] = IF j <= Len(x) THEN x[j] ELSE y[j - Len(x)]
  BY <1>2, <1>3, ConcatProperties
<1>5. RemoveAt(l, i) = z BY Zenon DEF RemoveAt, x, y
<1> HIDE DEF z
<1>6. Len(z) = Len(l) - 1 BY <1>1, <1>2, <1>3, <1>4
<1>7. ASSUME NEW j \in 1 .. i - 1 PROVE z[j] = l[j]
  <2>1. j \in 1 .. Len(x) + Len(y) /\ j <= Len(x) BY <1>1, <1>2, <1>3
  <2> QED BY <2>1, <1>2, <1>4
<1>8. ASSUME NEW j \in i .. Len(l) - 1 PROVE z[j] = l[j + 1]
  <2>1. /\ j \in 1 .. Len(x) + Len(y) /\ ~(j <= Len(x)) /\ j - Len(x) \in 1 .. Len(l) - i
        /\ i + (j - Len(x)) = j + 1
    BY <1>1, <1>2, <1>3
  <2>2. z[j] = y[j - Len(x)] BY <2>1, <1>4
  <2> QED BY <2>1, <2>2, <1>3
<1>9. RemoveAt(l, i) \in Lists BY RemoveAtOK
<1> QED BY <1>1, <1>5, <1>6, <1>7, <1>8, <1>9

\* What is not on the disk may be taken off a list.
LEMMA RemoveFull ==
  ASSUME NEW dk, Tree(dk), NEW p \in Seq(STRING), NEW l \in Lists, Full(dk, p, l),
         NEW i \in 1 .. Len(l), Append(p, l[i].name) \notin DOMAIN dk
  PROVE  Full(dk, p, RemoveAt(l, i))
<1> DEFINE z == RemoveAt(l, i)
<1>1. /\ Len(l) \in Nat /\ Len(z) = Len(l) - 1
      /\ \A j \in 1 .. i - 1 : z[j] = l[j]
      /\ \A j \in i .. Len(l) - 1 : z[j] = l[j + 1]
  BY RemoveAtIs
<1> HIDE DEF z
<1> SUFFICES ASSUME NEW q \in Children(dk, p)
             PROVE  \E j \in 1 .. Len(z) : LeadsTo(z, j, Last(q)) /\ z[j].kind = Kind(dk, q)
  BY DEF Full, z
<1>2. PICK k \in 1 .. Len(l) : LeadsTo(l, k, Last(q)) /\ l[k].kind = Kind(dk, q) BY DEF Full
<1>3. k # i
  <2>1. q \in DOMAIN dk /\ q \in Seq(STRING) /\ q # Root /\ Front(q) = p BY TreeOf DEF Children
  <2>2. Append(p, Last(q)) = q BY <2>1, PathIs
  <2> QED BY <2>1, <2>2, <1>2 DEF LeadsTo
<1>4. /\ l[k].name = Last(q)
      /\ \A j \in 1 .. k - 1 : l[j].kind # "vol" => l[j].short # l[k].short
      /\ Lone(Last(q)) => l[k].short = Plain[Last(q)]
  BY <1>2 DEF LeadsTo
<1>5. CASE k < i
  <2>1. k \in 1 .. Len(z) /\ z[k] = l[k] /\ \A j \in 1 .. k - 1 : z[j] = l[j]
    <3>1. k \in 1 .. i - 1 /\ k \in 1 .. Len(z) BY <1>1, <1>5
    <3>2. \A j \in 1 .. k - 1 : j \in 1 .. i - 1 BY <1>5
    <3> QED BY <3>1, <3>2, <1>1
  <2>2. LeadsTo(z, k, Last(q)) BY <2>1, <1>4 DEF LeadsTo
  <2> QED BY <2>1, <2>2, <1>2
<1>6. CASE k > i
  <2>1. k - 1 \in i .. Len(l) - 1 /\ k - 1 \in 1 .. Len(z) /\ (k - 1) + 1 = k BY <1>1, <1>6
  <2>2. z[k - 1] = l[k] BY <1>1, <2>1
  <2>3. ASSUME NEW j \in 1 .. (k - 1) - 1, z[j].kind # "vol" PROVE z[j].short # z[k - 1].short
    <3>1. CASE j < i
      <4>1. j \in 1 .. i - 1 /\ j \in 1 .. k - 1 BY <3>1, <1>6
      <4> QED BY <4>1, <1>1, <1>4, <2>2, <2>3
    <3>2. CASE j >= i
      <4>1. j \in i .. Len(l) - 1 /\ j + 1 \in 1 .. k - 1 BY <3>2, <1>1
      <4> QED BY <4>1, <1>1, <1>4, <2>2, <2>3
    <3> QED BY <3>1, <3>2
  <2>4. LeadsTo(z, k - 1, Last(q)) BY <2>2, <2>3, <1>4 DEF LeadsTo
  <2> QED BY <2>1, <2>2, <2>4, <1>2
<1> QED BY <1>3, <1>5, <1>6

-----------------------------------------------------------------------------
(* What a request does to the lists *)

(***************************************************************************)
(* Sets A of pairs of a path and a list.  A set is closed for a disk when  *)
(* it has what a request can make of its lists: none, a new one, one       *)
(* without a name that a client asked for and that is gone.                *)
(***************************************************************************)
ListsIn(its, A) == \A h \in 1 .. Len(its) : <<its[h].path, its[h].list>> \in A

Closed(dk, A) ==
  /\ \A p \in Seq(STRING) : <<p, <<>>>> \in A /\ <<p, DirectoryList(dk, p)>> \in A
  /\ \A p \in Seq(STRING), l \in Lists : \A i \in 1 .. Len(l) :
       /\ <<p, l>> \in A /\ Append(p, l[i].name) \notin DOMAIN dk
       /\ l[i].kind # "vol" /\ l[i].short \in Shorts \cup {All}
       => <<p, RemoveAt(l, i)>> \in A

\* get_handle makes no list: it drops some, and keeps that of its path.
ListsKept(a, g, p) ==
  /\ \A h \in 1 .. Len(g.items) :
       \/ g.items[h].list = <<>>
       \/ h \in 1 .. Len(a) /\ g.items[h].path = a[h].path /\ g.items[h].list = a[h].list
  /\ \A h \in 1 .. Len(a) : a[h].path = p => g.items[g.h].list = a[h].list

LEMMA GetHandleLists ==
  ASSUME NEW t \in Nat, NEW a, ItemsOK(a, t), NEW p \in Seq(STRING)
  PROVE  ListsKept(a, GetHandle(a, p, t), p)
<1> DEFINE n == Len(a)
           found == {h \in DOMAIN a : a[h].path = p}
           stop == IF found # {} THEN Least(found) ELSE n + 1
           old == {h \in DOMAIN a : h < stop /\ t - a[h].used > ListTtl}
           aged == [h \in DOMAIN a |-> IF h \in old THEN [a[h] EXCEPT !.list = <<>>] ELSE a[h]]
           oldest == Oldest(a)
           new == NewItem(p, t)
           g == GetHandle(a, p, t)
           Same(b, h) == \/ b[h].list = <<>>
                         \/ h \in 1 .. n /\ b[h].path = a[h].path /\ b[h].list = a[h].list
<1>1. n \in Nat /\ DOMAIN a = 1 .. n BY ItemFields
<1>2. \A h \in 1 .. n : a[h] \in Item(t) BY ItemFields
<1>3. /\ DOMAIN aged = 1 .. n
      /\ \A h \in 1 .. n :
           /\ aged[h] \in Item(t) /\ Same(aged, h)
           /\ h \notin old => aged[h] = a[h]
  <2>1. ASSUME NEW h \in 1 .. n
        PROVE  aged[h] \in Item(t) /\ Same(aged, h) /\ (h \notin old => aged[h] = a[h])
    <3> DEFINE x == [a[h] EXCEPT !.list = <<>>]
    <3>1. <<>> \in Lists BY NamesAssumption DEF Lists
    <3>2. x \in Item(t) /\ x.list = <<>> BY <1>2, <3>1 DEF Item
    <3>3. aged[h] = IF h \in old THEN x ELSE a[h] BY <1>1
    <3> HIDE DEF x, aged, old
    <3> QED BY <3>2, <3>3, <1>2
  <2> QED BY <2>1, <1>1
<1>4. g = IF found # {} THEN [items |-> [aged EXCEPT ![stop].used = t], h |-> stop]
          ELSE IF n < MaxHandles THEN [items |-> Append(aged, new), h |-> stop]
          ELSE [items |-> [aged EXCEPT ![oldest] = new], h |-> oldest]
  BY DEF GetHandle
<1>5. found # {} => stop \in 1 .. n /\ a[stop].path = p /\ stop \notin old
  <2>1. found \in SUBSET Nat BY <1>1
  <2>2. found # {} => Least(found) \in found
    <3> HIDE DEF found
    <3> QED BY <2>1, LeastOf
  <2>3. found # {} => stop \in found BY <2>2
  <2> QED BY <2>3, <1>1
<1>6. new.list = <<>> BY DEF NewItem
<1>7. HandleOK(a, g.items, g.h, p, t) BY GetHandleOK
<1>8. aged \in Seq(Item(t)) /\ Len(aged) = n
  <2>1. aged \in [1 .. n -> Item(t)]
    <3>1. aged = [h \in 1 .. n |-> aged[h]] BY <1>1
    <3> HIDE DEF aged
    <3> QED BY <3>1, <1>3
  <2> HIDE DEF aged
  <2>2. aged \in Seq(Item(t)) BY <2>1, <1>1
  <2>3. Len(aged) \in Nat /\ DOMAIN aged = 1 .. Len(aged) BY <2>2, LenProperties
  <2>4. DOMAIN aged = 1 .. n BY <2>1
  <2>5. \A i, j \in Nat : 1 .. i = 1 .. j => i = j OBVIOUS
  <2> QED BY <2>2, <2>3, <2>4, <2>5, <1>1, Zenon
<1>n. found = {} => \A h \in 1 .. n : a[h].path # p BY <1>1
<1> HIDE DEF aged, new, stop, oldest, found, old
<1>9. CASE found # {}
  <2> DEFINE x == [aged[stop] EXCEPT !.used = t]
             b == [aged EXCEPT ![stop].used = t]
  <2>1. g.items = b /\ g.h = stop
    <3>1. g = [items |-> b, h |-> stop] BY <1>4, <1>9
    <3> HIDE DEF g, b
    <3> QED BY <3>1
  <2>2. x.list = aged[stop].list /\ x.path = aged[stop].path
    BY <1>3, <1>5, <1>9 DEF Item
  <2>3. Len(b) = n /\ \A h \in 1 .. n : b[h] = IF h = stop THEN x ELSE aged[h]
    <3>1. b = [aged EXCEPT ![stop] = x] BY <1>3, <1>5, <1>9
    <3>2. DOMAIN b = 1 .. n /\ \A h \in 1 .. n : b[h] = IF h = stop THEN x ELSE aged[h]
      <4> HIDE DEF x
      <4> QED BY <3>1, <1>3
    <3>3. ItemsOK(b, t) BY <1>7, <2>1 DEF HandleOK
    <3> HIDE DEF b
    <3>4. Len(b) \in Nat /\ DOMAIN b = 1 .. Len(b) BY <3>3, ItemFields
    <3> QED BY <3>2, <3>4, <1>1
  <2> HIDE DEF x, b
  <2>4. \A h \in 1 .. n : b[h].list = aged[h].list /\ b[h].path = aged[h].path BY <2>2, <2>3
  <2>5. \A h \in 1 .. n : Same(b, h) BY <2>4, <1>3
  <2>6. b[stop].list = a[stop].list BY <2>4, <1>3, <1>5, <1>9
  <2>7. \A h \in 1 .. n : a[h].path = p => h = stop BY <1>5, <1>9 DEF ItemsOK
  <2> QED BY <2>1, <2>3, <2>5, <2>6, <2>7 DEF ListsKept
<1>10. CASE found = {} /\ n < MaxHandles
  <2> DEFINE b == Append(aged, new)
  <2>1. g.items = b
    <3>1. g = [items |-> b, h |-> stop] BY <1>4, <1>10
    <3> HIDE DEF g, b
    <3> QED BY <3>1
  <2>2. Len(b) = n + 1 /\ b[n + 1] = new /\ \A h \in 1 .. n : b[h] = aged[h]
    BY <1>1, <1>8
  <2> HIDE DEF b
  <2>3. ASSUME NEW h \in 1 .. n + 1 PROVE Same(b, h)
    <3>1. CASE h = n + 1 BY <3>1, <2>2, <1>6
    <3>2. CASE h \in 1 .. n BY <3>2, <2>2, <1>3
    <3> QED BY <3>1, <3>2, <1>1
  <2>4. \A h \in 1 .. n : a[h].path # p BY <1>10, <1>n
  <2> QED BY <2>1, <2>2, <2>3, <2>4 DEF ListsKept
<1>11. CASE found = {} /\ ~(n < MaxHandles)
  <2> DEFINE b == [aged EXCEPT ![oldest] = new]
  <2>1. g.items = b
    <3>1. g = [items |-> b, h |-> oldest] BY <1>4, <1>11
    <3> HIDE DEF g, b
    <3> QED BY <3>1
  <2>2. Len(b) = n /\ \A h \in 1 .. n : b[h] = IF h = oldest THEN new ELSE aged[h]
    <3>1. DOMAIN b = 1 .. n /\ \A h \in 1 .. n : b[h] = IF h = oldest THEN new ELSE aged[h]
      BY <1>3
    <3>2. ItemsOK(b, t) BY <1>7, <2>1 DEF HandleOK
    <3> HIDE DEF b
    <3>3. Len(b) \in Nat /\ DOMAIN b = 1 .. Len(b) BY <3>2, ItemFields
    <3> QED BY <3>1, <3>3, <1>1
  <2> HIDE DEF b
  <2>3. \A h \in 1 .. n : Same(b, h) BY <2>2, <1>3, <1>6
  <2>4. \A h \in 1 .. n : a[h].path # p BY <1>11, <1>n
  <2> QED BY <2>1, <2>2, <2>3, <2>4 DEF ListsKept
<1> QED BY <1>9, <1>10, <1>11

\* The list asked for is made anew or the one there was.
LEMMA ListedLists ==
  ASSUME NEW t \in Nat, NEW a, ItemsOK(a, t), NEW h \in 1 .. Len(a), NEW dk, NEW rescan
  PROVE  LET b == Listed(dk, a, h, rescan, t)
         IN  /\ Len(b) = Len(a)
             /\ \A g \in 1 .. Len(a) :
                  /\ b[g].path = a[g].path
                  /\ b[g].list = IF g = h /\ (rescan \/ a[h].list = <<>>)
                                 THEN DirectoryList(dk, a[h].path) ELSE a[g].list
<1> DEFINE l == DirectoryList(dk, a[h].path)
           u == IF IsDir(dk, a[h].path) THEN t ELSE a[h].used
           x == [a[h] EXCEPT !.list = l, !.used = u]
           b == [a EXCEPT ![h] = x]
<1>1. a[h] \in Item(t) /\ a[h].used \in 0 .. t /\ DOMAIN a = 1 .. Len(a) BY ItemFields
<1>2. l \in Lists BY ListType
<1>3. u \in 0 .. t /\ u \in {a[h].used, t} BY <1>1
<1>4. Rescan(dk, a, h, t) = b
  <2> HIDE DEF l
  <2> QED BY <1>1 DEF Rescan, Item, l
<1> HIDE DEF u
<1>5. x \in Item(t) /\ x.path = a[h].path /\ x.used = u /\ x.list = l
  <2> HIDE DEF l
  <2> QED BY <1>1, <1>2, <1>3 DEF Item
<1> HIDE DEF x, l
<1>6. Len(b) = Len(a) /\ \A g \in 1 .. Len(a) : b[g] = IF g = h THEN x ELSE a[g]
  BY <1>3, <1>5, SetItem
<1> HIDE DEF b
<1>7. CASE rescan \/ a[h].list = <<>>
  <2>1. Listed(dk, a, h, rescan, t) = b BY <1>4, <1>7 DEF Listed
  <2> QED BY <2>1, <1>5, <1>6, <1>7 DEF l
<1>8. CASE ~(rescan \/ a[h].list = <<>>)
  <2>1. Listed(dk, a, h, rescan, t) = a BY <1>8 DEF Listed
  <2> QED BY <2>1, <1>8
<1> QED BY <1>7, <1>8

\* The place of a short name in a list.
LEMMA PlaceIs ==
  ASSUME NEW l \in Lists, NEW short
  PROVE  /\ PlaceOf(l, short) \in 1 .. Len(l) + 1
         /\ PlaceOf(l, short) <= Len(l) =>
              l[PlaceOf(l, short)].kind # "vol" /\ l[PlaceOf(l, short)].short = short
         /\ \A j \in 1 .. Len(l) :
              l[j].kind # "vol" /\ l[j].short = short => PlaceOf(l, short) <= j
<1> DEFINE T == {j \in DOMAIN l : l[j].kind # "vol" /\ l[j].short = short} \cup {Len(l) + 1}
           i == PlaceOf(l, short)
<1>1. Len(l) \in Nat /\ DOMAIN l = 1 .. Len(l) BY ListFields
<1>2. T \in SUBSET Nat /\ T # {} BY <1>1
<1>3. i = Least(T) BY DEF PlaceOf
<1>4. i \in T /\ \A j \in T : i <= j
  <2> HIDE DEF T, i
  <2> QED BY <1>2, <1>3, LeastOf
<1>5. i \in 1 .. Len(l) + 1
  <2> HIDE DEF i
  <2> QED BY <1>1, <1>4
<1>6. i <= Len(l) => l[i].kind # "vol" /\ l[i].short = short
  <2> HIDE DEF i
  <2> QED BY <1>1, <1>4
<1>7. \A j \in 1 .. Len(l) : l[j].kind # "vol" /\ l[j].short = short => i <= j
  <2> HIDE DEF i
  <2> QED BY <1>1, <1>4
<1> QED BY <1>5, <1>6, <1>7

(***************************************************************************)
(* The search for a short name: it is not in the list, or its entry is the *)
(* first with it; the name is returned if it is on the disk, otherwise the *)
(* entry is taken off.                                                     *)
(***************************************************************************)
LEMMA ServerNameIs ==
  ASSUME NEW t \in Nat, NEW a, ItemsOK(a, t), NEW h \in 1 .. Len(a), NEW dk, NEW short
  PROVE  LET s == ServerName(dk, a, h, short)
             l == a[h].list
             i == PlaceOf(l, short)
         IN  \/ i > Len(l) /\ s.items = a /\ s.name = NoName
             \/ /\ i \in 1 .. Len(l) /\ Append(a[h].path, l[i].name) \in DOMAIN dk
                /\ s.items = a /\ s.name = l[i].name
             \/ /\ i \in 1 .. Len(l) /\ Append(a[h].path, l[i].name) \notin DOMAIN dk
                /\ s.name = NoName /\ Len(s.items) = Len(a)
                /\ \A g \in 1 .. Len(a) :
                     /\ s.items[g].path = a[g].path
                     /\ s.items[g].list = IF g = h THEN RemoveAt(l, i) ELSE a[g].list
<1> DEFINE s == ServerName(dk, a, h, short)
           l == a[h].list
           i == PlaceOf(l, short)
           x == [a[h] EXCEPT !.list = RemoveAt(l, i)]
           c == [a EXCEPT ![h] = x]
<1>1. a[h] \in Item(t) /\ l \in Lists /\ DOMAIN a = 1 .. Len(a) BY ItemFields
<1>2. Len(l) \in Nat BY <1>1, ListFields
<1>3. i \in 1 .. Len(l) + 1
  <2> HIDE DEF l
  <2> QED BY <1>1, PlaceIs
<1> HIDE DEF i
<1>4. CASE i > Len(l)
  <2>1. s = [items |-> a, name |-> NoName] BY <1>4 DEF ServerName, i
  <2> HIDE DEF s
  <2> QED BY <2>1, <1>4 DEF s, i
<1>5. i <= Len(l) => i \in 1 .. Len(l)
  <2> HIDE DEF l
  <2> QED BY <1>2, <1>3
<1>6. CASE ~(i > Len(l)) /\ Append(a[h].path, l[i].name) \in DOMAIN dk
  <2>1. s = [items |-> a, name |-> l[i].name] BY <1>6 DEF ServerName, i
  <2>2. i \in 1 .. Len(l)
    <3> HIDE DEF l
    <3> QED BY <1>2, <1>3, <1>6
  <2> HIDE DEF s
  <2>3. s.items = a /\ s.name = l[i].name BY <2>1
  <2> QED BY <2>2, <2>3, <1>6 DEF s, i
<1>7. CASE ~(i > Len(l)) /\ Append(a[h].path, l[i].name) \notin DOMAIN dk
  <2>1. s = [items |-> [a EXCEPT ![h].list = RemoveAt(@, i)], name |-> NoName]
    BY <1>7 DEF ServerName, i
  <2>2. i \in 1 .. Len(l)
    <3> HIDE DEF l
    <3> QED BY <1>2, <1>3, <1>7
  <2>3. [a EXCEPT ![h].list = RemoveAt(@, i)] = c BY <1>1
  <2>4. x \in Item(t) /\ x.path = a[h].path /\ x.used = a[h].used /\ x.list = RemoveAt(l, i)
    <3>1. RemoveAt(l, i) \in Lists
      <4> HIDE DEF l
      <4> QED BY <1>1, <2>2, RemoveAtOK
    <3> HIDE DEF l
    <3> QED BY <1>1, <3>1 DEF Item
  <2> HIDE DEF x, s
  <2>5. Len(c) = Len(a) /\ \A g \in 1 .. Len(a) : c[g] = IF g = h THEN x ELSE a[g]
    BY <2>4, SetItem
  <2> HIDE DEF c
  <2>6. s.items = c /\ s.name = NoName BY <2>1, <2>3
  <2>7. /\ Len(s.items) = Len(a)
        /\ \A g \in 1 .. Len(a) :
             /\ s.items[g].path = a[g].path
             /\ s.items[g].list = IF g = h THEN RemoveAt(l, i) ELSE a[g].list
    <3> HIDE DEF l
    <3> QED BY <2>4, <2>5, <2>6
  <2> QED BY <2>2, <2>6, <2>7, <1>7 DEF s, i
<1> QED BY <1>4, <1>6, <1>7

\* A part of a path stays in a closed set.
LEMMA PartIn ==
  ASSUME NEW t \in Nat, NEW a, ItemsOK(a, t), NEW h \in 1 .. Len(a), NEW dk,
         NEW A, Closed(dk, A), ListsIn(a, A), NEW short \in Shorts \cup {All}, NEW rescan
  PROVE  ListsIn(GetServerName(dk, a, h, short, rescan, t).items, A)
<1> DEFINE b == Listed(dk, a, h, rescan, t)
           s == ServerName(dk, b, h, short)
           l == b[h].list
           i == PlaceOf(l, short)
<1>1. \A g \in 1 .. Len(a) : a[g].path \in Seq(STRING) BY ItemFields
<1>2. /\ Len(b) = Len(a)
      /\ \A g \in 1 .. Len(a) :
           /\ b[g].path = a[g].path
           /\ b[g].list = IF g = h /\ (rescan \/ a[h].list = <<>>)
                          THEN DirectoryList(dk, a[h].path) ELSE a[g].list
  BY ListedLists
<1>3. HandleOK(a, b, h, a[h].path, t) BY ListedOK
<1> HIDE DEF b
<1>4. ItemsOK(b, t) /\ h \in 1 .. Len(b) /\ l \in Lists BY <1>3, ItemFields DEF HandleOK
<1>5. ListsIn(b, A) BY <1>1, <1>2 DEF ListsIn, Closed
<1>6. GetServerName(dk, a, h, short, rescan, t) = s BY DEF GetServerName, b
<1>7. CASE s.items = b BY <1>5, <1>6, <1>7
<1>8. CASE s.items # b
  <2>1. /\ i \in 1 .. Len(l) /\ Append(b[h].path, l[i].name) \notin DOMAIN dk
        /\ Len(s.items) = Len(b)
        /\ \A g \in 1 .. Len(b) :
             /\ s.items[g].path = b[g].path
             /\ s.items[g].list = IF g = h THEN RemoveAt(l, i) ELSE b[g].list
    BY <1>4, <1>8, ServerNameIs
  <2>2. l[i].kind # "vol" /\ l[i].short = short
    <3>1. Len(l) \in Nat BY <1>4, ListFields
    <3> HIDE DEF l, i
    <3>2. i <= Len(l) => l[i].kind # "vol" /\ l[i].short = short BY <1>4, PlaceIs DEF i
    <3>3. i <= Len(l) BY <2>1, <3>1
    <3> QED BY <3>2, <3>3
  <2>3. <<b[h].path, l>> \in A BY <1>4, <1>5 DEF ListsIn
  <2>4. b[h].path \in Seq(STRING) BY <1>1, <1>2
  <2> HIDE DEF l, i
  <2>5. <<b[h].path, RemoveAt(l, i)>> \in A BY <2>1, <2>2, <2>3, <2>4, <1>4 DEF Closed
  <2> HIDE DEF s
  <2>6. ListsIn(s.items, A) BY <2>1, <2>5, <1>5 DEF ListsIn
  <2> QED BY <2>6, <1>6
<1> QED BY <1>7, <1>8

(***************************************************************************)
(* The short name s is the one a host name has whatever else there is, and *)
(* the one under which it is made.                                         *)
(***************************************************************************)
OwnName(s) == HostName[s] \in Names /\ Lone(HostName[s]) /\ Plain[HostName[s]] = s

\* Only its host name is listed with such a short name.
LEMMA OwnEntry ==
  ASSUME NEW l \in Lists, NEW i \in 1 .. Len(l), NEW s \in Shorts \cup {All}, OwnName(s),
         l[i].kind # "vol", l[i].short = s
  PROVE  l[i].name = HostName[s]
<1>1. l[i] \in Entry BY ListFields
<1>2. s \notin {<<".", 0>>, <<"..", 0>>} BY NamesAssumption DEF All
<1>3. l[i].name \in Names /\ s \in ShortsOf(l[i].name) BY <1>1, <1>2, EntryIs
<1> QED BY <1>3 DEF OwnName, Lone, ShortsOf

\* The name s found for a part of a path: it is on the disk.
NameFound(dk, p, s, short) ==
  s.name # NoName => /\ Append(p, s.name) \in DOMAIN dk
                     /\ OwnName(short) => s.name = HostName[short]

\* What get_server_name finds.
LEMMA PartName ==
  ASSUME NEW t \in Nat, NEW a, ItemsOK(a, t), NEW h \in 1 .. Len(a), NEW dk,
         NEW short \in Shorts \cup {All}, NEW rescan
  PROVE  NameFound(dk, a[h].path, GetServerName(dk, a, h, short, rescan, t), short)
<1> DEFINE b == Listed(dk, a, h, rescan, t)
           s == ServerName(dk, b, h, short)
           l == b[h].list
           i == PlaceOf(l, short)
<1>1. HandleOK(a, b, h, a[h].path, t) BY ListedOK
<1> HIDE DEF b
<1>2. ItemsOK(b, t) /\ h \in 1 .. Len(b) /\ b[h].path = a[h].path /\ l \in Lists
  BY <1>1, ItemFields DEF HandleOK
<1>3. GetServerName(dk, a, h, short, rescan, t) = s BY DEF GetServerName, b
<1>4. CASE s.name # NoName
  <2>1. /\ i \in 1 .. Len(l) /\ Append(b[h].path, l[i].name) \in DOMAIN dk
        /\ s.name = l[i].name
    BY <1>2, <1>4, ServerNameIs
  <2>2. l[i].kind # "vol" /\ l[i].short = short
    <3>1. Len(l) \in Nat BY <1>2, ListFields
    <3> HIDE DEF l, i
    <3>2. i <= Len(l) => l[i].kind # "vol" /\ l[i].short = short BY <1>2, PlaceIs DEF i
    <3>3. i <= Len(l) BY <2>1, <3>1
    <3> QED BY <3>2, <3>3
  <2> HIDE DEF l, i, s
  <2>3. OwnName(short) => l[i].name = HostName[short] BY <2>1, <2>2, <1>2, OwnEntry
  <2> QED BY <2>1, <2>3, <1>2, <1>3 DEF NameFound
<1> QED BY <1>3, <1>4 DEF NameFound

\* The list of the path p, with the handle h, leads to all there is after s was found.
LeavesFull(dk, p, h, a, s, short) ==
  /\ Len(s.items) = Len(a) /\ s.items[h].path = p /\ Full(dk, p, s.items[h].list)
  /\ OwnName(short) /\ Append(p, HostName[short]) \in DOMAIN dk => s.name = HostName[short]

(***************************************************************************)
(* A part of a path whose list is made anew, or led to everything in the   *)
(* directory, leaves such a list, and finds what has a short name of its   *)
(* own.                                                                    *)
(***************************************************************************)
LEMMA PartFull ==
  ASSUME FewNames, EnoughNumbers,
         NEW t \in Nat, NEW a, ItemsOK(a, t), NEW h \in 1 .. Len(a), NEW dk, Tree(dk), Named(dk),
         NEW short \in Shorts \cup {All}, NEW rescan,
         rescan \/ a[h].list = <<>> \/ Full(dk, a[h].path, a[h].list)
  PROVE  LeavesFull(dk, a[h].path, h, a, GetServerName(dk, a, h, short, rescan, t), short)
<1> DEFINE b == Listed(dk, a, h, rescan, t)
           s == ServerName(dk, b, h, short)
           l == b[h].list
           i == PlaceOf(l, short)
           p == a[h].path
           n == HostName[short]
<1>1. p \in Seq(STRING) BY ItemFields
<1>2. HandleOK(a, b, h, p, t) BY ListedOK
<1>3. Full(dk, p, l) /\ Len(b) = Len(a)
  <2>1. /\ Len(b) = Len(a)
        /\ l = IF rescan \/ a[h].list = <<>> THEN DirectoryList(dk, p) ELSE a[h].list
    BY ListedLists
  <2>2. Full(dk, p, DirectoryList(dk, p)) BY <1>1, ListFull
  <2> HIDE DEF b
  <2> QED BY <2>1, <2>2
<1> HIDE DEF b
<1>4. ItemsOK(b, t) /\ h \in 1 .. Len(b) /\ b[h].path = p /\ l \in Lists
  BY <1>2, ItemFields DEF HandleOK
<1>5. Len(l) \in Nat BY <1>4, ListFields
<1>6. GetServerName(dk, a, h, short, rescan, t) = s BY DEF GetServerName, b
<1>7. \/ i > Len(l) /\ s.items = b /\ s.name = NoName
      \/ /\ i \in 1 .. Len(l) /\ Append(p, l[i].name) \in DOMAIN dk
         /\ s.items = b /\ s.name = l[i].name
      \/ /\ i \in 1 .. Len(l) /\ Append(p, l[i].name) \notin DOMAIN dk
         /\ s.name = NoName /\ Len(s.items) = Len(b)
         /\ \A g \in 1 .. Len(b) :
              /\ s.items[g].path = b[g].path
              /\ s.items[g].list = IF g = h THEN RemoveAt(l, i) ELSE b[g].list
  BY <1>4, ServerNameIs
<1>8. /\ i \in 1 .. Len(l) + 1
      /\ i <= Len(l) => l[i].kind # "vol" /\ l[i].short = short
      /\ \A j \in 1 .. Len(l) : l[j].kind # "vol" /\ l[j].short = short => i <= j
  <2> HIDE DEF l
  <2> QED BY <1>4, PlaceIs
<1> HIDE DEF l, i, s, p, n
<1>9. Len(s.items) = Len(a) /\ s.items[h].path = p /\ Full(dk, p, s.items[h].list)
  <2>1. CASE s.items = b BY <2>1, <1>3, <1>4 DEF l
  <2>2. CASE s.items # b
    <3>1. /\ i \in 1 .. Len(l) /\ Append(p, l[i].name) \notin DOMAIN dk
          /\ Len(s.items) = Len(b) /\ s.items[h].path = b[h].path
          /\ s.items[h].list = RemoveAt(l, i)
      BY <2>2, <1>4, <1>7
    <3>2. Full(dk, p, RemoveAt(l, i)) BY <3>1, <1>1, <1>3, <1>4, RemoveFull
    <3> QED BY <3>1, <3>2, <1>3, <1>4
  <2> QED BY <2>1, <2>2
<1>10. ASSUME OwnName(short), Append(p, n) \in DOMAIN dk PROVE s.name = n
  <2>1. n \in Names /\ n \in STRING /\ Lone(n) /\ Plain[n] = short
    BY <1>10, NamesAreStrings DEF OwnName, n
  <2>2. Append(p, n) \in Children(dk, p) /\ Last(Append(p, n)) = n
    BY <1>1, <1>10, <2>1, AppendIs DEF Children
  <2>3. PICK k \in 1 .. Len(l) : LeadsTo(l, k, n) /\ l[k].kind = Kind(dk, Append(p, n))
    BY <2>2, <1>3 DEF Full
  <2>4. l[k].name = n /\ l[k].short = short /\ l[k].kind # "vol"
    BY <2>1, <2>3 DEF LeadsTo, Kind
  <2>5. i <= k BY <2>4, <1>8
  <2>6. i = k
    <3> SUFFICES ASSUME i # k PROVE FALSE OBVIOUS
    <3>1. i \in 1 .. k - 1 /\ i <= Len(l) BY <2>5, <1>5, <1>8
    <3> QED BY <3>1, <2>3, <2>4, <1>8 DEF LeadsTo
  <2> QED BY <2>4, <2>6, <1>5, <1>7, <1>10
<1> QED BY <1>6, <1>9, <1>10 DEF p, n, LeavesFull

\* After a failure, or a part that was not found, nothing more is done.
LEMMA DescendStops ==
  ASSUME NEW dk, NEW r, Flagged(r), NEW g, NEW short, NEW rescan, NEW t, ~(r.ok /\ r.exist)
  PROVE  LET d == Descend(dk, r, g, short, rescan, t) IN ~d.ok /\ d.items = r.items
<1> DEFINE d == Descend(dk, r, g, short, rescan, t)
<1>1. d = [r EXCEPT !.ok = FALSE] BY DEF Descend
<1>2. DOMAIN r = Parts
  <2> DEFINE e == [x \in Parts |-> r[x]]
  <2>1. DOMAIN e = Parts OBVIOUS
  <2>2. r = e BY DEF Flagged
  <2> HIDE DEF e
  <2> QED BY <2>1, <2>2
<1> HIDE DEF d
<1>3. d.items = r.items /\ d.ok = FALSE BY <1>1, <1>2 DEF Parts
<1> QED BY <1>3 DEF d

\* The part d is looked for with the handle g of the path r so far; s is what is found.
Goes(dk, r, g, s, d, short, t) ==
  /\ ItemsOK(g.items, t) /\ g.h \in 1 .. Len(g.items) /\ g.items[g.h].path = r.path
  /\ d.items = s.items /\ d.ok = TRUE /\ d.exist = (s.name # NoName)
  /\ d.path = Append(r.path, IF s.name # NoName THEN s.name ELSE HostName[short])

\* Otherwise the next part is looked for in the list of the path so far.
LEMMA DescendGoes ==
  ASSUME NEW t \in Nat, NEW dk, NEW r, ItemsOK(r.items, t), r.path \in Seq(STRING),
         r.ok, r.exist, NEW short, NEW rescan
  PROVE  LET g == GetHandle(r.items, r.path, t)
             s == GetServerName(dk, g.items, g.h, short, rescan, t)
             d == Descend(dk, r, g, short, rescan, t)
         IN  Goes(dk, r, g, s, d, short, t)
<1> DEFINE g == GetHandle(r.items, r.path, t)
           s == GetServerName(dk, g.items, g.h, short, rescan, t)
           d == Descend(dk, r, g, short, rescan, t)
           nm == IF s.name # NoName THEN s.name ELSE HostName[short]
<1>1. HandleOK(r.items, g.items, g.h, r.path, t) BY GetHandleOK
<1>2. d = [items |-> s.items, path |-> Append(r.path, nm), exist |-> s.name # NoName, ok |-> TRUE]
  BY DEF Descend, NextPart
<1> HIDE DEF g, s, nm, d
<1>3. d.items = s.items BY <1>2
<1>4. d.path = Append(r.path, nm) BY <1>2
<1>5. d.exist = (s.name # NoName) /\ d.ok = TRUE BY <1>2, Zenon
<1>6. Goes(dk, r, g, s, d, short, t) BY <1>1, <1>3, <1>4, <1>5 DEF HandleOK, Goes, nm
<1> QED BY <1>6 DEF g, s, d

\* One part more stays in a closed set.
LEMMA DescendIn ==
  ASSUME NEW t \in Nat, NEW dk, NEW r, ItemsOK(r.items, t), r.path \in Seq(STRING), Flagged(r),
         NEW A, Closed(dk, A), ListsIn(r.items, A), NEW short \in Shorts \cup {All}, NEW rescan
  PROVE  ListsIn(Descend(dk, r, GetHandle(r.items, r.path, t), short, rescan, t).items, A)
<1> DEFINE g == GetHandle(r.items, r.path, t)
           s == GetServerName(dk, g.items, g.h, short, rescan, t)
           d == Descend(dk, r, g, short, rescan, t)
<1>1. CASE ~(r.ok /\ r.exist) BY <1>1, DescendStops
<1>2. CASE r.ok /\ r.exist
  <2>1. Goes(dk, r, g, s, d, short, t) BY <1>2, DescendGoes
  <2>2. ListsKept(r.items, g, r.path) BY GetHandleLists
  <2> HIDE DEF g, s, d
  <2>a. ItemsOK(g.items, t) /\ g.h \in 1 .. Len(g.items) /\ d.items = s.items BY <2>1 DEF Goes
  <2>3. \A h \in 1 .. Len(g.items) : g.items[h].path \in Seq(STRING) BY <2>a, ItemFields
  <2>4. ListsIn(g.items, A) BY <2>2, <2>3 DEF ListsIn, ListsKept, Closed
  <2>5. ListsIn(s.items, A) BY <2>a, <2>4, PartIn DEF s
  <2> QED BY <2>a, <2>5 DEF d, g
<1> QED BY <1>1, <1>2

\* All of a lookup does.
LEMMA ChainIn ==
  ASSUME NEW t \in Nat, NEW a, NEW dk, NEW cp \in Seq(Shorts \cup {All}), NEW rescan,
         NEW u, LookupChain(dk, a, cp, rescan, t, u),
         NEW A, Closed(dk, A), ListsIn(a, A)
  PROVE  \A k \in Nat : k <= Len(cp) => ListsIn(u[k].items, A)
<1> DEFINE S == {k \in Nat : k <= Len(cp) => ListsIn(u[k].items, A)}
<1>1. Len(cp) \in Nat /\ \A k \in 1 .. Len(cp) : cp[k] \in Shorts \cup {All}
  BY LenProperties, ElementOfSeq
<1>2. 0 \in S
  <2>1. u[0].items = a BY DEF LookupChain
  <2> QED BY <2>1
<1>3. ASSUME NEW k \in Nat, k \in S PROVE k + 1 \in S
  <2> SUFFICES ASSUME k + 1 <= Len(cp) PROVE ListsIn(u[k + 1].items, A) OBVIOUS
  <2>1. k + 1 \in 1 .. Len(cp) /\ k <= Len(cp) /\ (k + 1) - 1 = k BY <1>1
  <2>2. ListsIn(u[k].items, A) BY <1>3, <2>1
  <2>3. PathOK(a, u[k], k, t) /\ Flagged(u[k]) BY <2>1 DEF LookupChain
  <2>4. ItemsOK(u[k].items, t) /\ u[k].path \in Seq(STRING) BY <2>3 DEF PathOK
  <2>5. u[k + 1] = Descend(dk, u[k], GetHandle(u[k].items, u[k].path, t), cp[k + 1], rescan, t)
    BY <2>1 DEF LookupChain
  <2>6. cp[k + 1] \in Shorts \cup {All} BY <1>1, <2>1
  <2> QED BY <2>2, <2>3, <2>4, <2>5, <2>6, DescendIn
<1> HIDE DEF S
<1>4. \A k \in Nat : k \in S BY <1>2, <1>3, SetInduction
<1> QED BY <1>4 DEF S

\* So does its result.
LEMMA LookupIn ==
  ASSUME NEW t \in Nat, NEW a, ItemsOK(a, t), NEW dk, Tree(dk),
         NEW cp \in Seq(Shorts \cup {All}), NEW rescan, NEW A, Closed(dk, A), ListsIn(a, A)
  PROVE  ListsIn(CreateServerPath(dk, a, cp, rescan, t).items, A)
<1>1. PICK u : /\ LookupChain(dk, a, cp, rescan, t, u)
               /\ CreateServerPath(dk, a, cp, rescan, t) = u[Len(cp)]
  BY LookupMade
<1>2. Len(cp) \in Nat /\ Len(cp) <= Len(cp) BY LenProperties
<1>3. ListsIn(u[Len(cp)].items, A) BY <1>1, <1>2, ChainIn
<1> QED BY <1>1, <1>3

\* And get_handle.
LEMMA HandleIn ==
  ASSUME NEW t \in Nat, NEW a, ItemsOK(a, t), NEW p \in Seq(STRING), NEW dk,
         NEW A, Closed(dk, A), ListsIn(a, A)
  PROVE  ListsIn(GetHandle(a, p, t).items, A)
<1> DEFINE g == GetHandle(a, p, t)
<1>1. ListsKept(a, g, p) BY GetHandleLists
<1>2. HandleOK(a, g.items, g.h, p, t) BY GetHandleOK
<1> HIDE DEF g
<1>3. \A h \in 1 .. Len(g.items) : g.items[h].path \in Seq(STRING)
  BY <1>2, ItemFields DEF HandleOK
<1>4. ListsIn(g.items, A) BY <1>1, <1>3 DEF ListsIn, ListsKept, Closed
<1> QED BY <1>4 DEF g

-----------------------------------------------------------------------------
(* The paths create_server_path finds *)

(***************************************************************************)
(* A path r made of k parts of cp: the last one is on the disk, or it is   *)
(* the client's own name; where the client's name is that of one host name *)
(* alone, it stands for that.                                              *)
(***************************************************************************)
FoundAs(dk, cp, k, r) ==
  r.ok /\ k > 0 =>
    /\ r.exist => r.path \in DOMAIN dk
    /\ ~r.exist => Last(r.path) = HostName[cp[k]]
    /\ \A i \in 1 .. k : OwnName(cp[i]) => r.path[i] = HostName[cp[i]]

\* One part more.
LEMMA FoundNext ==
  ASSUME NEW t \in Nat, NEW a, NEW dk, Tree(dk), NEW cp \in Seq(Shorts \cup {All}), NEW rescan,
         NEW u, LookupChain(dk, a, cp, rescan, t, u), NEW k \in Nat, k + 1 <= Len(cp),
         FoundAs(dk, cp, k, u[k])
  PROVE  FoundAs(dk, cp, k + 1, u[k + 1])
<1> DEFINE r == u[k]
           short == cp[k + 1]
           g == GetHandle(r.items, r.path, t)
           s == GetServerName(dk, g.items, g.h, short, rescan, t)
           d == Descend(dk, r, g, short, rescan, t)
           nm == IF s.name # NoName THEN s.name ELSE HostName[short]
<1>1. Len(cp) \in Nat /\ k + 1 \in 1 .. Len(cp) /\ k <= Len(cp) /\ (k + 1) - 1 = k
  BY LenProperties
<1>2. short \in Shorts \cup {All} BY <1>1, ElementOfSeq
<1>3. PathOK(a, r, k, t) /\ Flagged(r) BY <1>1 DEF LookupChain
<1>4. ItemsOK(r.items, t) /\ r.path \in Seq(STRING) /\ (r.ok => Len(r.path) = k)
  BY <1>3 DEF PathOK
<1>5. u[k + 1] = d BY <1>1 DEF LookupChain
<1>6. CASE ~(r.ok /\ r.exist)
  <2>1. ~d.ok BY <1>3, <1>6, DescendStops
  <2> QED BY <2>1, <1>5 DEF FoundAs
<1>7. CASE r.ok /\ r.exist
  <2>0. Goes(dk, r, g, s, d, short, t)
    <3> HIDE DEF r, short
    <3> QED BY <1>4, <1>7, DescendGoes
  <2> HIDE DEF g, s, d, r, short
  <2>1. /\ ItemsOK(g.items, t) /\ g.h \in 1 .. Len(g.items) /\ g.items[g.h].path = r.path
        /\ d.ok = TRUE /\ d.exist = (s.name # NoName) /\ d.path = Append(r.path, nm)
    BY <2>0 DEF Goes
  <2>2. s.name # NoName => /\ Append(r.path, s.name) \in DOMAIN dk
                           /\ OwnName(short) => s.name = HostName[short]
    <3>1. ItemsOK(g.items, t) /\ g.h \in 1 .. Len(g.items) BY <2>1
    <3>2. NameFound(dk, g.items[g.h].path, s, short) BY <3>1, <1>2, PartName DEF s
    <3> QED BY <2>1, <3>2 DEF NameFound
  <2>3. nm \in STRING
    <3>1. s.name # NoName => s.name \in STRING BY <2>2, <1>4, TreePaths, AppendedName
    <3>2. HostName[short] \in STRING BY <1>2, NamesAssumption DEF All
    <3> QED BY <3>1, <3>2
  <2>4. OwnName(short) => nm = HostName[short] BY <2>2
  <2>5. d.exist => d.path \in DOMAIN dk BY <2>1, <2>2
  <2>6. ~d.exist => nm = HostName[short] BY <2>1
  <2> HIDE DEF nm
  <2>7. /\ Last(d.path) = nm /\ d.path[k + 1] = nm /\ \A i \in 1 .. k : d.path[i] = r.path[i]
    <3>1. Len(r.path) = k BY <1>4, <1>7
    <3>2. Last(d.path) = nm BY <2>1, <2>3, <1>4, AppendIs
    <3>3. d.path[k + 1] = nm /\ \A i \in 1 .. k : d.path[i] = r.path[i]
      BY <2>1, <3>1, <1>4, <2>3, AppendProperties
    <3> QED BY <3>2, <3>3
  <2>8. ASSUME NEW i \in 1 .. k + 1, OwnName(cp[i]) PROVE d.path[i] = HostName[cp[i]]
    <3>1. CASE i = k + 1 BY <3>1, <2>4, <2>7, <2>8 DEF short
    <3>2. CASE i \in 1 .. k
      <4>1. k > 0 BY <3>2
      <4> QED BY <4>1, <3>2, <2>7, <2>8, <1>7 DEF FoundAs, r
    <3> QED BY <3>1, <3>2
  <2> QED BY <2>5, <2>6, <2>7, <2>8, <1>5 DEF FoundAs, short
<1> QED BY <1>6, <1>7

\* What a lookup finds.
LEMMA LookupFinds ==
  ASSUME NEW t \in Nat, NEW a, ItemsOK(a, t), NEW dk, Tree(dk),
         NEW cp \in Seq(Shorts \cup {All}), NEW rescan
  PROVE  FoundAs(dk, cp, Len(cp), CreateServerPath(dk, a, cp, rescan, t))
<1>1. PICK u : /\ LookupChain(dk, a, cp, rescan, t, u)
               /\ CreateServerPath(dk, a, cp, rescan, t) = u[Len(cp)]
  BY LookupMade
<1> DEFINE S == {k \in Nat : k <= Len(cp) => FoundAs(dk, cp, k, u[k])}
<1>2. Len(cp) \in Nat BY LenProperties
<1>3. 0 \in S BY DEF FoundAs
<1>4. ASSUME NEW k \in Nat, k \in S PROVE k + 1 \in S
  <2> SUFFICES ASSUME k + 1 <= Len(cp) PROVE FoundAs(dk, cp, k + 1, u[k + 1]) OBVIOUS
  <2>1. k <= Len(cp) BY <1>2
  <2>2. FoundAs(dk, cp, k, u[k]) BY <1>4, <2>1
  <2> QED BY <1>1, <2>2, FoundNext
<1> HIDE DEF S
<1>5. \A k \in Nat : k \in S BY <1>3, <1>4, SetInduction
<1>6. FoundAs(dk, cp, Len(cp), u[Len(cp)]) BY <1>2, <1>5 DEF S
<1> QED BY <1>1, <1>6

-----------------------------------------------------------------------------
(* Lists that are up to date *)

\* The list of p, if there is one, leads to everything in p.
Fresh(dk, its, p) ==
  \A h \in 1 .. Len(its) : its[h].path = p => its[h].list = <<>> \/ Full(dk, p, its[h].list)

FreshSet(dk, p) ==
  {x \in Seq(STRING) \X Lists : x[1] = p => x[2] = <<>> \/ Full(dk, p, x[2])}

\* The same, as a set of lists.
LEMMA FreshIs ==
  ASSUME NEW t \in Nat, NEW its, ItemsOK(its, t), NEW dk, NEW p
  PROVE  ListsIn(its, FreshSet(dk, p)) <=> Fresh(dk, its, p)
<1>1. \A h \in 1 .. Len(its) : its[h].path \in Seq(STRING) /\ its[h].list \in Lists
  BY ItemFields
<1>2. ASSUME NEW q \in Seq(STRING), NEW l \in Lists
      PROVE  <<q, l>> \in FreshSet(dk, p) <=> (q = p => l = <<>> \/ Full(dk, p, l))
  BY DEF FreshSet
<1> QED BY <1>1, <1>2 DEF ListsIn, Fresh

\* It stays so when lists are made from a disk with no less in the directory.
LEMMA FreshClosed ==
  ASSUME FewNames, EnoughNumbers, NEW d1, Tree(d1), Named(d1), NEW d2, Tree(d2),
         NEW p \in Seq(STRING), Children(d2, p) \subseteq Children(d1, p),
         \A q \in Children(d2, p) : Kind(d2, q) = Kind(d1, q)
  PROVE  Closed(d1, FreshSet(d2, p))
<1> DEFINE A == FreshSet(d2, p)
<1>1. ASSUME NEW q \in Seq(STRING), NEW l \in Lists
      PROVE  <<q, l>> \in A <=> (q = p => l = <<>> \/ Full(d2, p, l))
  BY DEF FreshSet
<1> HIDE DEF A
<1>2. \A l : Full(d1, p, l) => Full(d2, p, l) BY DEF Full
<1>3. ASSUME NEW q \in Seq(STRING) PROVE <<q, <<>>>> \in A /\ <<q, DirectoryList(d1, q)>> \in A
  <2>1. <<>> \in Lists BY NamesAssumption DEF Lists
  <2>2. DirectoryList(d1, q) \in Lists BY ListType
  <2>3. q = p => Full(d1, p, DirectoryList(d1, q)) BY ListFull
  <2> QED BY <1>1, <1>2, <2>1, <2>2, <2>3
<1>4. ASSUME NEW q \in Seq(STRING), NEW l \in Lists, NEW i \in 1 .. Len(l),
             <<q, l>> \in A, Append(q, l[i].name) \notin DOMAIN d1
      PROVE  <<q, RemoveAt(l, i)>> \in A
  <2>1. RemoveAt(l, i) \in Lists BY RemoveAtIs
  <2>2. ASSUME q = p PROVE Full(d2, p, RemoveAt(l, i))
    <3>1. l # <<>>
      <4>1. Len(<<>>) = 0 OBVIOUS
      <4> QED BY <4>1
    <3>2. Full(d2, p, l) BY <1>1, <1>4, <2>2, <3>1
    <3>3. Append(p, l[i].name) \notin DOMAIN d2
      <4> SUFFICES ASSUME Append(p, l[i].name) \in DOMAIN d2 PROVE FALSE OBVIOUS
      <4>1. l[i].name \in STRING BY TreePaths, AppendedName
      <4>2. Append(p, l[i].name) \in Children(d2, p) BY <4>1, AppendIs DEF Children
      <4>3. Append(p, l[i].name) \in DOMAIN d1 BY <4>2 DEF Children
      <4> QED BY <4>3, <1>4, <2>2
    <3> QED BY <3>2, <3>3, RemoveFull
  <2> QED BY <2>1, <2>2, <1>1
<1> QED BY <1>3, <1>4 DEF Closed, A

\* The lookups of a request keep a list up to date.
LEMMA FreshKept ==
  ASSUME FewNames, EnoughNumbers, NEW dk, Tree(dk), Named(dk), NEW p \in Seq(STRING)
  PROVE  Closed(dk, FreshSet(dk, p))
BY FreshClosed

\* With the list of r.path up to date, the part d leaves it so and finds own names.
FullPart(dk, r, d, short) ==
  /\ d.ok
  /\ \E h \in 1 .. Len(d.items) : d.items[h].path = r.path /\ Full(dk, r.path, d.items[h].list)
  /\ OwnName(short) /\ Append(r.path, HostName[short]) \in DOMAIN dk =>
       d.exist /\ d.path = Append(r.path, HostName[short])

\* One part of a path.
LEMMA DescendFull ==
  ASSUME FewNames, EnoughNumbers, NEW t \in Nat, NEW dk, Tree(dk), Named(dk),
         NEW r, ItemsOK(r.items, t), r.path \in Seq(STRING), r.ok, r.exist,
         NEW short \in Shorts \cup {All}, NEW rescan, rescan \/ Fresh(dk, r.items, r.path)
  PROVE  FullPart(dk, r, Descend(dk, r, GetHandle(r.items, r.path, t), short, rescan, t), short)
<1> DEFINE g == GetHandle(r.items, r.path, t)
           s == GetServerName(dk, g.items, g.h, short, rescan, t)
           d == Descend(dk, r, g, short, rescan, t)
           n == HostName[short]
<1>1. Goes(dk, r, g, s, d, short, t) BY DescendGoes
<1>2. ListsKept(r.items, g, r.path) BY GetHandleLists
<1> HIDE DEF g, s, d
<1>3. /\ ItemsOK(g.items, t) /\ g.h \in 1 .. Len(g.items) /\ g.items[g.h].path = r.path
      /\ d.items = s.items /\ d.ok = TRUE /\ d.exist = (s.name # NoName)
      /\ d.path = Append(r.path, IF s.name # NoName THEN s.name ELSE HostName[short])
  BY <1>1 DEF Goes
<1>4. rescan \/ g.items[g.h].list = <<>> \/ Full(dk, g.items[g.h].path, g.items[g.h].list)
  BY <1>2, <1>3 DEF ListsKept, Fresh
<1>5. LeavesFull(dk, g.items[g.h].path, g.h, g.items, s, short)
  BY <1>3, <1>4, PartFull DEF s
<1>6. /\ Len(s.items) = Len(g.items) /\ s.items[g.h].path = r.path
      /\ Full(dk, r.path, s.items[g.h].list)
      /\ OwnName(short) /\ Append(r.path, n) \in DOMAIN dk => s.name = n
  BY <1>3, <1>5 DEF LeavesFull
<1>7. OwnName(short) => n # NoName BY NamesAssumption DEF OwnName
<1>8. \E h \in 1 .. Len(d.items) : d.items[h].path = r.path /\ Full(dk, r.path, d.items[h].list)
  BY <1>3, <1>6
<1>9. OwnName(short) /\ Append(r.path, n) \in DOMAIN dk => d.exist /\ d.path = Append(r.path, n)
  BY <1>3, <1>6, <1>7
<1>10. d.ok BY <1>3
<1> QED BY <1>8, <1>9, <1>10 DEF FullPart, d, g

\* It is up to date then, as the path has one handle.
LEMMA FullIsFresh ==
  ASSUME NEW t \in Nat, NEW its, ItemsOK(its, t), NEW dk, NEW p, NEW h \in 1 .. Len(its),
         its[h].path = p, Full(dk, p, its[h].list)
  PROVE  Fresh(dk, its, p)
BY DEF Fresh, ItemsOK

\* What comes before a part d: r, a path that exists.
Before(r, d, t) ==
  /\ r.ok /\ r.exist /\ ItemsOK(r.items, t) /\ r.path \in Seq(STRING)
  /\ Front(d.path) = r.path

\* So it is if there was no exception up to d.
LEMMA BeforeLast ==
  ASSUME NEW t \in Nat, NEW a, NEW dk, Tree(dk), NEW cp \in Seq(Shorts \cup {All}), NEW rescan,
         NEW u, LookupChain(dk, a, cp, rescan, t, u), NEW k \in Nat, k + 1 <= Len(cp)
  PROVE  u[k + 1].ok => Before(u[k], u[k + 1], t)
<1> SUFFICES ASSUME u[k + 1].ok PROVE Before(u[k], u[k + 1], t) OBVIOUS
<1> DEFINE r == u[k]
           short == cp[k + 1]
           g == GetHandle(r.items, r.path, t)
           s == GetServerName(dk, g.items, g.h, short, rescan, t)
           d == Descend(dk, r, g, short, rescan, t)
           nm == IF s.name # NoName THEN s.name ELSE HostName[short]
<1>1. Len(cp) \in Nat /\ k + 1 \in 1 .. Len(cp) /\ k <= Len(cp) /\ (k + 1) - 1 = k
  BY LenProperties
<1>2. PathOK(a, r, k, t) /\ Flagged(r) /\ PathOK(a, u[k + 1], k + 1, t)
  BY <1>1 DEF LookupChain
<1>3. /\ ItemsOK(r.items, t) /\ r.path \in Seq(STRING) /\ u[k + 1].path \in Seq(STRING)
  BY <1>2 DEF PathOK
<1>4. u[k + 1] = d BY <1>1 DEF LookupChain
<1>5. r.ok /\ r.exist
  <2> SUFFICES ASSUME ~(r.ok /\ r.exist) PROVE FALSE OBVIOUS
  <2>1. ~d.ok BY <1>2, DescendStops
  <2> QED BY <2>1, <1>4
<1> HIDE DEF r, short
<1>6. Goes(dk, r, g, s, d, short, t) BY <1>3, <1>5, DescendGoes
<1> HIDE DEF g, s, d
<1>7. d.path = Append(r.path, nm) BY <1>6 DEF Goes
<1> HIDE DEF nm
<1>8. nm \in STRING BY <1>3, <1>4, <1>7, AppendedName
<1>9. Front(d.path) = r.path BY <1>3, <1>7, <1>8, AppendIs
<1> QED BY <1>3, <1>4, <1>5, <1>9 DEF r, Before

\* The list of the directory a path is in leads to everything after the lookup.
LEMMA LastPart ==
  ASSUME FewNames, EnoughNumbers, NEW t \in Nat, NEW a, ItemsOK(a, t), NEW dk, Tree(dk), Named(dk),
         NEW cp \in Seq(Shorts \cup {All}), cp # <<>>, NEW rescan,
         NEW r, r = CreateServerPath(dk, a, cp, rescan, t), r.ok,
         rescan \/ Fresh(dk, a, Front(r.path))
  PROVE  /\ Front(r.path) \in Seq(STRING) /\ ItemsOK(r.items, t)
         /\ \E h \in 1 .. Len(r.items) : /\ r.items[h].path = Front(r.path)
                                         /\ Full(dk, Front(r.path), r.items[h].list)
<1>1. PICK u : /\ LookupChain(dk, a, cp, rescan, t, u)
               /\ CreateServerPath(dk, a, cp, rescan, t) = u[Len(cp)]
  BY LookupMade
<1> DEFINE k == Len(cp) - 1
           p == u[k].path
<1>2. Len(cp) \in Nat /\ k \in Nat /\ k + 1 = Len(cp) /\ k <= Len(cp) /\ k + 1 \in 1 .. Len(cp)
      /\ (k + 1) - 1 = k
  <2>1. Len(cp) \in Nat /\ Len(cp) # 0 BY LenProperties, EmptySeq
  <2> QED BY <2>1
<1> HIDE DEF k
<1>3. r = u[k + 1] BY <1>1, <1>2
<1>4. /\ u[k].ok /\ u[k].exist /\ ItemsOK(u[k].items, t) /\ p \in Seq(STRING)
      /\ Front(r.path) = p
  <2>1. u[k + 1].ok /\ k + 1 <= Len(cp) BY <1>2, <1>3
  <2>2. Before(u[k], u[k + 1], t) BY <2>1, <1>1, <1>2, BeforeLast
  <2> QED BY <2>2, <1>3 DEF Before
<1>5. rescan \/ Fresh(dk, u[k].items, p)
  <2> SUFFICES ASSUME Fresh(dk, a, p) PROVE Fresh(dk, u[k].items, p) BY <1>4
  <2>1. ListsIn(a, FreshSet(dk, p)) /\ Closed(dk, FreshSet(dk, p)) BY <1>4, FreshIs, FreshKept
  <2>2. ListsIn(u[k].items, FreshSet(dk, p)) BY <2>1, <1>1, <1>2, ChainIn
  <2> QED BY <2>2, <1>4, FreshIs
<1>6. cp[k + 1] \in Shorts \cup {All} BY <1>2, ElementOfSeq
<1>7. r = Descend(dk, u[k], GetHandle(u[k].items, p, t), cp[k + 1], rescan, t)
  BY <1>1, <1>2, <1>3 DEF LookupChain
<1>8. FullPart(dk, u[k], r, cp[k + 1]) BY <1>4, <1>5, <1>6, <1>7, DescendFull
<1>9. PathOK(a, r, k + 1, t) BY <1>1, <1>2, <1>3 DEF LookupChain
<1> QED BY <1>4, <1>8, <1>9 DEF FullPart, PathOK

-----------------------------------------------------------------------------
(* The way to a path *)

\* The first k names of a path.
Pre(q, k) == SubSeq(q, 1, k)

\* They are a path, one name longer each time.
LEMMA PreIs ==
  ASSUME NEW q \in Seq(STRING), NEW k \in 0 .. Len(q)
  PROVE  /\ Pre(q, k) \in Seq(STRING) /\ Len(Pre(q, k)) = k
         /\ \A i \in 1 .. k : Pre(q, k)[i] = q[i]
<1>1. Len(q) \in Nat /\ k \in Int BY LenProperties
<1>2. \A i \in 1 .. k : q[i] \in STRING
  <2>1. \A i \in 1 .. k : i \in 1 .. Len(q) BY <1>1
  <2> QED BY <2>1, ElementOfSeq
<1>3. /\ SubSeq(q, 1, k) \in Seq(STRING)
      /\ Len(SubSeq(q, 1, k)) = IF 1 <= k THEN k - 1 + 1 ELSE 0
      /\ \A i \in 1 .. k - 1 + 1 : SubSeq(q, 1, k)[i] = q[1 + i - 1]
  BY <1>1, <1>2, SubSeqProperties
<1>4. (IF 1 <= k THEN k - 1 + 1 ELSE 0) = k BY <1>1
<1>5. \A i \in 1 .. k : i \in 1 .. k - 1 + 1 /\ 1 + i - 1 = i BY <1>1
<1> QED BY <1>3, <1>4, <1>5 DEF Pre

\* The ends of that.
LEMMA PreEnds ==
  ASSUME NEW q \in Seq(STRING)
  PROVE  /\ Pre(q, 0) = Root /\ Pre(q, Len(q)) = q
         /\ \A k \in 0 .. Len(q) - 1 : /\ Append(Pre(q, k), q[k + 1]) = Pre(q, k + 1)
                                       /\ Front(Pre(q, k + 1)) = Pre(q, k)
                                       /\ Pre(q, k + 1) # Root
<1>1. Len(q) \in Nat /\ 0 \in 0 .. Len(q) /\ Len(q) \in 0 .. Len(q)
  <2>1. Len(q) \in Nat BY LenProperties
  <2> QED BY <2>1
<1>2. Pre(q, 0) = Root
  <2>1. Pre(q, 0) \in Seq(STRING) /\ Len(Pre(q, 0)) = 0 BY <1>1, PreIs
  <2> QED BY <2>1, EmptySeq DEF Root
<1>3. Pre(q, Len(q)) = q
  <2>1. /\ Pre(q, Len(q)) \in Seq(STRING) /\ Len(Pre(q, Len(q))) = Len(q)
        /\ \A i \in 1 .. Len(q) : Pre(q, Len(q))[i] = q[i]
    BY <1>1, PreIs
  <2> QED BY <2>1, SeqEqual
<1>4. ASSUME NEW k \in 0 .. Len(q) - 1
      PROVE  /\ Append(Pre(q, k), q[k + 1]) = Pre(q, k + 1)
             /\ Front(Pre(q, k + 1)) = Pre(q, k) /\ Pre(q, k + 1) # Root
  <2> DEFINE x == Pre(q, k)
             y == Pre(q, k + 1)
             z == Append(x, q[k + 1])
  <2>1. k \in Nat /\ k \in 0 .. Len(q) /\ k + 1 \in 0 .. Len(q) /\ k + 1 \in 1 .. Len(q)
    BY <1>1
  <2>2. x \in Seq(STRING) /\ Len(x) = k /\ \A i \in 1 .. k : x[i] = q[i] BY <2>1, PreIs
  <2>3. y \in Seq(STRING) /\ Len(y) = k + 1 /\ \A i \in 1 .. k + 1 : y[i] = q[i] BY <2>1, PreIs
  <2>4. q[k + 1] \in STRING BY <2>1, ElementOfSeq
  <2> HIDE DEF x, y
  <2>5. z \in Seq(STRING) /\ z # Root /\ Front(z) = x /\ Len(z) = Len(x) + 1
    BY <2>2, <2>4, AppendIs
  <2>6. z[k + 1] = q[k + 1] BY <2>2, <2>4, AppendProperties
  <2>7. \A i \in 1 .. k : z[i] = x[i] BY <2>2, <2>4, AppendProperties
  <2> HIDE DEF z
  <2>8. ASSUME NEW i \in 1 .. k + 1 PROVE z[i] = y[i]
    <3>1. CASE i = k + 1 BY <3>1, <2>6, <2>3
    <3>2. CASE i \in 1 .. k BY <3>2, <2>7, <2>2, <2>3
    <3> QED BY <3>1, <3>2, <2>1
  <2>9. z = y BY <2>2, <2>3, <2>5, <2>8, SeqEqual
  <2> QED BY <2>5, <2>9 DEF x, y, z
<1> QED BY <1>2, <1>3, <1>4

\* What is on the disk is reached through directories on the disk.
LEMMA PreOnDisk ==
  ASSUME NEW dk, Tree(dk), NEW q \in DOMAIN dk
  PROVE  \A k \in 1 .. Len(q) : Pre(q, k) \in DOMAIN dk
<1> DEFINE n == Len(q)
           S == {j \in Nat : j < n => Pre(q, n - j) \in DOMAIN dk}
<1>1. q \in Seq(STRING) /\ n \in Nat BY TreeOf, LenProperties
<1>2. 0 \in S
  <2>1. n - 0 = n /\ Pre(q, n) = q BY <1>1, PreEnds
  <2> QED BY <2>1
<1>3. ASSUME NEW j \in Nat, j \in S PROVE j + 1 \in S
  <2> SUFFICES ASSUME j + 1 < n PROVE Pre(q, n - (j + 1)) \in DOMAIN dk OBVIOUS
  <2> DEFINE k == n - (j + 1)
  <2>1. k \in 0 .. n - 1 /\ k + 1 = n - j /\ k # 0 /\ k \in 0 .. n /\ j < n BY <1>1
  <2>2. Pre(q, k + 1) \in DOMAIN dk BY <1>3, <2>1
  <2> HIDE DEF k, n
  <2>3. Front(Pre(q, k + 1)) = Pre(q, k) BY <1>1, <2>1, PreEnds DEF n
  <2>4. Pre(q, k) # Root
    <3>1. Len(Pre(q, k)) = k BY <1>1, <2>1, PreIs DEF n
    <3>2. Len(Root) = 0 BY DEF Root
    <3> QED BY <3>1, <3>2, <2>1
  <2>5. Pre(q, k) \in DOMAIN dk BY <2>2, <2>3, <2>4, TreeOf
  <2> QED BY <2>5 DEF k
<1> HIDE DEF S
<1>4. \A j \in Nat : j \in S BY <1>2, <1>3, SetInduction
<1>5. ASSUME NEW k \in 1 .. n PROVE Pre(q, k) \in DOMAIN dk
  <2>1. n - k \in Nat /\ n - k < n /\ n - (n - k) = k BY <1>1
  <2>2. n - k < n => Pre(q, n - (n - k)) \in DOMAIN dk BY <2>1, <1>4 DEF S
  <2> QED BY <2>1, <2>2
<1> QED BY <1>5

\* The client's name at place i is the own name of what stands there in q.
OwnAt(cp, q, i) == OwnName(cp[i]) /\ q[i] = HostName[cp[i]]

(***************************************************************************)
(* After k parts of the way to q: own names have led along q, and the      *)
(* lists on the way are up to date, those passed in any case.              *)
(***************************************************************************)
WalkOK(dk, cp, q, r, k, rescan) ==
  /\ r.ok
  /\ (\A i \in 1 .. k : OwnAt(cp, q, i)) => r.exist /\ r.path = Pre(q, k)
  /\ \A j \in 0 .. Len(cp) - 1 : j < k \/ ~rescan => Fresh(dk, r.items, Pre(q, j))

\* One part more.
LEMMA WalkNext ==
  ASSUME FewNames, EnoughNumbers, NEW t \in Nat, NEW a, NEW dk, Tree(dk), Named(dk),
         NEW cp \in Seq(Shorts \cup {All}), NEW rescan,
         NEW u, LookupChain(dk, a, cp, rescan, t, u), NEW q \in DOMAIN dk, Len(q) = Len(cp),
         \A i \in 1 .. Len(cp) - 1 : OwnAt(cp, q, i),
         NEW k \in Nat, k + 1 <= Len(cp), WalkOK(dk, cp, q, u[k], k, rescan)
  PROVE  WalkOK(dk, cp, q, u[k + 1], k + 1, rescan)
<1> DEFINE r == u[k]
           d == u[k + 1]
           n == Len(cp)
<1>1. n \in Nat /\ k + 1 \in 1 .. n /\ k \in 0 .. n - 1 /\ (k + 1) - 1 = k /\ k <= n
  <2>1. n \in Nat BY LenProperties
  <2> QED BY <2>1
<1>2. q \in Seq(STRING) /\ \A i \in 1 .. n : Pre(q, i) \in DOMAIN dk BY TreeOf, PreOnDisk
<1>3. r.ok /\ r.exist /\ r.path = Pre(q, k) /\ (rescan \/ Fresh(dk, r.items, r.path))
  <2>1. \A i \in 1 .. k : i \in 1 .. n - 1 BY <1>1
  <2>2. r.ok /\ r.exist /\ r.path = Pre(q, k) BY <2>1 DEF WalkOK
  <2> QED BY <2>2, <1>1 DEF WalkOK
<1>4. PathOK(a, r, k, t) /\ Flagged(r) /\ PathOK(a, d, k + 1, t) BY <1>1 DEF LookupChain
<1>5. ItemsOK(r.items, t) /\ r.path \in Seq(STRING) /\ ItemsOK(d.items, t) BY <1>4 DEF PathOK
<1>6. d = Descend(dk, r, GetHandle(r.items, r.path, t), cp[k + 1], rescan, t)
  BY <1>1 DEF LookupChain
<1>7. cp[k + 1] \in Shorts \cup {All} BY <1>1, ElementOfSeq
<1> HIDE DEF r, d
<1>8. FullPart(dk, r, d, cp[k + 1]) BY <1>3, <1>5, <1>6, <1>7, DescendFull
<1>9. d.ok BY <1>8 DEF FullPart
<1>10. ASSUME \A i \in 1 .. k + 1 : OwnAt(cp, q, i)
       PROVE  d.exist /\ d.path = Pre(q, k + 1)
  <2>1. k + 1 \in 1 .. k + 1 BY <1>1
  <2>2. OwnName(cp[k + 1]) /\ q[k + 1] = HostName[cp[k + 1]] BY <1>10, <2>1 DEF OwnAt
  <2>3. Append(r.path, q[k + 1]) = Pre(q, k + 1) BY <1>1, <1>2, <1>3, PreEnds
  <2>4. Pre(q, k + 1) \in DOMAIN dk BY <1>1, <1>2
  <2> QED BY <2>2, <2>3, <2>4, <1>8 DEF FullPart
<1>11. ASSUME NEW j \in 0 .. n - 1, j < k + 1 \/ ~rescan PROVE Fresh(dk, d.items, Pre(q, j))
  <2>1. CASE j = k
    <3>1. PICK h \in 1 .. Len(d.items) : /\ d.items[h].path = r.path
                                         /\ Full(dk, r.path, d.items[h].list)
      BY <1>8 DEF FullPart
    <3> QED BY <2>1, <3>1, <1>3, <1>5, FullIsFresh
  <2>2. CASE j # k
    <3>1. j < k \/ ~rescan BY <2>2, <1>1, <1>11
    <3>2. Fresh(dk, r.items, Pre(q, j)) BY <3>1 DEF WalkOK, r
    <3>3. Pre(q, j) \in Seq(STRING)
      <4>1. j \in 0 .. Len(q) BY <1>1
      <4> QED BY <4>1, <1>2, PreIs
    <3>4. ListsIn(r.items, FreshSet(dk, Pre(q, j))) BY <3>2, <1>5, FreshIs
    <3>5. Closed(dk, FreshSet(dk, Pre(q, j))) BY <3>3, FreshKept
    <3>6. ListsIn(d.items, FreshSet(dk, Pre(q, j)))
      BY <3>4, <3>5, <1>4, <1>5, <1>6, <1>7, DescendIn
    <3> QED BY <3>6, <1>5, FreshIs
  <2> QED BY <2>1, <2>2
<1> QED BY <1>9, <1>10, <1>11 DEF WalkOK, d

\* All of the way.
LEMMA Walk ==
  ASSUME FewNames, EnoughNumbers, NEW t \in Nat, NEW a, ItemsOK(a, t), NEW dk, Tree(dk), Named(dk),
         NEW cp \in Seq(Shorts \cup {All}), NEW rescan, NEW q \in DOMAIN dk, Len(q) = Len(cp),
         \A i \in 1 .. Len(cp) - 1 : OwnAt(cp, q, i),
         rescan \/ \A j \in 0 .. Len(cp) - 1 : Fresh(dk, a, Pre(q, j))
  PROVE  WalkOK(dk, cp, q, CreateServerPath(dk, a, cp, rescan, t), Len(cp), rescan)
<1>1. PICK u : /\ LookupChain(dk, a, cp, rescan, t, u)
               /\ CreateServerPath(dk, a, cp, rescan, t) = u[Len(cp)]
  BY LookupMade
<1> DEFINE S == {k \in Nat : k <= Len(cp) => WalkOK(dk, cp, q, u[k], k, rescan)}
<1>2. Len(cp) \in Nat BY LenProperties
<1>3. 0 \in S
  <2>1. u[0] = [items |-> a, path |-> Root, exist |-> TRUE, ok |-> TRUE]
    BY <1>1 DEF LookupChain
  <2>2. u[0].items = a /\ u[0].path = Root BY <2>1
  <2>3. u[0].exist = TRUE /\ u[0].ok = TRUE BY <2>1
  <2>4. Pre(q, 0) = Root BY TreeOf, PreEnds
  <2>5. \A j \in 0 .. Len(cp) - 1 : ~(j < 0) BY <1>2
  <2> QED BY <2>2, <2>3, <2>4, <2>5 DEF WalkOK
<1>4. ASSUME NEW k \in Nat, k \in S PROVE k + 1 \in S
  <2> SUFFICES ASSUME k + 1 <= Len(cp) PROVE WalkOK(dk, cp, q, u[k + 1], k + 1, rescan) OBVIOUS
  <2>1. k <= Len(cp) BY <1>2
  <2>2. WalkOK(dk, cp, q, u[k], k, rescan) BY <1>4, <2>1
  <2> QED BY <1>1, <2>2, WalkNext
<1> HIDE DEF S
<1>5. \A k \in Nat : k \in S BY <1>3, <1>4, SetInduction
<1>6. WalkOK(dk, cp, q, u[Len(cp)], Len(cp), rescan) BY <1>2, <1>5 DEF S
<1> QED BY <1>1, <1>6

-----------------------------------------------------------------------------
(* What a step does to the lists *)

\* The lists of the next state are in a set that is closed for both disks.
Within(A) == Closed(disk, A) /\ Closed(disk', A) /\ ListsIn(items, A) /\ DriveInv /\ Tree(disk')

\* The lookups of a request.
LEMMA LookIn ==
  ASSUME NEW A, Within(A), NEW a, Working(a), ListsIn(a, A), NEW dk \in {disk, disk'},
         NEW cp \in Seq(Shorts \cup {All}), NEW rescan
  PROVE  ListsIn(Lookup(dk, a, cp, rescan).items, A)
<1>1. now \in Nat /\ ItemsOK(a, now) /\ Tree(dk) /\ Closed(dk, A)
  BY DEF Within, DriveInv, Working
<1> QED BY <1>1, LookupIn DEF Lookup

\* And the handle it asks for.
LEMMA AskIn ==
  ASSUME NEW A, Within(A), NEW a, Working(a), ListsIn(a, A), NEW p \in Seq(STRING)
  PROVE  ListsIn(GetHandle(a, p, now).items, A)
BY HandleIn DEF Within, DriveInv, Working

\* The first lookup.
LEMMA FirstIn ==
  ASSUME NEW A, Within(A), NEW cp \in Seq(Shorts \cup {All})
  PROVE  ListsIn(Lookup(disk, items, cp, FALSE).items, A)
<1>1. Working(items) /\ ListsIn(items, A) BY WorkingStart DEF Within
<1> QED BY <1>1, LookIn

\* An answer.
LEMMA EffectIn ==
  ASSUME NEW A, NEW dk, NEW its, ListsIn(its, A), NEW result, Effect(dk, its, result)
  PROVE  ListsIn(items', A)
BY DEF Effect

\* A change of the disk with a rebuild of the lists.
LEMMA ChangeIn ==
  ASSUME NEW A, Within(A), NEW r, NEW ok, NEW dk, NEW cp \in ClientPaths, Working(r.items),
         ListsIn(r.items, A), ChangeAndRebuild(r, ok, dk, cp)
  PROVE  ListsIn(items', A)
<1>1. CASE Answer(items) BY <1>1, EffectIn DEF Answer, Within
<1>2. CASE Answer(r.items) BY <1>2, EffectIn DEF Answer
<1>3. ASSUME NEW again, again = Lookup(dk, r.items, cp, TRUE), NEW result,
             Effect(dk, again.items, result)
      PROVE  ListsIn(items', A)
  <2>1. cp \in Seq(Shorts \cup {All}) BY ClientPathOK
  <2>2. dk = disk' BY <1>3 DEF Effect, SetDisk
  <2>3. ListsIn(again.items, A) BY <1>3, <2>1, <2>2, LookIn
  <2> QED BY <1>3, <2>3, EffectIn
<1> QED BY <1>1, <1>2, <1>3, Zenon DEF ChangeAndRebuild

\* A request that starts with the lookup of a path.
LEMMA PathIn ==
  ASSUME NEW A, Within(A), NEW cp \in ClientPaths
  PROVE  LET r == Lookup(disk, items, cp, FALSE)
         IN  Working(r.items) /\ r.path \in Seq(STRING) /\ ListsIn(r.items, A)
<1>1. DriveInv BY DEF Within
<1>2. cp \in Seq(Shorts \cup {All}) BY ClientPathOK
<1>3. ListsIn(Lookup(disk, items, cp, FALSE).items, A) BY <1>2, FirstIn
<1> QED BY <1>1, <1>3, FirstLookup

\* RENAME_FILE
LEMMA RenameIn ==
  ASSUME NEW A, Within(A), NEW cp1 \in ClientPaths, NEW cp2 \in ClientPaths, Rename(cp1, cp2)
  PROVE  ListsIn(items', A)
<1>1. PICK r1, r2, ok, dk :
        /\ r1 = Lookup(disk, items, cp1, FALSE)
        /\ r2 = (IF r1.ok THEN Lookup(disk, r1.items, cp2, FALSE) ELSE r1)
        /\ ChangeAndRebuild(r2, ok, dk, cp2)
  <2>1. RenameFile(cp1, cp2) BY DEF Rename
  <2> QED BY <2>1, Zenon DEF RenameFile
<1>2. Working(r1.items) /\ ListsIn(r1.items, A) BY <1>1, PathIn
<1>3. Working(r2.items) /\ ListsIn(r2.items, A)
  <2>1. CASE r1.ok
    <3>1. cp2 \in Seq(Shorts \cup {All}) BY ClientPathOK
    <3>2. r2 = Lookup(disk, r1.items, cp2, FALSE) BY <1>1, <2>1
    <3>3. DriveInv /\ Tree(disk) BY DEF Within, DriveInv
    <3>4. Working(r2.items) BY <3>1, <3>2, <3>3, <1>2, WorkingLookupAny
    <3> QED BY <3>1, <3>2, <3>4, <1>2, LookIn
  <2>2. CASE ~r1.ok
    <3>1. r2 = r1 BY <1>1, <2>2
    <3> QED BY <3>1, <1>2
  <2> QED BY <2>1, <2>2
<1> QED BY <1>1, <1>3, ChangeIn

\* A file is opened.
LEMMA OpenedIn ==
  ASSUME NEW A, Within(A), NEW p \in Seq(STRING), NEW dk, NEW its, Working(its), ListsIn(its, A),
         NEW result, OpenedAs(p, dk, its, result)
  PROVE  ListsIn(items', A)
<1>1. ListsIn(GetHandle(its, p, now).items, A) BY AskIn
<1> QED BY <1>1, EffectIn DEF OpenedAs

\* A new file is made.
LEMMA MakeFileIn ==
  ASSUME NEW A, Within(A), NEW cp \in ClientPaths, NEW r, Working(r.items), ListsIn(r.items, A),
         r.path \in Seq(STRING), NEW ro, MakeFile(cp, r, ro)
  PROVE  ListsIn(items', A)
<1> DEFINE dk == Created(r.path, ro)
<1>1. PICK again : /\ again = Lookup(dk, r.items, cp, TRUE)
                   /\ \/ OpenedAs(r.path, dk, again.items, Result(cp, r.path))
                      \/ Effect(dk, again.items, NoResult)
  BY Zenon DEF MakeFile
<1>2. dk = disk' BY <1>1 DEF OpenedAs, Effect, SetDisk
<1> HIDE DEF dk
<1>3. cp \in Seq(Shorts \cup {All}) BY ClientPathOK
<1>4. Working(again.items) BY <1>1, <1>2, <1>3, WorkingLookupAny DEF Within
<1>5. ListsIn(again.items, A) BY <1>1, <1>2, <1>3, LookIn
<1>6. CASE OpenedAs(r.path, dk, again.items, Result(cp, r.path)) BY <1>4, <1>5, <1>6, OpenedIn
<1>7. CASE Effect(dk, again.items, NoResult) BY <1>5, <1>7, EffectIn
<1> QED BY <1>1, <1>6, <1>7

\* CREATE_FILE and EXTENDED_OPEN_CREATE_FILE
LEMMA CreateIn ==
  ASSUME NEW A, Within(A), NEW cp \in ClientPaths, NEW r, r = Lookup(disk, items, cp, FALSE),
         \/ Answer(r.items)
         \/ \E ro : MakeFile(cp, r, ro)
         \/ \E dk, result : OpenedAs(r.path, dk, r.items, result)
  PROVE  ListsIn(items', A)
<1>1. Working(r.items) /\ r.path \in Seq(STRING) /\ ListsIn(r.items, A) BY PathIn
<1>2. CASE Answer(r.items) BY <1>1, <1>2, EffectIn DEF Answer
<1>3. CASE \E ro : MakeFile(cp, r, ro) BY <1>1, <1>3, MakeFileIn
<1>4. CASE \E dk, result : OpenedAs(r.path, dk, r.items, result) BY <1>1, <1>4, OpenedIn
<1> QED BY <1>2, <1>3, <1>4

\* READ, WRITE and the other requests with a handle
LEMMA HandleRequestIn ==
  ASSUME NEW A, Within(A), NEW h, HandleRequest(h)
  PROVE  ListsIn(items', A)
<1> DEFINE x == [items[h] EXCEPT !.used = now]
           used == [items EXCEPT ![h] = x]
<1>1. h \in 1 .. Len(items) /\ items[h] \in Item(now) /\ now \in Nat /\ ItemsOK(items, now)
  BY HandleRequestIs, ItemFields DEF DriveInv, Within
<1>2. x \in Item(now) /\ x.path = items[h].path /\ x.used = now /\ x.list = items[h].list
  BY <1>1 DEF Item
<1>3. [items EXCEPT ![h].used = now] = used OBVIOUS
<1> HIDE DEF x
<1>4. Len(used) = Len(items) /\ \A g \in 1 .. Len(items) : used[g] = IF g = h THEN x ELSE items[g]
  BY <1>1, <1>2, SetItem
<1> HIDE DEF used
<1>5. \A g \in 1 .. Len(items) : used[g].path = items[g].path /\ used[g].list = items[g].list
  BY <1>2, <1>4
<1>6. ListsIn(items, A) BY DEF Within
<1>7. ListsIn(used, A) BY <1>4, <1>5, <1>6 DEF ListsIn
<1>8. items' = items \/ items' = used BY <1>3, HandleRequestIs DEF Effect
<1> QED BY <1>6, <1>7, <1>8

\* The places behind nth of the entries a search with these attributes returns.
Hits(l, attr, nth) == {n \in nth + 1 .. Len(l) : {l[n].kind} \ {"file"} \subseteq attr}

(***************************************************************************)
(* What find_file does: it makes the list of the handle if it has to, and  *)
(* returns the first of those places.  For the label it does not look.     *)
(***************************************************************************)
Scans(f, its, h, nth) ==
  /\ Len(f.items) = Len(its)
  /\ \A g \in 1 .. Len(its) :
       /\ f.items[g].path = its[g].path
       /\ f.items[g].list = IF g = h /\ (nth = 0 \/ its[h].list = <<>>)
                            THEN DirectoryList(disk, its[h].path) ELSE its[g].list
Finds(f, l, attr, nth) ==
  IF Hits(l, attr, nth) = {} THEN f.n = 0
  ELSE /\ f.n \in Hits(l, attr, nth) /\ \A i \in Hits(l, attr, nth) : f.n <= i
       /\ f.name = l[f.n].name
Answers(f, its, h, attr, nth) ==
  IF attr = {"vol"} THEN f.items = its /\ f.name = NoName
  ELSE Scans(f, its, h, nth) /\ Finds(f, f.items[h].list, attr, nth)

\* find_file does that.
LEMMA FindFileIs ==
  ASSUME DriveInv, NEW its, Working(its), NEW h \in 1 .. Len(its), NEW attr, NEW nth \in Nat
  PROVE  Answers(FindFile(its, h, attr, nth), its, h, attr, nth)
<1> DEFINE f == FindFile(its, h, attr, nth)
           scanned == Scanned(its, h, nth)
           list == scanned[h].list
           hits == Hits(list, attr, nth)
           m == IF nth = 0 /\ HasLabel THEN 1 ELSE 0
           nm == list[Least(hits)].name
<1>1. now \in Nat /\ ItemsOK(its, now) BY DEF DriveInv, Working
<1>2. /\ Len(scanned) = Len(its)
      /\ \A g \in 1 .. Len(its) :
           /\ scanned[g].path = its[g].path
           /\ scanned[g].list = IF g = h /\ (nth = 0 \/ its[h].list = <<>>)
                                THEN DirectoryList(disk, its[h].path) ELSE its[g].list
  <2> DEFINE new == nth = 0
             b == Listed(disk, its, h, new, now)
  <2>1. scanned = b BY DEF Scanned, Listed
  <2>2. /\ Len(b) = Len(its)
        /\ \A g \in 1 .. Len(its) :
             /\ b[g].path = its[g].path
             /\ b[g].list = IF g = h /\ (new \/ its[h].list = <<>>)
                            THEN DirectoryList(disk, its[h].path) ELSE its[g].list
    <3> HIDE DEF new
    <3> QED BY <1>1, ListedLists
  <2> HIDE DEF scanned, b
  <2> QED BY <2>1, <2>2
<1>3. hits # {} => Least(hits) \in hits /\ \A i \in hits : Least(hits) <= i
  <2>1. hits \in SUBSET Nat BY DEF Hits
  <2> HIDE DEF hits
  <2> QED BY <2>1, LeastOf
<1>4. f = IF attr = {"vol"} THEN [items |-> its, n |-> m, name |-> NoName]
          ELSE IF hits = {} THEN [items |-> scanned, n |-> 0, name |-> NoName]
          ELSE [items |-> scanned, n |-> Least(hits), name |-> nm]
  BY Zenon DEF FindFile, Hits
<1> HIDE DEF scanned, hits, m, nm, f
<1>5. CASE attr = {"vol"}
  <2>1. f = [items |-> its, n |-> m, name |-> NoName] BY <1>4, <1>5
  <2>2. f.items = its /\ f.name = NoName BY <2>1
  <2> QED BY <2>2, <1>5 DEF Answers, f
<1>6. CASE attr # {"vol"} /\ hits = {}
  <2>1. f = [items |-> scanned, n |-> 0, name |-> NoName] BY <1>4, <1>6
  <2>2. f.items = scanned /\ f.n = 0 BY <2>1
  <2>3. Scans(f, its, h, nth) BY <2>2, <1>2 DEF Scans
  <2>4. Finds(f, f.items[h].list, attr, nth) BY <2>2, <1>6 DEF Finds, hits
  <2> QED BY <2>3, <2>4, <1>6 DEF Answers, f
<1>7. CASE attr # {"vol"} /\ hits # {}
  <2>1. f = [items |-> scanned, n |-> Least(hits), name |-> nm] BY <1>4, <1>7
  <2>2. f.items = scanned /\ f.n = Least(hits) /\ f.name = nm BY <2>1
  <2>3. Scans(f, its, h, nth) BY <2>2, <1>2 DEF Scans
  <2>4. Finds(f, f.items[h].list, attr, nth) BY <2>2, <1>3, <1>7 DEF Finds, hits, nm
  <2> QED BY <2>3, <2>4, <1>7 DEF Answers, f
<1> QED BY <1>5, <1>6, <1>7

\* FIND_FIRST and FIND_NEXT
LEMMA FindFileIn ==
  ASSUME NEW A, Within(A), NEW its, Working(its), ListsIn(its, A), NEW h \in 1 .. Len(its),
         NEW attr, NEW nth \in Nat
  PROVE  ListsIn(FindFile(its, h, attr, nth).items, A)
<1> DEFINE f == FindFile(its, h, attr, nth)
<1>1. DriveInv /\ Closed(disk, A) /\ now \in Nat /\ ItemsOK(its, now)
  BY DEF Within, DriveInv, Working
<1>2. Answers(f, its, h, attr, nth) BY <1>1, FindFileIs
<1>3. \A g \in 1 .. Len(its) : its[g].path \in Seq(STRING) BY <1>1, ItemFields
<1> HIDE DEF f
<1>4. CASE attr = {"vol"} BY <1>2, <1>4 DEF Answers, f
<1>5. CASE attr # {"vol"}
  <2>1. Scans(f, its, h, nth) BY <1>2, <1>5 DEF Answers
  <2>2. ListsIn(f.items, A) BY <2>1, <1>1, <1>3 DEF Scans, ListsIn, Closed
  <2> QED BY <2>2 DEF f
<1> QED BY <1>4, <1>5

\* DELETE_FILE with a pattern and FIND_FIRST: the handle of the directory.
LEMMA PatternIn ==
  ASSUME NEW A, Within(A), NEW dir \in ClientDirs,
         NEW r, r = Lookup(disk, items, Append(dir, All), FALSE)
  PROVE  /\ ListsIn(r.items, A) /\ Working(r.items)
         /\ r.ok => LET g == GetHandle(r.items, Front(r.path), now)
                    IN  ListsIn(g.items, A) /\ Working(g.items) /\ g.h \in 1 .. Len(g.items)
<1>1. DriveInv BY DEF Within
<1>2. Append(dir, All) \in Seq(Shorts \cup {All}) BY ClientPathOK
<1>3. ListsIn(r.items, A) BY <1>2, FirstIn
<1>4. Working(r.items) /\ (r.ok => Front(r.path) \in Seq(STRING)) BY <1>1, PatternLookup
<1>5. ASSUME r.ok
      PROVE  LET g == GetHandle(r.items, Front(r.path), now)
             IN  ListsIn(g.items, A) /\ Working(g.items) /\ g.h \in 1 .. Len(g.items)
  <2>1. Front(r.path) \in Seq(STRING) BY <1>4, <1>5
  <2>2. ListsIn(GetHandle(r.items, Front(r.path), now).items, A) BY <2>1, <1>3, <1>4, AskIn
  <2> QED BY <2>1, <2>2, <1>1, <1>4, WorkingHandle
<1> QED BY <1>3, <1>4, <1>5

\* DELETE_FILE with a pattern
LEMMA DeleteMatchingIn ==
  ASSUME NEW A, Within(A), NEW dir \in ClientDirs, DeleteMatching(dir)
  PROVE  ListsIn(items', A)
<1>1. PICK r : /\ r = Lookup(disk, items, Append(dir, All), FALSE)
               /\ \/ Answer(items)
                  \/ Answer(r.items)
                  \/ /\ r.ok
                     /\ \E p \in {Front(r.path)}, g \in {GetHandle(r.items, Front(r.path), now)} :
                          Effect(Without(disk, Victims(g.items[g.h].list, p)), g.items,
                                 [op |-> "deleted", path |-> p])
  BY Zenon DEF DeleteMatching
<1>2. ListsIn(r.items, A) /\ ListsIn(items, A) BY <1>1, PatternIn DEF Within
<1>3. CASE Answer(items) BY <1>2, <1>3, EffectIn DEF Answer
<1>4. CASE Answer(r.items) BY <1>2, <1>4, EffectIn DEF Answer
<1>5. ASSUME r.ok, NEW p, p = Front(r.path), NEW g, g = GetHandle(r.items, p, now),
             Effect(Without(disk, Victims(g.items[g.h].list, p)), g.items,
                    [op |-> "deleted", path |-> p])
      PROVE  ListsIn(items', A)
  <2>1. ListsIn(g.items, A) BY <1>1, <1>5, PatternIn
  <2> QED BY <2>1, <1>5, EffectIn
<1> QED BY <1>1, <1>3, <1>4, <1>5, Zenon

\* FIND_FIRST
LEMMA FindFirstIn ==
  ASSUME NEW A, Within(A), NEW s, NEW dir \in ClientDirs, NEW attr, FindFirst(s, dir, attr)
  PROVE  ListsIn(items', A)
<1> DEFINE New(g, p) == [h |-> g.h, attr |-> attr, nth |-> 0, dir |-> p,
                         due |-> Due(p, attr), clean |-> TRUE]
<1>1. PICK r : /\ r = Lookup(disk, items, Append(dir, All), FALSE)
               /\ \/ SearchFails(s, r.items)
                  \/ /\ r.ok
                     /\ \E p \in {Front(r.path)}, g \in {GetHandle(r.items, Front(r.path), now)} :
                          Searched(s, New(g, p), FindFile(g.items, g.h, attr, 0))
  BY Zenon DEF FindFirst
<1> HIDE DEF New
<1>2. CASE SearchFails(s, r.items)
  <2>1. ListsIn(r.items, A) BY <1>1, PatternIn
  <2> QED BY <2>1, <1>2 DEF SearchFails
<1>3. ASSUME r.ok, NEW p, p = Front(r.path), NEW g, g = GetHandle(r.items, p, now),
             Searched(s, New(g, p), FindFile(g.items, g.h, attr, 0))
      PROVE  ListsIn(items', A)
  <2>1. ListsIn(g.items, A) /\ Working(g.items) /\ g.h \in 1 .. Len(g.items)
    BY <1>1, <1>3, PatternIn
  <2>2. ListsIn(FindFile(g.items, g.h, attr, 0).items, A) BY <2>1, FindFileIn
  <2> QED BY <2>2, <1>3 DEF Searched
<1> QED BY <1>1, <1>2, <1>3, Zenon

\* FIND_NEXT
LEMMA FindNextIn ==
  ASSUME NEW A, Within(A), NEW s \in Searches, FindNext(s)
  PROVE  ListsIn(items', A)
<1> DEFINE sr == search[s]
           f == FindFile(items, sr.h, sr.attr, sr.nth)
<1>1. DriveInv /\ ListsIn(items, A) BY DEF Within
<1>2. sr.nth \in Nat BY <1>1 DEF FindNext, DriveInv, SearchOK
<1>3. CASE SearchFails(s, items) BY <1>1, <1>3 DEF SearchFails
<1>4. CASE sr.h \in DOMAIN items /\ Searched(s, sr, f)
  <2>1. sr.h \in 1 .. Len(items) BY <1>1, <1>4, ItemFields DEF DriveInv
  <2>2. ListsIn(f.items, A) BY <1>1, <1>2, <2>1, WorkingStart, FindFileIn
  <2> HIDE DEF f
  <2> QED BY <2>2, <1>4 DEF Searched
<1> QED BY <1>3, <1>4 DEF FindNext

\* Every step stays in a set that is closed for both disks.
LEMMA StepIn ==
  ASSUME DriveInv, Next, NEW A, Closed(disk, A), Closed(disk', A), ListsIn(items, A)
  PROVE  ListsIn(items', A)
<1>1. Within(A) BY DriveStep DEF Within, StepOK, DriveInv
<1>2. NewFiles \subseteq ClientPaths /\ NewDirs \subseteq ClientPaths BY DriveAssumption
<1>3. CASE ClientRequest
  <2>1. ASSUME NEW cp \in NewDirs, MakeDir(cp) PROVE ListsIn(items', A)
    <3>1. PICK r, ok, dk : /\ r = Lookup(disk, items, cp, FALSE)
                           /\ ChangeAndRebuild(r, ok, dk, cp)
      BY <2>1, Zenon DEF MakeDir
    <3> QED BY <3>1, <1>1, <1>2, PathIn, ChangeIn
  <2>2. ASSUME NEW cp \in ClientPaths, RemoveDir(cp) PROVE ListsIn(items', A)
    <3>1. PICK r, ok, dk : /\ r = Lookup(disk, items, cp, FALSE)
                           /\ ChangeAndRebuild(r, ok, dk, cp)
      BY <2>2, Zenon DEF RemoveDir
    <3> QED BY <3>1, <1>1, PathIn, ChangeIn
  <2>3. ASSUME NEW dir \in ClientDirs, ChangeDir(dir) PROVE ListsIn(items', A)
    <3>1. dir \in Seq(Shorts \cup {All}) BY ClientPathOK
    <3>2. ListsIn(Lookup(disk, items, dir, FALSE).items, A) BY <3>1, <1>1, FirstIn
    <3> QED BY <3>2, <2>3, EffectIn DEF ChangeDir, Answer
  <2>4. ASSUME NEW cp \in ClientPaths, GetAttrs(cp) PROVE ListsIn(items', A)
    <3>1. ListsIn(Lookup(disk, items, cp, FALSE).items, A) BY <1>1, PathIn
    <3> QED BY <3>1, <2>4, EffectIn DEF GetAttrs, Answer
  <2>5. ASSUME NEW cp \in ClientPaths, NEW ro, SetAttrs(cp, ro) PROVE ListsIn(items', A)
    <3>1. CASE Answer(items) BY <3>1, EffectIn DEF Answer
    <3>2. ASSUME NEW r, r = Lookup(disk, items, cp, FALSE), NEW ok, NEW dk,
                 ChangeAndRebuild(r, ok, dk, cp)
          PROVE  ListsIn(items', A)
      BY <3>2, <1>1, PathIn, ChangeIn
    <3> QED BY <3>1, <3>2, <2>5, Zenon DEF SetAttrs
  <2>6. ASSUME NEW cp1 \in ClientPaths, NEW cp2 \in NewFiles \cup NewDirs, Rename(cp1, cp2)
        PROVE  ListsIn(items', A)
    BY <2>6, <1>1, <1>2, RenameIn
  <2>7. ASSUME NEW cp \in ClientPaths, DeleteFile(cp) PROVE ListsIn(items', A)
    <3>1. PICK r : /\ r = Lookup(disk, items, cp, FALSE)
                   /\ \/ Answer(items)
                      \/ \E dk, result : Effect(dk, r.items, result)
      BY <2>7, Zenon DEF DeleteFile, Answer
    <3>2. ListsIn(r.items, A) BY <3>1, <1>1, PathIn
    <3>3. CASE Answer(items) BY <3>3, EffectIn DEF Answer
    <3>4. CASE \E dk, result : Effect(dk, r.items, result) BY <3>2, <3>4, EffectIn
    <3> QED BY <3>1, <3>3, <3>4
  <2>8. ASSUME NEW dir \in ClientDirs, DeleteMatching(dir) PROVE ListsIn(items', A)
    BY <2>8, <1>1, DeleteMatchingIn
  <2>9. ASSUME NEW cp \in ClientPaths, NEW write, OpenFile(cp, write) PROVE ListsIn(items', A)
    <3>1. PICK r : /\ r = Lookup(disk, items, cp, FALSE)
                   /\ \/ Answer(r.items)
                      \/ \E dk, result : OpenedAs(r.path, dk, r.items, result)
      BY <2>9, Zenon DEF OpenFile
    <3> QED BY <3>1, <1>1, CreateIn
  <2>10. ASSUME NEW cp \in NewFiles, NEW ro, CreateFile(cp, ro) PROVE ListsIn(items', A)
    <3>1. PICK r : /\ r = Lookup(disk, items, cp, FALSE)
                   /\ \/ Answer(r.items)
                      \/ \E x : MakeFile(cp, r, x)
                      \/ \E dk, result : OpenedAs(r.path, dk, r.items, result)
      BY <2>10, Zenon DEF CreateFile
    <3> QED BY <3>1, <1>1, <1>2, CreateIn
  <2>11. ASSUME NEW cp \in NewFiles, ExtendedOpen(cp) PROVE ListsIn(items', A)
    <3>1. PICK r : /\ r = Lookup(disk, items, cp, FALSE)
                   /\ \/ Answer(r.items)
                      \/ \E x : MakeFile(cp, r, x)
                      \/ \E dk, result : OpenedAs(r.path, dk, r.items, result)
      BY <2>11, ExtendedOpenIs, Zenon
    <3> QED BY <3>1, <1>1, <1>2, CreateIn
  <2>12. ASSUME NEW h, HandleRequest(h) PROVE ListsIn(items', A)
    BY <2>12, <1>1, HandleRequestIn
  <2>13. ASSUME NEW s, NEW dir \in ClientDirs, NEW attr, FindFirst(s, dir, attr)
         PROVE  ListsIn(items', A)
    BY <2>13, <1>1, FindFirstIn
  <2>14. ASSUME NEW s \in Searches, FindNext(s) PROVE ListsIn(items', A)
    BY <2>14, <1>1, FindNextIn
  <2>15. ASSUME NEW s, EndSearch(s) PROVE ListsIn(items', A)
    BY <2>15 DEF EndSearch, SearchFails
  <2> QED BY <1>3, <2>1, <2>2, <2>3, <2>4, <2>5, <2>6, <2>7, <2>8, <2>9, <2>10, <2>11, <2>12,
             <2>13, <2>14, <2>15 DEF ClientRequest, HandleRequest
<1>4. CASE \E p \in HostPaths : HostChange(p) BY <1>4, EffectIn DEF HostChange
<1>5. CASE Tick BY <1>5 DEF Tick
<1>6. CASE Restart
  <2>1. items' = <<>> BY <1>6 DEF Restart, Answer, Effect
  <2>2. Len(<<>>) = 0 OBVIOUS
  <2> QED BY <2>1, <2>2 DEF ListsIn
<1> QED BY <1>3, <1>4, <1>5, <1>6 DEF Next

-----------------------------------------------------------------------------
(* What a step does to the disk *)

\* The path r that a request found on the drive for the client's path cp.
Looked(r, cp) ==
  /\ Working(r.items) /\ r.path \in Seq(STRING)
  /\ r.ok => r.path # Root /\ Len(r.path) = Len(cp) /\ FoundAs(disk, cp, Len(cp), r)

LEMMA LookupIs ==
  ASSUME DriveInv, NEW a, Working(a), NEW cp \in ClientPaths
  PROVE  Looked(Lookup(disk, a, cp, FALSE), cp)
<1> DEFINE r == Lookup(disk, a, cp, FALSE)
<1>1. cp \in Seq(Shorts \cup {All}) /\ cp # <<>> BY ClientPathOK
<1>2. Tree(disk) /\ now \in Nat /\ ItemsOK(a, now) BY DEF DriveInv, Working
<1>3. Working(r.items) /\ r.path \in Seq(STRING) /\ (r.ok => r.path # Root)
  BY <1>1, <1>2, WorkingLookup
<1>4. PathOK(a, r, Len(cp), now) BY <1>1, <1>2, LookupOK DEF Lookup
<1>5. FoundAs(disk, cp, Len(cp), r) BY <1>1, <1>2, LookupFinds DEF Lookup
<1> HIDE DEF r
<1>6. Looked(r, cp) BY <1>3, <1>4, <1>5 DEF Looked, PathOK
<1> QED BY <1>6 DEF r

\* The first lookup of a request.
LEMMA FirstIs ==
  ASSUME DriveInv, NEW cp \in ClientPaths
  PROVE  Looked(Lookup(disk, items, cp, FALSE), cp)
BY WorkingStart, LookupIs

\* The new name of a request is one of Order.
LEMMA NewName ==
  ASSUME NEW cp \in NewFiles \cup NewDirs, NEW r, Looked(r, cp), r.ok, r.path \notin DOMAIN disk
  PROVE  Last(r.path) \in Names
<1>1. cp \in Seq(Shorts \cup {All}) /\ cp # <<>> BY ClientPathOK, DriveAssumption
<1>2. Len(cp) > 0
  <2>1. Len(cp) \in Nat /\ Len(cp) # 0 BY <1>1, LenProperties, EmptySeq
  <2> QED BY <2>1
<1>3. FoundAs(disk, cp, Len(cp), r) BY DEF Looked
<1>4. Last(r.path) = HostName[cp[Len(cp)]] BY <1>2, <1>3 DEF FoundAs
<1> QED BY <1>4, DriveAssumption DEF Last

\* The lists on the way to cp were made anew at the end of a request.
Rebuilds(cp) ==
  \E a, y, r : /\ Working(a) /\ y \in Seq(STRING) /\ r = Lookup(disk', a, cp, TRUE)
               /\ items' = r.items \/ items' = GetHandle(r.items, y, now).items

\* And x is what the client's path cp stands for.
Rebuilt(cp, x) ==
  /\ cp \in NewFiles \cup NewDirs /\ x \in DOMAIN disk' /\ Len(x) = Len(cp)
  /\ \A i \in 1 .. Len(cp) : OwnName(cp[i]) => x[i] = HostName[cp[i]]
  /\ Rebuilds(cp)

\* Something new on the disk.
NewOnDisk(x) ==
  /\ Last(x) \in Names
  /\ AttrsStored => Front(x) \in behind' \/ \E cp : Rebuilt(cp, x)

(***************************************************************************)
(* A step makes no directory a file; the lists on the way to what it makes *)
(* are rebuilt, unless it changes the directory behind the back of them.   *)
(***************************************************************************)
KindsKept == \A x \in DOMAIN disk \cap DOMAIN disk' : disk'[x].dir = disk[x].dir
Changed ==
  /\ KindsKept
  /\ \A x \in DOMAIN disk' \ DOMAIN disk : NewOnDisk(x)
  /\ AttrsStored /\ last'.op = "made" => Rebuilt(last'.cp, last'.path)
  /\ last'.op = "deleted" => \E dir \in ClientDirs : DeleteMatching(dir)
  /\ behind \subseteq behind'

\* The disk keeps its files or loses some.
LEMMA NothingNew ==
  ASSUME last' = NoResult \/ last' = Written, behind \subseteq behind',
         DOMAIN disk' \subseteq DOMAIN disk, KindsKept
  PROVE  Changed
BY DEF Changed, NoResult, Written

LEMMA NothingChanges ==
  ASSUME last' = NoResult \/ last' = Written, behind' = behind, disk' = disk
  PROVE  Changed
BY NothingNew DEF KindsKept

LEMMA AnswerChanges ==
  ASSUME NEW its, Answer(its)
  PROVE  Changed
BY NothingChanges DEF Answer, Effect, SetDisk

LEMMA WithoutChanges ==
  ASSUME NEW P, disk' = Without(disk, P), last' = NoResult, behind' = behind
  PROVE  Changed
BY NothingNew DEF Without, KindsKept

\* Something is put on the disk.
LEMMA PutChanges ==
  ASSUME NEW cp \in NewFiles \cup NewDirs, NEW r, Looked(r, cp), r.ok, NEW attrs,
         disk' = Put(disk, r.path, attrs), behind' = behind,
         r.path \in DOMAIN disk => attrs.dir = disk[r.path].dir,
         AttrsStored /\ r.path \notin DOMAIN disk => Rebuilds(cp),
         \/ last' = NoResult \/ last' = Written
         \/ r.path \notin DOMAIN disk /\ last' = [op |-> "made", cp |-> cp, path |-> r.path]
  PROVE  Changed
<1> DEFINE x == r.path
<1>1. x \in DOMAIN disk' /\ DOMAIN disk' = DOMAIN disk \cup {x} BY DEF Put
<1>2. KindsKept BY DEF Put, KindsKept
<1>3. AttrsStored /\ x \notin DOMAIN disk => Rebuilt(cp, x)
  <2> SUFFICES ASSUME AttrsStored, x \notin DOMAIN disk PROVE Rebuilt(cp, x) OBVIOUS
  <2>1. Len(x) = Len(cp) /\ FoundAs(disk, cp, Len(cp), r) BY DEF Looked
  <2>2. ASSUME NEW i \in 1 .. Len(cp), OwnName(cp[i]) PROVE x[i] = HostName[cp[i]]
    <3>1. Len(cp) \in Nat BY ClientPathOK, DriveAssumption, LenProperties
    <3>2. Len(cp) > 0 BY <3>1
    <3> QED BY <2>1, <2>2, <3>2 DEF FoundAs
  <2> QED BY <2>1, <2>2, <1>1 DEF Rebuilt
<1>4. x \notin DOMAIN disk => Last(x) \in Names BY NewName
<1>5. \A z \in DOMAIN disk' \ DOMAIN disk : NewOnDisk(z) BY <1>1, <1>3, <1>4 DEF NewOnDisk
<1>6. CASE last' = NoResult \/ last' = Written
  BY <1>2, <1>5, <1>6 DEF Changed, NoResult, Written
<1>7. CASE x \notin DOMAIN disk /\ last' = [op |-> "made", cp |-> cp, path |-> x]
  <2>1. last'.op = "made" /\ last'.cp = cp /\ last'.path = x BY <1>7
  <2> QED BY <2>1, <1>2, <1>3, <1>5, <1>7 DEF Changed
<1> QED BY <1>6, <1>7

\* A request is refused, or it changes the disk and rebuilds the lists.
Outcome(r, ok, dk, cp) ==
  \/ disk' = disk /\ last' = NoResult
  \/ /\ ok /\ ~readOnly /\ disk' = dk /\ Rebuilds(cp)
     /\ \/ last' = NoResult
        \/ /\ r.path \notin DOMAIN disk
           /\ last' = [op |-> "made", cp |-> cp, path |-> r.path]

LEMMA RebuildIs ==
  ASSUME DriveInv, NEW r, NEW ok, NEW dk, NEW cp, Working(r.items),
         ChangeAndRebuild(r, ok, dk, cp)
  PROVE  Outcome(r, ok, dk, cp)
<1>1. CASE Answer(items) BY <1>1 DEF Answer, Effect, SetDisk, Outcome
<1>2. CASE Answer(r.items) BY <1>2 DEF Answer, Effect, SetDisk, Outcome
<1>3. ASSUME ok, ~readOnly, NEW again, again = Lookup(dk, r.items, cp, TRUE), NEW result,
             result = NoResult \/ (/\ r.path \notin DOMAIN disk
                                   /\ result = [op |-> "made", cp |-> cp, path |-> r.path]),
             Effect(dk, again.items, result)
      PROVE  Outcome(r, ok, dk, cp)
  <2>1. disk' = dk /\ items' = again.items /\ last' = result BY <1>3 DEF Effect, SetDisk
  <2>2. <<>> \in Seq(STRING) OBVIOUS
  <2>3. again = Lookup(disk', r.items, cp, TRUE) BY <1>3, <2>1
  <2>4. Rebuilds(cp) BY <2>1, <2>2, <2>3 DEF Rebuilds
  <2> QED BY <1>3, <2>1, <2>4 DEF Outcome
<1>4. \/ Answer(items)
      \/ Answer(r.items)
      \/ /\ ok /\ ~readOnly
         /\ \E again, result :
              /\ again = Lookup(dk, r.items, cp, TRUE)
              /\ result = NoResult \/ (/\ r.path \notin DOMAIN disk
                                       /\ result = [op |-> "made", cp |-> cp, path |-> r.path])
              /\ Effect(dk, again.items, result)
  <2>1. ASSUME NEW again, Effect(dk, again.items,
                   IF again.ok /\ r.path \notin DOMAIN disk
                   THEN [op |-> "made", cp |-> cp, path |-> r.path]
                   ELSE NoResult)
        PROVE  \E result :
                 /\ result = NoResult \/ (/\ r.path \notin DOMAIN disk
                                          /\ result = [op |-> "made", cp |-> cp, path |-> r.path])
                 /\ Effect(dk, again.items, result)
    <3> DEFINE result == IF again.ok /\ r.path \notin DOMAIN disk
                         THEN [op |-> "made", cp |-> cp, path |-> r.path] ELSE NoResult
    <3>1. result = NoResult \/ (/\ r.path \notin DOMAIN disk
                                /\ result = [op |-> "made", cp |-> cp, path |-> r.path])
      OBVIOUS
    <3>2. Effect(dk, again.items, result) BY <2>1
    <3> HIDE DEF result
    <3> QED BY <3>1, <3>2
  <2> QED BY <2>1, Zenon DEF ChangeAndRebuild
<1> QED BY <1>1, <1>2, <1>3, <1>4

\* What is on the disk after a rename: what has moved, and the rest.
LEMMA MoveIs ==
  ASSUME NEW dk, Tree(dk), NEW p, NEW q \in Seq(STRING), q # Root, CanMove(dk, p, q)
  PROVE  /\ \A s \in DOMAIN dk : Below(s, p) => /\ Moved(p, q, s) \in DOMAIN Move(dk, p, q)
                                                /\ Move(dk, p, q)[Moved(p, q, s)] = dk[s]
         /\ \A x \in DOMAIN Move(dk, p, q) :
              \/ \E s \in DOMAIN dk : Below(s, p) /\ x = Moved(p, q, s)
              \/ x \in DOMAIN dk /\ ~Below(x, p) /\ x # q /\ Move(dk, p, q)[x] = dk[x]
<1> DEFINE moved == {r \in DOMAIN dk : Below(r, p)}
           To(r) == Moved(p, q, r)
           From(r) == CHOOSE s \in moved : To(s) = r
           come == {To(r) : r \in moved}
           D == (DOMAIN dk \ (moved \cup {q})) \cup come
           e == [r \in D |-> IF r \in come THEN dk[From(r)] ELSE dk[r]]
<1>1. p \in Seq(STRING) BY TreeOf DEF CanMove
<1>2. \A s \in moved : s \in Seq(STRING) /\ Below(s, p) BY TreeOf
<1>3. Move(dk, p, q) = e BY Zenon DEF Move, Moved
<1>4. \A s \in moved : From(To(s)) = s
  <2> TAKE s \in moved
  <2>1. \A r \in moved : To(r) = To(s) => r = s BY <1>1, <1>2, MovedInjective
  <2> HIDE DEF moved, To
  <2> QED BY <2>1
<1>5. ASSUME NEW s \in moved PROVE To(s) \in DOMAIN e /\ e[To(s)] = dk[s]
  <2>1. To(s) \in come OBVIOUS
  <2>2. To(s) \in DOMAIN e /\ e[To(s)] = dk[From(To(s))] BY <2>1
  <2> HIDE DEF e, From, To, moved
  <2> QED BY <2>2, <1>4
<1>6. ASSUME NEW x \in DOMAIN e
      PROVE  \/ \E s \in DOMAIN dk : Below(s, p) /\ x = Moved(p, q, s)
             \/ x \in DOMAIN dk /\ ~Below(x, p) /\ x # q /\ e[x] = dk[x]
  <2>1. CASE x \in come BY <2>1
  <2>2. CASE x \notin come BY <2>2
  <2> QED BY <2>1, <2>2
<1>7. \A s \in DOMAIN dk : Below(s, p) => s \in moved OBVIOUS
<1> HIDE DEF e, moved
<1> QED BY <1>3, <1>5, <1>6, <1>7

\* The name of what moves with its directory stays the same.
LEMMA MovedName ==
  ASSUME NEW p \in Seq(STRING), NEW q \in Seq(STRING), NEW s \in Seq(STRING), Below(s, p)
  PROVE  /\ Moved(p, q, p) = q /\ Moved(p, p, s) = s /\ Below(Moved(p, q, s), q)
         /\ s # p => Last(Moved(p, q, s)) = Last(s) /\ Moved(p, q, s) # q
<1> DEFINE a == Len(p)
           b == Len(s)
           c == Len(q)
           x == Moved(p, q, s)
           y == Moved(p, q, p)
           z == Moved(p, p, s)
<1>1. /\ x \in Seq(STRING) /\ a \in Nat /\ c \in Nat /\ b \in Nat /\ a <= b
      /\ Len(x) = c + (b - a) /\ \A i \in 1 .. c : x[i] = q[i]
      /\ \A j \in 1 .. b - a : x[c + j] = s[a + j]
  BY MovedIs
<1>2. y \in Seq(STRING) /\ Len(y) = c + (a - a) /\ \A i \in 1 .. c : y[i] = q[i]
  BY BelowSelf, MovedIs
<1>3. /\ z \in Seq(STRING) /\ Len(z) = a + (b - a) /\ \A i \in 1 .. a : z[i] = p[i]
      /\ \A j \in 1 .. b - a : z[a + j] = s[a + j]
  BY MovedIs
<1>4. \A i \in 1 .. a : s[i] = p[i] BY BelowIs
<1> HIDE DEF a, b, c, x, y, z
<1>5. y = q
  <2>1. Len(y) = c BY <1>1, <1>2
  <2> QED BY <2>1, <1>2, SeqEqual DEF c
<1>6. z = s
  <2>1. Len(z) = b BY <1>1, <1>3
  <2>2. ASSUME NEW i \in 1 .. b PROVE z[i] = s[i]
    <3>1. CASE i <= a
      <4>1. i \in 1 .. a BY <3>1, <1>1
      <4> QED BY <4>1, <1>3, <1>4
    <3>2. CASE i > a
      <4> DEFINE j == i - a
      <4>1. j \in 1 .. b - a /\ a + j = i BY <3>2, <1>1
      <4> HIDE DEF j
      <4> QED BY <4>1, <1>3
    <3> QED BY <3>1, <3>2, <1>1
  <2> QED BY <2>1, <2>2, <1>3, SeqEqual DEF b
<1>7. Below(x, q)
  <2>1. c <= Len(x) BY <1>1
  <2> QED BY <2>1, <1>1, BelowIs DEF c
<1>8. ASSUME s # p PROVE x # q /\ Last(x) = Last(s)
  <2>1. x # q BY <1>5, <1>8, BelowSelf, MovedInjective DEF x, y
  <2>2. b # a
    <3> SUFFICES ASSUME b = a PROVE FALSE OBVIOUS
    <3> QED BY <1>4, <1>8, SeqEqual DEF a, b
  <2> DEFINE j == b - a
  <2>3. j \in 1 .. b - a /\ a + j = b /\ c + j = Len(x) BY <2>2, <1>1
  <2> HIDE DEF j
  <2>4. x[Len(x)] = s[b] BY <2>3, <1>1
  <2> QED BY <2>1, <2>4 DEF Last, b
<1> QED BY <1>5, <1>6, <1>7, <1>8 DEF x, y, z

\* A rename.
LEMMA MoveChanges ==
  ASSUME DriveInv, Named(disk), NEW cp \in NewFiles \cup NewDirs, NEW r, Looked(r, cp), r.ok,
         NEW p, CanMove(disk, p, r.path), disk' = Move(disk, p, r.path), Rebuilds(cp),
         behind' = IF IsDir(disk, p)
                   THEN behind \cup {x \in DOMAIN disk' : Below(x, r.path)} ELSE behind,
         \/ last' = NoResult
         \/ r.path \notin DOMAIN disk /\ last' = [op |-> "made", cp |-> cp, path |-> r.path]
  PROVE  Changed
<1> DEFINE q == r.path
<1>1. /\ p \in DOMAIN disk /\ p \in Seq(STRING) /\ p # Root /\ q \in Seq(STRING) /\ q # Root
      /\ q # p /\ q \in DOMAIN disk =>
           disk[q].dir = disk[p].dir /\ Children(disk, q) = {}
  BY TreeOf DEF CanMove, DriveInv, Looked
<1>2. /\ \A s \in DOMAIN disk : Below(s, p) => /\ Moved(p, q, s) \in DOMAIN disk'
                                               /\ disk'[Moved(p, q, s)] = disk[s]
      /\ \A x \in DOMAIN disk' :
           \/ \E s \in DOMAIN disk : Below(s, p) /\ x = Moved(p, q, s)
           \/ x \in DOMAIN disk /\ ~Below(x, p) /\ x # q /\ disk'[x] = disk[x]
  BY <1>1, MoveIs DEF DriveInv
<1>3. \A s \in DOMAIN disk : s \in Seq(STRING) BY TreeOf DEF DriveInv
<1>4. ASSUME NEW s \in DOMAIN disk, Below(s, p)
      PROVE  /\ Moved(p, q, p) = q /\ Moved(p, p, s) = s /\ Below(Moved(p, q, s), q)
             /\ s # p => Last(Moved(p, q, s)) = Last(s) /\ Moved(p, q, s) # q
  BY <1>1, <1>3, <1>4, MovedName
<1>5. Below(p, p) BY <1>1, BelowSelf
<1>6. ASSUME NEW x \in DOMAIN disk, x \in DOMAIN disk' PROVE disk'[x].dir = disk[x].dir
  <2>1. CASE disk'[x] = disk[x] BY <2>1
  <2>2. CASE \E s \in DOMAIN disk : Below(s, p) /\ x = Moved(p, q, s)
    <3>1. PICK s \in DOMAIN disk : Below(s, p) /\ x = Moved(p, q, s) BY <2>2
    <3>2. disk'[x] = disk[s] BY <3>1, <1>2
    <3>3. CASE s = p
      <4>1. x = q BY <3>1, <3>3, <1>4
      <4> QED BY <4>1, <3>2, <3>3, <1>1
    <3>4. CASE s # p
      <4>1. Below(x, q) /\ x # q BY <3>1, <3>4, <1>4
      <4>2. q \in DOMAIN disk /\ Children(disk, q) # {}
        BY <4>1, <1>1, BelowHasChild DEF DriveInv
      <4>3. q = p BY <4>2, <1>1
      <4>4. x = s BY <4>3, <3>1, <1>4
      <4> QED BY <4>4, <3>2
    <3> QED BY <3>3, <3>4
  <2>3. \/ disk'[x] = disk[x]
        \/ \E s \in DOMAIN disk : Below(s, p) /\ x = Moved(p, q, s)
    BY <1>2, <1>6, Zenon
  <2> QED BY <2>1, <2>2, <2>3
<1>7. q \in DOMAIN disk' BY <1>1, <1>2, <1>4, <1>5
<1>8. q \notin DOMAIN disk => Rebuilt(cp, q) /\ Last(q) \in Names
  <2> SUFFICES ASSUME q \notin DOMAIN disk PROVE Rebuilt(cp, q) /\ Last(q) \in Names OBVIOUS
  <2>1. Len(q) = Len(cp) /\ FoundAs(disk, cp, Len(cp), r) BY DEF Looked
  <2>2. ASSUME NEW i \in 1 .. Len(cp), OwnName(cp[i]) PROVE q[i] = HostName[cp[i]]
    <3>1. Len(cp) \in Nat BY ClientPathOK, DriveAssumption, LenProperties
    <3>2. Len(cp) > 0 BY <3>1
    <3> QED BY <2>1, <2>2, <3>2 DEF FoundAs
  <2>3. Last(q) \in Names BY NewName
  <2> QED BY <2>1, <2>2, <2>3, <1>7 DEF Rebuilt
<1>9. ASSUME NEW x \in DOMAIN disk', x \notin DOMAIN disk PROVE NewOnDisk(x)
  <2>1. PICK s \in DOMAIN disk : Below(s, p) /\ x = Moved(p, q, s) BY <1>2, <1>9
  <2>2. CASE s = p
    <3>1. x = q BY <2>1, <2>2, <1>4
    <3> QED BY <3>1, <1>8, <1>9 DEF NewOnDisk
  <2>3. CASE s # p
    <3>1. Last(x) \in Names BY <2>1, <2>3, <1>4 DEF Named
    <3>2. Below(Front(s), p) /\ Front(s) # Root /\ Front(x) = Moved(p, q, Front(s))
      BY <2>1, <2>3, <1>1, <1>3, MovedFront
    <3>3. Front(s) \in DOMAIN disk BY <3>2, TreeOf DEF DriveInv
    <3>4. Front(x) \in DOMAIN disk' /\ Below(Front(x), q) BY <3>2, <3>3, <1>2, <1>4
    <3>5. disk[p].dir BY <2>1, <2>3, <1>1, BelowHasChild DEF DriveInv
    <3>6. Front(x) \in behind' BY <3>4, <3>5, <1>1 DEF IsDir
    <3> QED BY <3>1, <3>6 DEF NewOnDisk
  <2> QED BY <2>2, <2>3
<1>10. behind \subseteq behind' OBVIOUS
<1>11. KindsKept BY <1>6 DEF KindsKept
<1>12. CASE last' = NoResult BY <1>9, <1>10, <1>11, <1>12 DEF Changed, NoResult
<1>13. CASE q \notin DOMAIN disk /\ last' = [op |-> "made", cp |-> cp, path |-> q]
  <2>1. last'.op = "made" /\ last'.cp = cp /\ last'.path = q BY <1>13
  <2> QED BY <2>1, <1>8, <1>9, <1>10, <1>11, <1>13 DEF Changed
<1> QED BY <1>12, <1>13

\* MAKE_DIR
LEMMA MakeDirChanges ==
  ASSUME DriveInv, NEW cp \in NewDirs, MakeDir(cp)
  PROVE  Changed
<1> DEFINE dirAttrs == [dir |-> TRUE, ro |-> FALSE]
           Ok(r) == r.ok /\ ~r.exist /\ ~Exists(disk, r.path) /\ IsDir(disk, Front(r.path))
<1>1. PICK r : /\ r = Lookup(disk, items, cp, FALSE)
               /\ ChangeAndRebuild(r, Ok(r), Put(disk, r.path, dirAttrs), cp)
               /\ behind' = behind
  BY Zenon DEF MakeDir
<1>2. cp \in ClientPaths /\ cp \in NewFiles \cup NewDirs BY DriveAssumption
<1>3. Looked(r, cp) BY <1>1, <1>2, FirstIs
<1>4. Ok(r) => r.ok /\ r.path \notin DOMAIN disk BY DEF Exists
<1> HIDE DEF Ok, dirAttrs
<1>5. Working(r.items) BY <1>3 DEF Looked
<1>6. \/ disk' = disk /\ last' = NoResult
      \/ /\ Ok(r) /\ disk' = Put(disk, r.path, dirAttrs) /\ Rebuilds(cp)
         /\ \/ last' = NoResult
            \/ /\ r.path \notin DOMAIN disk
               /\ last' = [op |-> "made", cp |-> cp, path |-> r.path]
  <2>1. Outcome(r, Ok(r), Put(disk, r.path, dirAttrs), cp) BY <1>1, <1>5, RebuildIs
  <2> QED BY <2>1 DEF Outcome
<1>7. CASE disk' = disk /\ last' = NoResult BY <1>1, <1>7, NothingChanges
<1>8. CASE Ok(r) /\ disk' = Put(disk, r.path, dirAttrs) /\ Rebuilds(cp)
  BY <1>1, <1>2, <1>3, <1>4, <1>6, <1>8, PutChanges DEF NoResult
<1> QED BY <1>6, <1>7, <1>8

\* REMOVE_DIR
LEMMA RemoveDirChanges ==
  ASSUME DriveInv, NEW cp \in ClientPaths, RemoveDir(cp)
  PROVE  Changed
<1> DEFINE Ok(r) == r.ok /\ r.exist /\ IsDir(disk, r.path) /\ Children(disk, r.path) = {}
<1>1. PICK r : /\ r = Lookup(disk, items, cp, FALSE)
               /\ ChangeAndRebuild(r, Ok(r), Without(disk, {r.path}), cp)
               /\ behind' = behind
  BY Zenon DEF RemoveDir
<1>2. Looked(r, cp) BY <1>1, FirstIs
<1>3. Working(r.items) /\ (r.ok => r.path # Root) BY <1>2 DEF Looked
<1>4. Ok(r) => r.path \in DOMAIN disk BY <1>3 DEF IsDir
<1> HIDE DEF Ok
<1>5. \/ disk' = disk /\ last' = NoResult
      \/ Ok(r) /\ disk' = Without(disk, {r.path}) /\ last' = NoResult
  <2>1. Outcome(r, Ok(r), Without(disk, {r.path}), cp) BY <1>1, <1>3, RebuildIs
  <2> QED BY <2>1, <1>4 DEF Outcome
<1> QED BY <1>1, <1>5, NothingChanges, WithoutChanges

\* SET_ATTRS
LEMMA SetAttrsChanges ==
  ASSUME DriveInv, NEW cp \in ClientPaths, NEW ro, SetAttrs(cp, ro)
  PROVE  Changed
<1>1. CASE Answer(items) BY <1>1, AnswerChanges
<1>2. ASSUME NEW r, r = Lookup(disk, items, cp, FALSE), behind' = behind,
             ChangeAndRebuild(r, r.ok /\ r.path \in DOMAIN disk,
                              [disk EXCEPT ![r.path].ro = ro], cp)
      PROVE  Changed
  <2> DEFINE dk == [disk EXCEPT ![r.path].ro = ro]
             ok == r.ok /\ r.path \in DOMAIN disk
  <2>1. Working(r.items) BY <1>2, FirstIs DEF Looked
  <2>2. ok => r.path \in DOMAIN disk OBVIOUS
  <2>3. ChangeAndRebuild(r, ok, dk, cp) BY <1>2
  <2>4. \A x \in DOMAIN disk : disk[x] \in Attributes BY TreeOf DEF DriveInv
  <2>5. DOMAIN dk = DOMAIN disk /\ \A x \in DOMAIN disk : dk[x].dir = disk[x].dir
    BY <2>4 DEF Attributes
  <2> HIDE DEF ok, dk
  <2>6. \/ disk' = disk /\ last' = NoResult
        \/ disk' = dk /\ last' = NoResult
    <3>1. Outcome(r, ok, dk, cp) BY <2>1, <2>3, RebuildIs
    <3> QED BY <3>1, <2>2 DEF Outcome
  <2>7. CASE disk' = disk /\ last' = NoResult BY <1>2, <2>7, NothingChanges
  <2>8. CASE disk' = dk /\ last' = NoResult
    BY <1>2, <2>5, <2>8, NothingNew DEF KindsKept
  <2> QED BY <2>6, <2>7, <2>8
<1> QED BY <1>1, <1>2, Zenon DEF SetAttrs

\* RENAME_FILE
LEMMA RenameChanges ==
  ASSUME DriveInv, Named(disk), NEW cp1 \in ClientPaths, NEW cp2 \in NewFiles \cup NewDirs,
         Rename(cp1, cp2)
  PROVE  Changed
<1> DEFINE Ok(r1, r2) == r1.ok /\ r2.ok /\ ~r2.exist /\ CanMove(disk, r1.path, r2.path)
           dk(r1, r2) == Move(disk, r1.path, r2.path)
<1>1. PICK r1, r2 :
        /\ r1 = Lookup(disk, items, cp1, FALSE)
        /\ r2 = (IF r1.ok THEN Lookup(disk, r1.items, cp2, FALSE) ELSE r1)
        /\ ChangeAndRebuild(r2, Ok(r1, r2), dk(r1, r2), cp2)
        /\ behind' = IF ~readOnly /\ Ok(r1, r2) /\ IsDir(disk, r1.path)
                     THEN behind \cup {x \in DOMAIN dk(r1, r2) : Below(x, r2.path)} ELSE behind
  <2>1. RenameFile(cp1, cp2) BY DEF Rename
  <2> QED BY <2>1, Zenon DEF RenameFile
<1>2. Looked(r1, cp1) BY <1>1, FirstIs
<1>3. cp2 \in ClientPaths BY DriveAssumption
<1>4. r1.ok => Looked(r2, cp2) BY <1>1, <1>2, <1>3, LookupIs DEF Looked
<1>5. Working(r2.items) BY <1>1, <1>2, <1>4 DEF Looked
<1>6. \/ disk' = disk /\ last' = NoResult
      \/ /\ Ok(r1, r2) /\ ~readOnly /\ disk' = dk(r1, r2) /\ Rebuilds(cp2)
         /\ \/ last' = NoResult
            \/ /\ r2.path \notin DOMAIN disk
               /\ last' = [op |-> "made", cp |-> cp2, path |-> r2.path]
  <2> HIDE DEF Ok, dk
  <2>1. Outcome(r2, Ok(r1, r2), dk(r1, r2), cp2) BY <1>1, <1>5, RebuildIs
  <2> QED BY <2>1 DEF Outcome
<1>7. CASE disk' = disk /\ last' = NoResult
  <2>1. behind \subseteq behind' BY <1>1
  <2> QED BY <1>7, <2>1, NothingNew DEF KindsKept
<1>8. CASE ~(disk' = disk /\ last' = NoResult)
  <2>1. /\ r1.ok /\ r2.ok /\ CanMove(disk, r1.path, r2.path) /\ ~readOnly
        /\ disk' = dk(r1, r2) /\ Rebuilds(cp2)
        /\ \/ last' = NoResult
           \/ /\ r2.path \notin DOMAIN disk
              /\ last' = [op |-> "made", cp |-> cp2, path |-> r2.path]
    BY <1>6, <1>8
  <2>2. behind' = IF IsDir(disk, r1.path)
                  THEN behind \cup {x \in DOMAIN disk' : Below(x, r2.path)} ELSE behind
    BY <1>1, <1>6, <1>8, Zenon
  <2> QED BY <1>4, <2>1, <2>2, MoveChanges
<1> QED BY <1>7, <1>8

\* DELETE_FILE
LEMMA DeleteFileChanges ==
  ASSUME NEW cp, DeleteFile(cp)
  PROVE  Changed
<1>1. PICK r : \/ Answer(items)
               \/ Answer(r.items)
               \/ Effect(Without(disk, {r.path}), r.items, NoResult) /\ behind' = behind
  BY Zenon DEF DeleteFile
<1> QED BY <1>1, AnswerChanges, WithoutChanges DEF Effect, SetDisk

LEMMA DeleteMatchingChanges ==
  ASSUME NEW dir \in ClientDirs, DeleteMatching(dir)
  PROVE  Changed
<1>1. PICK r : \/ Answer(items)
               \/ Answer(r.items)
               \/ \E P, p, its : /\ Effect(Without(disk, P), its, [op |-> "deleted", path |-> p])
                                 /\ behind' = behind
  BY Zenon DEF DeleteMatching
<1>2. CASE Answer(items) BY <1>2, AnswerChanges
<1>3. CASE Answer(r.items) BY <1>3, AnswerChanges
<1>4. ASSUME NEW P, NEW p, NEW its, behind' = behind,
             Effect(Without(disk, P), its, [op |-> "deleted", path |-> p])
      PROVE  Changed
  <2>1. disk' = Without(disk, P) /\ last'.op = "deleted" BY <1>4 DEF Effect, SetDisk
  <2>2. KindsKept /\ DOMAIN disk' \subseteq DOMAIN disk BY <2>1 DEF KindsKept, Without
  <2> QED BY <1>4, <2>1, <2>2 DEF Changed
<1> QED BY <1>1, <1>2, <1>3, <1>4

\* A file is opened with its handle.
LEMMA OpenedIs ==
  ASSUME NEW p, NEW dk, NEW its, NEW result, OpenedAs(p, dk, its, result)
  PROVE  /\ disk' = dk /\ items' = GetHandle(its, p, now).items /\ last' = result
         /\ behind' = behind
BY DEF OpenedAs, Effect, SetDisk

\* A file is made.
LEMMA MakeFileChanges ==
  ASSUME DriveInv, NEW cp \in NewFiles, NEW r, Looked(r, cp), r.ok, r.path \notin DOMAIN disk,
         NEW ro, MakeFile(cp, r, ro)
  PROVE  Changed
<1> DEFINE dk == Created(r.path, ro)
           attrs == [dir |-> FALSE, ro |-> ro /\ AttrsStored]
           made == [op |-> "made", cp |-> cp, path |-> r.path]
<1>1. PICK again : /\ again = Lookup(dk, r.items, cp, TRUE)
                   /\ \/ OpenedAs(r.path, dk, again.items, Result(cp, r.path))
                      \/ Effect(dk, again.items, NoResult) /\ behind' = behind
  BY Zenon DEF MakeFile
<1>2. Working(r.items) /\ r.path \in Seq(STRING) BY DEF Looked
<1>3. Result(cp, r.path) = made BY DEF Result
<1>4. dk = Put(disk, r.path, attrs) BY DEF Created
<1> HIDE DEF dk, made, attrs
<1>5. /\ disk' = dk /\ behind' = behind /\ (last' = NoResult \/ last' = made)
      /\ items' = again.items \/ items' = GetHandle(again.items, r.path, now).items
  BY <1>1, <1>3, OpenedIs DEF Effect, SetDisk
<1>6. again = Lookup(disk', r.items, cp, TRUE) BY <1>1, <1>5
<1>7. Rebuilds(cp) BY <1>2, <1>5, <1>6 DEF Rebuilds
<1>8. cp \in NewFiles \cup NewDirs OBVIOUS
<1> QED BY <1>4, <1>5, <1>7, <1>8, PutChanges DEF made

\* A file is replaced.
LEMMA ReplaceChanges ==
  ASSUME DriveInv, NEW cp \in NewFiles, NEW r, Looked(r, cp), MayCreate(r), NEW ro,
         AttrsStored => r.path \in DOMAIN disk,
         OpenedAs(r.path, Created(r.path, ro), r.items, Result(cp, r.path))
  PROVE  Changed
<1> DEFINE attrs == [dir |-> FALSE, ro |-> ro /\ AttrsStored]
           made == [op |-> "made", cp |-> cp, path |-> r.path]
<1>1. disk' = Put(disk, r.path, attrs) /\ last' = Result(cp, r.path) /\ behind' = behind
  BY OpenedIs DEF Created
<1>2. r.path \in DOMAIN disk => attrs.dir = disk[r.path].dir
  <2> SUFFICES ASSUME r.path \in DOMAIN disk PROVE disk[r.path].dir = FALSE OBVIOUS
  <2>1. ~disk[r.path].dir BY DEF MayCreate, CanCreate
  <2>2. disk[r.path].dir \in BOOLEAN BY TreeOf DEF DriveInv, Attributes
  <2> QED BY <2>1, <2>2
<1>3. last' = Written \/ (r.path \notin DOMAIN disk /\ last' = made) BY <1>1 DEF Result
<1>4. cp \in NewFiles \cup NewDirs /\ r.ok BY DEF MayCreate
<1> HIDE DEF attrs
<1> QED BY <1>1, <1>2, <1>3, <1>4, PutChanges DEF made

\* OPEN_FILE, CREATE_FILE, EXTENDED_OPEN_CREATE_FILE
LEMMA OpenFileChanges ==
  ASSUME NEW cp, NEW write, OpenFile(cp, write)
  PROVE  Changed
<1>1. PICK r : Answer(r.items) \/ OpenedAs(r.path, disk, r.items, NoResult)
  BY Zenon DEF OpenFile
<1> QED BY <1>1, AnswerChanges, OpenedIs, NothingChanges

LEMMA CreateFileChanges ==
  ASSUME DriveInv, NEW cp \in NewFiles, NEW ro, CreateFile(cp, ro)
  PROVE  Changed
<1>1. PICK r : /\ r = Lookup(disk, items, cp, FALSE)
               /\ \/ Answer(r.items)
                  \/ MayCreate(r) /\ r.path \notin DOMAIN disk /\ MakeFile(cp, r, ro)
                  \/ /\ MayCreate(r) /\ r.path \in DOMAIN disk
                     /\ OpenedAs(r.path, Created(r.path, ro), r.items, Result(cp, r.path))
  BY Zenon DEF CreateFile, MayCreate
<1>2. Looked(r, cp) BY <1>1, FirstIs, DriveAssumption
<1>3. CASE Answer(r.items) BY <1>3, AnswerChanges
<1>4. CASE MayCreate(r) /\ r.path \notin DOMAIN disk /\ MakeFile(cp, r, ro)
  BY <1>2, <1>4, MakeFileChanges DEF MayCreate
<1>5. CASE /\ MayCreate(r) /\ r.path \in DOMAIN disk
           /\ OpenedAs(r.path, Created(r.path, ro), r.items, Result(cp, r.path))
  BY <1>2, <1>5, ReplaceChanges
<1> QED BY <1>1, <1>3, <1>4, <1>5

LEMMA ExtendedOpenChanges ==
  ASSUME DriveInv, NEW cp \in NewFiles, ExtendedOpen(cp)
  PROVE  Changed
<1>1. PICK r, ro :
           /\ r = Lookup(disk, items, cp, FALSE) /\ ro \in NewAttrs
           /\ \/ MayCreate(r) /\ r.path \notin DOMAIN disk /\ MakeFile(cp, r, ro)
              \/ OpenedAs(r.path, disk, r.items, NoResult)
              \/ /\ MayCreate(r) /\ (AttrsStored => r.path \in DOMAIN disk)
                 /\ OpenedAs(r.path, Created(r.path, ro), r.items, Result(cp, r.path))
              \/ Answer(r.items)
  BY ExtendedOpenIs, Zenon
<1>2. Looked(r, cp) BY <1>1, FirstIs, DriveAssumption
<1>3. CASE Answer(r.items) BY <1>3, AnswerChanges
<1>4. CASE MayCreate(r) /\ r.path \notin DOMAIN disk /\ MakeFile(cp, r, ro)
  BY <1>2, <1>4, MakeFileChanges DEF MayCreate
<1>5. CASE OpenedAs(r.path, disk, r.items, NoResult) BY <1>5, OpenedIs, NothingChanges
<1>6. CASE /\ MayCreate(r) /\ (AttrsStored => r.path \in DOMAIN disk)
           /\ OpenedAs(r.path, Created(r.path, ro), r.items, Result(cp, r.path))
  BY <1>2, <1>6, ReplaceChanges
<1> QED BY <1>1, <1>3, <1>4, <1>5, <1>6

\* A change by the host
LEMMA HostChanges ==
  ASSUME NEW p \in HostPaths, HostChange(p)
  PROVE  Changed
<1> DEFINE dk == IF p \in DOMAIN disk THEN Without(disk, {p})
                 ELSE Put(disk, p, [dir |-> FALSE, ro |-> FALSE])
<1>1. disk' = dk /\ last' = NoResult /\ behind' = behind \cup {Front(p)}
  BY DEF HostChange, Effect, SetDisk
<1>2. Last(p) \in Names
  <2>1. p \in Seq(Names) /\ p # <<>> BY DriveAssumption DEF Root
  <2>2. Len(p) \in Nat /\ Len(p) # 0 BY <2>1, LenProperties, EmptySeq
  <2>3. Len(p) \in 1 .. Len(p) BY <2>2
  <2> QED BY <2>1, <2>3, ElementOfSeq DEF Last
<1>3. KindsKept BY <1>1 DEF KindsKept, Put, Without
<1>4. \A x \in DOMAIN disk' \ DOMAIN disk : x = p BY <1>1 DEF Put, Without
<1> QED BY <1>1, <1>2, <1>3, <1>4 DEF Changed, NewOnDisk, NoResult

\* Every step.
LEMMA StepChanges ==
  ASSUME DriveInv, Named(disk), Next
  PROVE  Changed
<1>1. NewFiles \subseteq ClientPaths /\ NewDirs \subseteq ClientPaths BY DriveAssumption
<1>2. CASE ClientRequest
  <2>1. ASSUME NEW cp \in NewDirs, MakeDir(cp) PROVE Changed BY <2>1, MakeDirChanges
  <2>2. ASSUME NEW cp \in ClientPaths, RemoveDir(cp) PROVE Changed BY <2>2, RemoveDirChanges
  <2>3. ASSUME NEW dir, ChangeDir(dir) PROVE Changed BY <2>3, AnswerChanges DEF ChangeDir
  <2>4. ASSUME NEW cp, GetAttrs(cp) PROVE Changed BY <2>4, AnswerChanges DEF GetAttrs
  <2>5. ASSUME NEW cp \in ClientPaths, NEW ro, SetAttrs(cp, ro) PROVE Changed
    BY <2>5, SetAttrsChanges
  <2>6. ASSUME NEW cp1 \in ClientPaths, NEW cp2 \in NewFiles \cup NewDirs, Rename(cp1, cp2)
        PROVE  Changed
    BY <2>6, RenameChanges
  <2>7. ASSUME NEW cp, DeleteFile(cp) PROVE Changed BY <2>7, DeleteFileChanges
  <2>8. ASSUME NEW dir \in ClientDirs, DeleteMatching(dir) PROVE Changed
    BY <2>8, DeleteMatchingChanges
  <2>9. ASSUME NEW cp, NEW write, OpenFile(cp, write) PROVE Changed BY <2>9, OpenFileChanges
  <2>10. ASSUME NEW cp \in NewFiles, NEW ro, CreateFile(cp, ro) PROVE Changed
    BY <2>10, CreateFileChanges
  <2>11. ASSUME NEW cp \in NewFiles, ExtendedOpen(cp) PROVE Changed
    BY <2>11, ExtendedOpenChanges
  <2>12. ASSUME NEW h, HandleRequest(h) PROVE Changed
    BY <2>12, HandleRequestIs, NothingChanges DEF Effect, SetDisk
  <2>13. ASSUME NEW s, NEW sr, NEW f, Searched(s, sr, f) PROVE Changed
    BY <2>13, NothingChanges DEF Searched
  <2>14. ASSUME NEW s, NEW its, SearchFails(s, its) PROVE Changed
    BY <2>14, NothingChanges DEF SearchFails
  <2>15. ASSUME NEW s, NEW dir, NEW attr, FindFirst(s, dir, attr) PROVE Changed
    <3>1. \E x, y, z : Searched(x, y, z) \/ SearchFails(x, y) BY <2>15, Zenon DEF FindFirst
    <3> QED BY <3>1, <2>13, <2>14
  <2>16. ASSUME NEW s, FindNext(s) PROVE Changed
    <3>1. \E x, y, z : Searched(x, y, z) \/ SearchFails(x, y) BY <2>16, Zenon DEF FindNext
    <3> QED BY <3>1, <2>13, <2>14
  <2>17. ASSUME NEW s, EndSearch(s) PROVE Changed BY <2>17, <2>14 DEF EndSearch
  <2> QED BY <1>2, <2>1, <2>2, <2>3, <2>4, <2>5, <2>6, <2>7, <2>8, <2>9, <2>10, <2>11, <2>12,
             <2>15, <2>16, <2>17 DEF ClientRequest, HandleRequest
<1>3. CASE \E p \in HostPaths : HostChange(p) BY <1>3, HostChanges
<1>4. CASE Tick BY <1>4, NothingChanges DEF Tick
<1>5. CASE Restart BY <1>5, AnswerChanges DEF Restart
<1> QED BY <1>2, <1>3, <1>4, <1>5 DEF Next

-----------------------------------------------------------------------------
(* Every name on the disk is one of Order *)

LEMMA NamedStep ==
  ASSUME DriveInv, Named(disk), [Next]_vars
  PROVE  Named(disk')
<1>1. CASE Next
  <2>1. \A x \in DOMAIN disk' \ DOMAIN disk : NewOnDisk(x) BY <1>1, StepChanges DEF Changed
  <2>2. \A x \in DOMAIN disk' \ DOMAIN disk : Last(x) \in Names BY <2>1 DEF NewOnDisk
  <2> QED BY <2>2 DEF Named
<1>2. CASE UNCHANGED vars BY <1>2 DEF vars
<1> QED BY <1>1, <1>2

NamedInv == DriveInv /\ Named(disk)

LEMMA NamedInvariant == Spec => []NamedInv
<1>1. Init => Named(disk) BY DriveAssumption DEF Init, Named
<1>2. Named(disk) /\ DriveInv /\ [Next]_vars => Named(disk)'
  <2> SUFFICES ASSUME Named(disk), DriveInv, [Next]_vars PROVE Named(disk)' OBVIOUS
  <2>1. Named(disk') BY NamedStep
  <2> QED BY <2>1
<1> QED BY <1>1, <1>2, DriveInvariant, PTL DEF Spec, NamedInv

-----------------------------------------------------------------------------
(* Lists and disk stay together *)

(***************************************************************************)
(* The directories in which programs make something have names of their    *)
(* own: host names that are 8.3 names and that no other name is cut to.    *)
(***************************************************************************)
OwnDirs == \A cp \in NewFiles \cup NewDirs : \A i \in 1 .. Len(cp) - 1 : OwnName(cp[i])

\* The lists on the way to what a request has made are up to date.
LEMMA RebuiltFresh ==
  ASSUME FewNames, EnoughNumbers, DriveInv, DriveInv', Named(disk'), NEW cp, NEW x,
         Rebuilt(cp, x), \A i \in 1 .. Len(cp) - 1 : OwnName(cp[i])
  PROVE  /\ Len(x) = Len(cp)
         /\ \A j \in 0 .. Len(cp) - 1 : Fresh(disk', items', Pre(x, j))
<1>1. /\ x \in DOMAIN disk' /\ Len(x) = Len(cp)
      /\ \A i \in 1 .. Len(cp) : OwnName(cp[i]) => x[i] = HostName[cp[i]]
  BY DEF Rebuilt
<1>2. cp \in Seq(Shorts \cup {All}) /\ Len(cp) \in Nat
  <2>1. cp \in ClientPaths BY DriveAssumption DEF Rebuilt
  <2> QED BY <2>1, ClientPathOK, LenProperties
<1>3. PICK a, y, r : /\ Working(a) /\ y \in Seq(STRING) /\ r = Lookup(disk', a, cp, TRUE)
                     /\ items' = r.items \/ items' = GetHandle(r.items, y, now).items
  BY DEF Rebuilt, Rebuilds
<1>4. Tree(disk') /\ now \in Nat /\ ItemsOK(a, now) /\ ItemsOK(items', now') /\ now' \in Nat
  BY <1>3 DEF Working, DriveInv
<1>5. \A i \in 1 .. Len(cp) - 1 : OwnAt(cp, x, i)
  <2>1. \A i \in 1 .. Len(cp) - 1 : i \in 1 .. Len(cp) BY <1>2
  <2> QED BY <2>1, <1>1 DEF OwnAt
<1>6. WalkOK(disk', cp, x, r, Len(cp), TRUE)
  BY <1>1, <1>2, <1>3, <1>4, <1>5, Walk DEF Lookup
<1>7. ItemsOK(r.items, now)
  <2>1. PathOK(a, r, Len(cp), now) BY <1>2, <1>3, <1>4, LookupOK DEF Lookup
  <2> QED BY <2>1 DEF PathOK
<1>8. ASSUME NEW j \in 0 .. Len(cp) - 1 PROVE Fresh(disk', items', Pre(x, j))
  <2> DEFINE p == Pre(x, j)
  <2>1. j < Len(cp) /\ j \in 0 .. Len(x) BY <1>1, <1>2
  <2>2. Fresh(disk', r.items, p) BY <2>1, <1>6 DEF WalkOK
  <2>3. p \in Seq(STRING) BY <2>1, <1>1, <1>4, TreeOf, PreIs
  <2> HIDE DEF p
  <2>4. Closed(disk', FreshSet(disk', p)) BY <2>3, <1>4, FreshKept
  <2>5. ListsIn(r.items, FreshSet(disk', p)) BY <2>2, <1>4, <1>7, FreshIs
  <2>6. ListsIn(items', FreshSet(disk', p))
    <3>1. CASE items' = r.items BY <3>1, <2>5
    <3>2. CASE items' = GetHandle(r.items, y, now).items
      BY <3>2, <2>4, <2>5, <1>3, <1>4, <1>7, HandleIn
    <3> QED BY <3>1, <3>2, <1>3
  <2>7. Fresh(disk', items', p) BY <2>6, <1>4, FreshIs
  <2> QED BY <2>7 DEF p
<1> QED BY <1>1, <1>8

\* The inductive invariant: every list, save those the host or a rename has
\* gone behind, leads to everything in its directory.
FreshInv == \A p \in Seq(STRING) \ behind : Fresh(disk, items, p)

LEMMA FreshStep ==
  ASSUME AttrsStored, FewNames, EnoughNumbers, OwnDirs, DriveInv, Named(disk), FreshInv, Next
  PROVE  FreshInv'
<1>1. Changed /\ DriveInv' /\ Named(disk') BY StepChanges, DriveStep, NamedStep DEF StepOK
<1>2. /\ Tree(disk) /\ Tree(disk') /\ now \in Nat /\ now' \in Nat
      /\ ItemsOK(items, now) /\ ItemsOK(items', now')
  BY <1>1 DEF DriveInv
<1>3. ASSUME NEW p \in Seq(STRING), p \notin behind' PROVE Fresh(disk', items', p)
  <2>1. Fresh(disk, items, p) BY <1>1, <1>3 DEF FreshInv, Changed
  <2>2. CASE Children(disk', p) \subseteq Children(disk, p)
    <3>1. \A q \in Children(disk', p) : Kind(disk', q) = Kind(disk, q)
      BY <2>2, <1>1 DEF Changed, KindsKept, Kind, Children
    <3>2. Closed(disk, FreshSet(disk', p)) BY <2>2, <3>1, <1>2, FreshClosed
    <3>3. Closed(disk', FreshSet(disk', p)) BY <1>1, <1>2, FreshKept
    <3>4. \A l : Full(disk, p, l) => Full(disk', p, l) BY <2>2, <3>1 DEF Full
    <3>5. Fresh(disk', items, p) BY <2>1, <3>4 DEF Fresh
    <3>6. ListsIn(items, FreshSet(disk', p)) BY <3>5, <1>2, FreshIs
    <3>7. ListsIn(items', FreshSet(disk', p)) BY <3>2, <3>3, <3>6, StepIn
    <3> QED BY <3>7, <1>2, FreshIs
  <2>3. CASE ~(Children(disk', p) \subseteq Children(disk, p))
    <3>1. PICK x \in Children(disk', p) : x \notin Children(disk, p) BY <2>3
    <3>2. x \in DOMAIN disk' /\ x \notin DOMAIN disk /\ Front(x) = p BY <3>1 DEF Children
    <3>3. NewOnDisk(x) BY <3>2, <1>1 DEF Changed
    <3>4. PICK cp : Rebuilt(cp, x) BY <3>2, <3>3, <1>3 DEF NewOnDisk
    <3>5. \A i \in 1 .. Len(cp) - 1 : OwnName(cp[i]) BY <3>4 DEF OwnDirs, Rebuilt
    <3>6. /\ Len(x) = Len(cp)
          /\ \A j \in 0 .. Len(cp) - 1 : Fresh(disk', items', Pre(x, j))
      BY <3>4, <3>5, <1>1, RebuiltFresh
    <3>7. Len(x) - 1 \in 0 .. Len(x) - 1 /\ Pre(x, Len(x) - 1) = p
      <4> DEFINE k == Len(x) - 1
      <4>1. x \in Seq(STRING) /\ x # Root BY <3>2, <1>2, TreeOf
      <4>2. Len(x) \in Nat /\ Len(x) >= 1 BY <4>1, FrontOf
      <4>3. k \in 0 .. Len(x) - 1 /\ k + 1 = Len(x) BY <4>2
      <4> HIDE DEF k
      <4>4. Front(Pre(x, k + 1)) = Pre(x, k) /\ Pre(x, Len(x)) = x BY <4>1, <4>3, PreEnds
      <4>5. Pre(x, k) = p BY <4>3, <4>4, <3>2
      <4> QED BY <4>3, <4>5 DEF k
    <3> QED BY <3>6, <3>7
  <2> QED BY <2>2, <2>3
<1> QED BY <1>3 DEF FreshInv

LEMMA FreshInvariant ==
  ASSUME AttrsStored, FewNames, EnoughNumbers, OwnDirs
  PROVE  Spec => [](NamedInv /\ FreshInv)
<1>1. Init => FreshInv
  <2>1. Len(<<>>) = 0 OBVIOUS
  <2> QED BY <2>1 DEF Init, FreshInv, Fresh
<1>2. NamedInv /\ FreshInv /\ [Next]_vars => FreshInv'
  <2>1. ASSUME NamedInv, FreshInv, Next PROVE FreshInv' BY <2>1, FreshStep DEF NamedInv
  <2>2. ASSUME FreshInv, UNCHANGED vars PROVE FreshInv' BY <2>2 DEF vars, FreshInv
  <2> QED BY <2>1, <2>2
<1> QED BY <1>1, <1>2, NamedInvariant, PTL DEF Spec

\* A list that is up to date gives every name back for some short name.
LEMMA FreshReachable ==
  ASSUME NamedInv, FreshInv
  PROVE  Reachable
<1> SUFFICES ASSUME NEW h \in DOMAIN items, items[h].list # <<>>, items[h].path \notin behind,
                    NEW q \in Children(disk, items[h].path)
             PROVE  \E short \in UsedNames(items[h].list) :
                      GetServerName(disk, items, h, short, FALSE, now).name = Last(q)
  BY DEF Reachable
<1> DEFINE p == items[h].path
           l == items[h].list
<1>1. /\ now \in Nat /\ ItemsOK(items, now) /\ h \in 1 .. Len(items)
      /\ p \in Seq(STRING) /\ l \in Lists /\ Tree(disk)
  BY ItemFields DEF NamedInv, DriveInv
<1>2. Full(disk, p, l) BY <1>1 DEF FreshInv, Fresh
<1>3. PICK i \in 1 .. Len(l) : LeadsTo(l, i, Last(q)) /\ l[i].kind = Kind(disk, q)
  BY <1>2 DEF Full
<1>4. q = Append(p, Last(q)) /\ q \in DOMAIN disk /\ Last(q) \in Names
  BY <1>1, ChildIsThere DEF NamedInv
<1> DEFINE short == l[i].short
           m == PlaceOf(l, short)
           s == ServerName(disk, items, h, short)
<1>5. short \in UsedNames(l) BY <1>1, <1>3, <1>4, UsedIs DEF LeadsTo
<1>6. GetServerName(disk, items, h, short, FALSE, now) = s BY DEF GetServerName, Listed
<1>7. m = i
  <2>1. Len(l) \in Nat BY <1>1, ListFields
  <2>2. l[i].kind # "vol" BY <1>3 DEF Kind
  <2>3. m \in 1 .. Len(l) + 1 BY <1>1, PlaceIs
  <2>4. m <= i BY <1>1, <2>2, PlaceIs
  <2>5. m <= Len(l) => l[m].kind # "vol" /\ l[m].short = l[i].short BY <1>1, PlaceIs
  <2> HIDE DEF m, l
  <2>6. CASE m # i
    <3>1. m \in 1 .. i - 1 /\ m <= Len(l) BY <2>1, <2>3, <2>4, <2>6
    <3> QED BY <3>1, <2>5, <1>3 DEF LeadsTo
  <2> QED BY <2>6
<1>8. \/ m > Len(l) /\ s.items = items /\ s.name = NoName
      \/ s.name = l[m].name
      \/ Append(p, l[m].name) \notin DOMAIN disk
  BY <1>1, ServerNameIs
<1>9. l[i].name = Last(q) BY <1>3 DEF LeadsTo
<1>10. ~(i > Len(l))
  <2>1. Len(l) \in Nat BY <1>1, ListFields
  <2> HIDE DEF l
  <2> QED BY <2>1
<1> HIDE DEF s, m, l, p
<1>11. s.name = Last(q) BY <1>4, <1>7, <1>8, <1>9, <1>10
<1> QED BY <1>5, <1>6, <1>11 DEF l

\* Every file of a directory can be named by a client whatever was created,
\* renamed, deleted or aged since the list of the directory was made: requests
\* that add a name rebuild the list, and those that drop one from the list do
\* so because it is gone.
THEOREM ReachableHolds ==
  ASSUME AttrsStored, FewNames, EnoughNumbers, OwnDirs
  PROVE  Spec => []Reachable
<1>1. NamedInv /\ FreshInv => Reachable BY FreshReachable
<1> QED BY <1>1, FreshInvariant, PTL

\* DELETE_FILE with a pattern sees everything that is in a list up to date.
LEMMA DeleteStep ==
  ASSUME FewNames, EnoughNumbers, NamedInv, FreshInv, Next
  PROVE  DeletesMatching'
<1> SUFFICES ASSUME last'.op = "deleted", last'.path \notin behind',
                    NEW q \in Children(disk', last'.path)
             PROVE  disk'[q].dir \/ (AttrsStored /\ q \in DOMAIN disk' /\ disk'[q].ro)
  BY DEF DeletesMatching, IsReadOnly
<1>1. DriveInv /\ Named(disk) /\ Tree(disk) /\ now \in Nat /\ ItemsOK(items, now)
  BY DEF NamedInv, DriveInv
<1>2. PICK dir \in ClientDirs : DeleteMatching(dir) BY <1>1, StepChanges DEF Changed
<1>3. PICK r : /\ r = Lookup(disk, items, Append(dir, All), FALSE)
               /\ \/ Answer(items)
                  \/ Answer(r.items)
                  \/ /\ r.ok /\ behind' = behind
                     /\ \E p \in {Front(r.path)}, g \in {GetHandle(r.items, Front(r.path), now)} :
                          Effect(Without(disk, Victims(g.items[g.h].list, p)), g.items,
                                 [op |-> "deleted", path |-> p])
  BY <1>2, Zenon DEF DeleteMatching
<1>4. ASSUME NEW its PROVE ~Answer(its)
  <2>1. Answer(its) => last' = NoResult BY DEF Answer, Effect
  <2> QED BY <2>1 DEF NoResult
<1> DEFINE p == Front(r.path)
           g == GetHandle(r.items, p, now)
           l == g.items[g.h].list
<1>5. /\ r.ok /\ behind' = behind
      /\ Effect(Without(disk, Victims(l, p)), g.items, [op |-> "deleted", path |-> p])
  BY <1>3, <1>4, Zenon
<1>6. disk' = Without(disk, Victims(l, p)) /\ last'.path = p
  BY <1>5 DEF Effect, SetDisk
<1>7. Append(dir, All) \in Seq(Shorts \cup {All}) /\ Append(dir, All) # <<>> BY ClientPathOK
<1>8. p \in Seq(STRING) BY <1>1, <1>3, <1>5, PatternLookup
<1> HIDE DEF g
<1>9. Fresh(disk, items, p) BY <1>5, <1>6, <1>8 DEF FreshInv
<1>10. PICK h \in 1 .. Len(r.items) : r.items[h].path = p /\ Full(disk, p, r.items[h].list)
  BY <1>1, <1>3, <1>5, <1>7, <1>9, LastPart DEF Lookup
<1>11. l = r.items[h].list
  <2>1. Working(r.items) BY <1>1, <1>3, PatternLookup
  <2>2. ItemsOK(r.items, now) BY <2>1 DEF Working
  <2>3. ListsKept(r.items, g, p) BY <2>2, <1>1, <1>8, GetHandleLists DEF g
  <2> QED BY <2>3, <1>10 DEF ListsKept
<1> HIDE DEF p, l
<1>12. q \in Children(disk, p) /\ q \notin Victims(l, p) /\ q \in DOMAIN disk'
       /\ disk'[q] = disk[q]
  BY <1>6 DEF Children, Without
<1>13. q = Append(p, Last(q)) /\ q \in DOMAIN disk BY <1>1, <1>8, <1>12, ChildIsThere
<1>14. PICK i \in 1 .. Len(l) : LeadsTo(l, i, Last(q)) /\ l[i].kind = Kind(disk, q)
  BY <1>10, <1>11, <1>12 DEF Full
<1>15. ~disk[q].dir => q \in FilesIn(l, p, Len(l))
  <2> SUFFICES ASSUME ~disk[q].dir PROVE q \in FilesIn(l, p, Len(l)) OBVIOUS
  <2>1. l[i].kind # "dir" BY <1>14 DEF Kind
  <2>2. l[i].name = Last(q) BY <1>14 DEF LeadsTo
  <2> QED BY <2>1, <2>2, <1>13 DEF FilesIn
<1>16. disk[q].dir \/ IsReadOnly(q) BY <1>12, <1>13, <1>15 DEF Victims, IsFile
<1> QED BY <1>12, <1>16 DEF IsReadOnly

\* DELETE_FILE with a pattern leaves no file it could delete, old as the list
\* may be that it looks at.
THEOREM DeletesMatchingHolds ==
  ASSUME AttrsStored, FewNames, EnoughNumbers, OwnDirs
  PROVE  Spec => []DeletesMatching
<1>1. Init => DeletesMatching BY DEF Init, DeletesMatching, NoResult
<1>2. NamedInv /\ FreshInv /\ DeletesMatching /\ [Next]_vars => DeletesMatching'
  <2>1. ASSUME NamedInv, FreshInv, Next PROVE DeletesMatching' BY <2>1, DeleteStep
  <2>2. ASSUME DeletesMatching, UNCHANGED vars PROVE DeletesMatching'
    BY <2>2 DEF vars, DeletesMatching, IsReadOnly
  <2> QED BY <2>1, <2>2
<1> QED BY <1>1, <1>2, FreshInvariant, PTL DEF Spec

\* What programs make has a name of its own too.
OwnPaths == \A cp \in NewFiles \cup NewDirs : \A i \in 1 .. Len(cp) : OwnName(cp[i])

LEMMA CreateStep ==
  ASSUME AttrsStored, FewNames, EnoughNumbers, OwnPaths, NamedInv, Next
  PROVE  CreatedIsFound'
<1> SUFFICES ASSUME last'.op = "made"
             PROVE  LET r == CreateServerPath(disk', items', last'.cp, FALSE, now')
                    IN  r.ok /\ r.exist /\ r.path = last'.path
  BY DEF CreatedIsFound, Lookup
<1> DEFINE cp == last'.cp
           x == last'.path
           r == CreateServerPath(disk', items', cp, FALSE, now')
<1>1. DriveInv /\ Named(disk) /\ Changed /\ DriveInv' /\ Named(disk')
  BY StepChanges, DriveStep, NamedStep DEF StepOK, NamedInv
<1>2. Rebuilt(cp, x) BY <1>1 DEF Changed
<1> HIDE DEF cp, x
<1>3. cp \in Seq(Shorts \cup {All}) /\ Len(cp) \in Nat
  <2>1. cp \in ClientPaths BY <1>2, DriveAssumption DEF Rebuilt
  <2> QED BY <2>1, ClientPathOK, LenProperties
<1>4. \A i \in 1 .. Len(cp) : OwnAt(cp, x, i) BY <1>2 DEF OwnPaths, Rebuilt, OwnAt
<1>5. \A i \in 1 .. Len(cp) - 1 : i \in 1 .. Len(cp) BY <1>3
<1>6. \A i \in 1 .. Len(cp) - 1 : OwnName(cp[i]) /\ OwnAt(cp, x, i)
  BY <1>4, <1>5 DEF OwnAt
<1>7. /\ Len(x) = Len(cp)
      /\ \A j \in 0 .. Len(cp) - 1 : Fresh(disk', items', Pre(x, j))
  BY <1>1, <1>2, <1>6, RebuiltFresh
<1>8. /\ Tree(disk') /\ now' \in Nat /\ ItemsOK(items', now') /\ x \in DOMAIN disk'
  BY <1>1, <1>2 DEF DriveInv, Rebuilt
<1>9. WalkOK(disk', cp, x, r, Len(cp), FALSE)
  BY <1>1, <1>3, <1>6, <1>7, <1>8, Walk
<1>10. x \in Seq(STRING) BY <1>8, TreeOf
<1>11. Pre(x, Len(cp)) = x BY <1>7, <1>10, PreEnds
<1> HIDE DEF r
<1>12. r.ok /\ r.exist /\ r.path = x BY <1>4, <1>9, <1>11 DEF WalkOK
<1> QED BY <1>12 DEF r, cp, x

\* What a request has made is what its path leads to in the next request,
\* whatever handles and lists were dropped or given away on the way.
THEOREM CreatedIsFoundHolds ==
  ASSUME AttrsStored, FewNames, EnoughNumbers, OwnPaths
  PROVE  Spec => []CreatedIsFound
<1>1. Init => CreatedIsFound BY DEF Init, CreatedIsFound, NoResult
<1>2. NamedInv /\ CreatedIsFound /\ [Next]_vars => CreatedIsFound'
  <2>1. ASSUME NamedInv, Next PROVE CreatedIsFound' BY <2>1, CreateStep
  <2>2. ASSUME CreatedIsFound, UNCHANGED vars PROVE CreatedIsFound'
    BY <2>2 DEF vars, CreatedIsFound, Lookup
  <2> QED BY <2>1, <2>2
<1> QED BY <1>1, <1>2, NamedInvariant, PTL DEF Spec

-----------------------------------------------------------------------------
(* Searches *)

\* The list of a directory depends on nothing but what is in the directory.
LEMMA SameList ==
  ASSUME NEW d1, Tree(d1), NEW d2, Tree(d2), NEW p \in Seq(STRING),
         Children(d1, p) = Children(d2, p), \A q \in Children(d1, p) : Kind(d1, q) = Kind(d2, q)
  PROVE  DirectoryList(d1, p) = DirectoryList(d2, p)
<1> DEFINE n == Len(Order)
<1>1. \A m \in There(d1, p) : /\ m \in There(d2, p)
                              /\ Kind(d1, Append(p, Order[m])) = Kind(d2, Append(p, Order[m]))
  <2> TAKE m \in There(d1, p)
  <2>1. Append(p, Order[m]) \in Children(d1, p) BY ThereIsChild
  <2> QED BY <2>1 DEF There, Children
<1>2. \A m \in There(d2, p) : m \in There(d1, p)
  <2> TAKE m \in There(d2, p)
  <2>1. Append(p, Order[m]) \in Children(d2, p) BY ThereIsChild
  <2> QED BY <2>1 DEF There, Children
<1>3. There(d1, p) = There(d2, p) BY <1>1, <1>2
<1>4. There(d1, p) # {} => IsDir(d1, p) /\ IsDir(d2, p)
  <2> SUFFICES ASSUME NEW m \in There(d1, p) PROVE IsDir(d1, p) /\ IsDir(d2, p) OBVIOUS
  <2>1. Append(p, Order[m]) \in Children(d1, p) BY ThereIsChild
  <2> QED BY <2>1, TreeOf DEF Children, IsDir
<1>5. PICK u1 : /\ ListChain(d1, p, u1)
                /\ DirectoryList(d1, p) =
                     IF There(d1, p) = {} \/ ~IsDir(d1, p) THEN <<>> ELSE u1[n]
  BY ListMade
<1>6. PICK u2 : /\ ListChain(d2, p, u2)
                /\ DirectoryList(d2, p) =
                     IF There(d2, p) = {} \/ ~IsDir(d2, p) THEN <<>> ELSE u2[n]
  BY ListMade
<1>7. n \in Nat BY OrderIs
<1> DEFINE S == {k \in Nat : k <= n => u1[k] = u2[k]}
<1>8. 0 \in S BY <1>5, <1>6 DEF ListChain
<1>9. ASSUME NEW k \in Nat, k \in S PROVE k + 1 \in S
  <2> SUFFICES ASSUME k + 1 <= n PROVE u1[k + 1] = u2[k + 1] OBVIOUS
  <2>1. k + 1 \in 1 .. n /\ k <= n /\ (k + 1) - 1 = k BY <1>7
  <2>2. u1[k] = u2[k] BY <1>9, <2>1
  <2>3. /\ u1[k + 1] = Extended(d1, p, k + 1, u1[k])
        /\ u2[k + 1] = Extended(d2, p, k + 1, u2[k])
    BY <1>5, <1>6, <2>1 DEF ListChain
  <2>4. \A l : Extended(d1, p, k + 1, l) = Extended(d2, p, k + 1, l)
    BY <1>1, <1>3 DEF Extended, NewEntry
  <2> QED BY <2>2, <2>3, <2>4
<1> HIDE DEF S
<1>10. \A k \in Nat : k \in S BY <1>8, <1>9, SetInduction
<1>11. u1[n] = u2[n] BY <1>7, <1>10 DEF S
<1> QED BY <1>3, <1>4, <1>5, <1>6, <1>11

\* The list of p is l, or there is none.
OnlyList(p, l) == {x \in Seq(STRING) \X Lists : x[1] = p => x[2] \in {<<>>, l}}

\* A list that was just made has no name that could be taken off it.
LEMMA OnlyListClosed ==
  ASSUME FewNames, NEW dk, Tree(dk), NEW p \in Seq(STRING)
  PROVE  Closed(dk, OnlyList(p, DirectoryList(dk, p)))
<1> DEFINE L == DirectoryList(dk, p)
           A == OnlyList(p, L)
<1>1. ASSUME NEW q \in Seq(STRING), NEW l \in Lists
      PROVE  <<q, l>> \in A <=> (q = p => l \in {<<>>, L})
  BY DEF OnlyList
<1> HIDE DEF A
<1>2. ASSUME NEW q \in Seq(STRING) PROVE <<q, <<>>>> \in A /\ <<q, DirectoryList(dk, q)>> \in A
  <2>1. <<>> \in Lists BY NamesAssumption DEF Lists
  <2>2. DirectoryList(dk, q) \in Lists BY ListType
  <2> QED BY <1>1, <2>1, <2>2
<1>3. Holds(dk, p, Len(Order), L) BY ListHolds
<1> HIDE DEF L
<1>4. ASSUME NEW q \in Seq(STRING), NEW l \in Lists, NEW i \in 1 .. Len(l), <<q, l>> \in A,
             Append(q, l[i].name) \notin DOMAIN dk, l[i].kind # "vol",
             l[i].short \in Shorts \cup {All}
      PROVE  <<q, RemoveAt(l, i)>> \in A
  <2>1. RemoveAt(l, i) \in Lists BY RemoveAtIs
  <2>2. ASSUME q = p PROVE FALSE
    <3>1. l # <<>>
      <4>1. Len(<<>>) = 0 OBVIOUS
      <4> QED BY <4>1
    <3>2. l = L BY <1>1, <1>4, <2>2, <3>1
    <3>3. l[i].short \notin {<<".", 0>>, <<"..", 0>>} BY <1>4, NamesAssumption DEF All
    <3>4. l[i] \in Entry BY ListFields
    <3>5. l[i].name \in Names BY <1>4, <3>3, <3>4, EntryIs
    <3>6. PICK m \in There(dk, p) : l[i].name = Order[m]
      BY <1>3, <3>2, <3>5 DEF Holds, HoldsOnly
    <3>7. Append(p, Order[m]) \in DOMAIN dk BY DEF There
    <3> QED BY <3>6, <3>7, <1>4, <2>2
  <2> QED BY <2>1, <2>2, <1>1
<1> QED BY <1>2, <1>4 DEF Closed, A, L

\* The names a search has still to return when it is at the place nth of l.
HitNames(l, attr, nth) == {x \in Names : \E i \in Hits(l, attr, nth) : l[i].name = x}

\* At the start these are the names that are due.
LEMMA DueIs ==
  ASSUME FewNames, NamedInv, NEW p \in Seq(STRING), NEW attr, attr # {"vol"}
  PROVE  Due(p, attr) = HitNames(DirectoryList(disk, p), attr, 0)
<1> DEFINE l == DirectoryList(disk, p)
<1>1. Tree(disk) /\ Named(disk) BY DEF NamedInv, DriveInv
<1>2. Holds(disk, p, Len(Order), l) BY <1>1, ListHolds
<1> HIDE DEF l
<1>3. Len(l) \in Nat BY <1>2, ListFields DEF Holds
<1>4. \A c \in Children(disk, p) :
        (disk[c].dir => "dir" \in attr) <=> {Kind(disk, c)} \ {"file"} \subseteq attr
  <2> TAKE c \in Children(disk, p)
  <2>1. disk[c].dir \in BOOLEAN BY <1>1, TreeOf DEF Children, Attributes
  <2>2. CASE disk[c].dir BY <2>2 DEF Kind
  <2>3. CASE ~disk[c].dir BY <2>3 DEF Kind
  <2> QED BY <2>2, <2>3
<1>5. ASSUME NEW c \in Children(disk, p), disk[c].dir => "dir" \in attr
      PROVE  Last(c) \in HitNames(l, attr, 0)
  <2>1. PICK m \in 1 .. Len(Order) : /\ m \in There(disk, p) /\ Last(c) = Order[m]
                                     /\ c = Append(p, Last(c)) /\ Last(c) \in Names
    BY <1>1, ChildIsThere
  <2>2. PICK i \in 1 .. Len(l) : l[i].name = Order[m] BY <1>2, <2>1 DEF Holds, HoldsAll
  <2>3. PICK k \in 1 .. Len(Order) : /\ l[i].name = Order[k]
                                     /\ l[i].kind = Kind(disk, Append(p, Order[k]))
    BY <1>2, <2>1, <2>2 DEF Holds, HoldsOnly
  <2>4. l[i].kind = Kind(disk, c) BY <2>1, <2>2, <2>3
  <2>5. {l[i].kind} \ {"file"} \subseteq attr BY <2>4, <1>4, <1>5
  <2>6. i \in 0 + 1 .. Len(l) BY <1>3
  <2>7. i \in Hits(l, attr, 0) BY <2>5, <2>6 DEF Hits
  <2> QED BY <2>1, <2>2, <2>7 DEF HitNames
<1>6. ASSUME NEW x \in HitNames(l, attr, 0) PROVE x \in Due(p, attr)
  <2>1. x \in Names /\ \E i \in Hits(l, attr, 0) : l[i].name = x BY DEF HitNames
  <2>2. PICK i \in Hits(l, attr, 0) : l[i].name = x BY <2>1
  <2>3. i \in 1 .. Len(l) /\ {l[i].kind} \ {"file"} \subseteq attr BY <1>3 DEF Hits
  <2>4. PICK m \in There(disk, p) : /\ l[i].name = Order[m]
                                    /\ l[i].kind = Kind(disk, Append(p, Order[m]))
    BY <1>2, <2>1, <2>2, <2>3 DEF Holds, HoldsOnly
  <2> DEFINE c == Append(p, Order[m])
  <2>5. c \in Children(disk, p) /\ Last(c) = x BY <2>2, <2>4, ThereIsChild
  <2> HIDE DEF c
  <2>6. disk[c].dir => "dir" \in attr BY <2>3, <2>4, <2>5, <1>4 DEF c
  <2> QED BY <2>5, <2>6 DEF Due
<1>7. \A x \in Due(p, attr) : x \in HitNames(l, attr, 0) BY <1>5 DEF Due
<1> QED BY <1>6, <1>7 DEF l

\* Each entry takes its name off them.
LEMMA NextHit ==
  ASSUME NEW l \in Lists, HoldsOnce(l), NEW attr, NEW nth \in Nat, NEW n \in Hits(l, attr, nth),
         \A i \in Hits(l, attr, nth) : n <= i
  PROVE  /\ l[n].name \in Names => l[n].name \in HitNames(l, attr, nth)
         /\ HitNames(l, attr, n) = HitNames(l, attr, nth) \ {l[n].name}
         /\ n \in Nat /\ n # 0
<1>1. Len(l) \in Nat BY ListFields
<1>2. n \in Nat /\ n > nth /\ n \in 1 .. Len(l) BY <1>1 DEF Hits
<1>3. \A i : i \in Hits(l, attr, n) <=> i \in Hits(l, attr, nth) /\ i # n
  <2>1. ASSUME NEW i \in Hits(l, attr, n) PROVE i \in Hits(l, attr, nth) /\ i # n
    BY <1>1, <1>2 DEF Hits
  <2>2. ASSUME NEW i \in Hits(l, attr, nth), i # n PROVE i \in Hits(l, attr, n)
    BY <1>1, <1>2, <2>2 DEF Hits
  <2> QED BY <2>1, <2>2
<1>4. \A i \in Hits(l, attr, nth) : i \in 1 .. Len(l) BY <1>1 DEF Hits
<1>5. ASSUME NEW x PROVE x \in HitNames(l, attr, n) <=> x \in HitNames(l, attr, nth) \ {l[n].name}
  BY <1>2, <1>3, <1>4 DEF HitNames, HoldsOnce
<1>6. l[n].name \in Names => l[n].name \in HitNames(l, attr, nth) BY DEF HitNames
<1> QED BY <1>2, <1>5, <1>6

\* The searches under way.
SearchRecs ==
  [h : Nat, attr : SUBSET {"dir", "vol"}, nth : Nat, dir : Seq(STRING), due : SUBSET Names,
   clean : BOOLEAN]

(***************************************************************************)
(* What is due to a search is what stands behind its place in the list of  *)
(* its directory; its handle has that list or none.                        *)
(***************************************************************************)
Tracks(sr, dk, its) ==
  /\ sr.h \in 1 .. Len(its) /\ its[sr.h].path = sr.dir
  /\ IF sr.attr = {"vol"} THEN sr.due = {}
     ELSE /\ its[sr.h].list \in {<<>>, DirectoryList(dk, sr.dir)}
          /\ sr.due = HitNames(DirectoryList(dk, sr.dir), sr.attr, sr.nth)
SearchTrue(sr, dk, its) ==
  sr = NoSearch \/ (sr \in SearchRecs /\ (sr.clean => Tracks(sr, dk, its)))

CompleteInv == missed = FALSE /\ \A s \in Searches : SearchTrue(search[s], disk, items)

\* A search that stays clean keeps track, whatever the other requests do.
LEMMA WatchedTrue ==
  ASSUME FewNames, NamedInv, Next, NEW s \in Searches, SearchTrue(search[s], disk, items)
  PROVE  SearchTrue(Watched(disk', items')[s], disk', items')
<1> DEFINE sr == search[s]
           x == [sr EXCEPT !.clean = @ /\ Undisturbed(sr, disk', items')]
<1>1. CASE sr = NoSearch BY <1>1 DEF Watched, SearchTrue
<1>2. CASE sr # NoSearch
  <2>1. Watched(disk', items')[s] = x BY <1>2 DEF Watched
  <2>2. sr \in SearchRecs /\ (sr.clean => Tracks(sr, disk, items)) BY <1>2 DEF SearchTrue
  <2>3. /\ x \in SearchRecs /\ x.h = sr.h /\ x.attr = sr.attr /\ x.nth = sr.nth
        /\ x.dir = sr.dir /\ x.due = sr.due
        /\ x.clean = (sr.clean /\ Undisturbed(sr, disk', items'))
    <3> DEFINE c == sr.clean /\ Undisturbed(sr, disk', items')
    <3>1. c \in BOOLEAN OBVIOUS
    <3>2. x = [sr EXCEPT !.clean = c] OBVIOUS
    <3> HIDE DEF c, x, sr
    <3>3. /\ x \in SearchRecs /\ x.h = sr.h /\ x.attr = sr.attr /\ x.nth = sr.nth
          /\ x.dir = sr.dir /\ x.due = sr.due /\ x.clean = c
      BY <2>2, <3>1, <3>2 DEF SearchRecs
    <3> QED BY <3>3 DEF c
  <2> HIDE DEF x
  <2>4. ASSUME sr.clean, Undisturbed(sr, disk', items') PROVE Tracks(x, disk', items')
    <3> DEFINE p == sr.dir
               L == DirectoryList(disk, p)
               A == OnlyList(p, L)
    <3>1. /\ DriveInv /\ Named(disk) /\ Tree(disk) /\ now \in Nat /\ ItemsOK(items, now)
          /\ Changed /\ DriveInv' /\ Tree(disk') /\ now' \in Nat /\ ItemsOK(items', now')
      BY StepChanges, DriveStep DEF NamedInv, DriveInv, StepOK
    <3>2. Tracks(sr, disk, items) BY <2>2, <2>4
    <3>3. /\ sr.h \in 1 .. Len(items') /\ items'[sr.h].path = p
          /\ Children(disk', p) = Children(disk, p)
      BY <2>4, <3>1, ItemFields DEF Undisturbed
    <3>4. CASE sr.attr = {"vol"} BY <3>2, <3>3, <3>4, <2>3 DEF Tracks
    <3>5. CASE sr.attr # {"vol"}
      <4>1. p \in Seq(STRING) BY <2>2 DEF SearchRecs
      <4>2. \A q \in Children(disk, p) : Kind(disk, q) = Kind(disk', q)
        BY <3>1, <3>3 DEF Changed, KindsKept, Kind, Children
      <4>3. DirectoryList(disk', p) = L BY <3>1, <3>3, <4>1, <4>2, SameList
      <4>4. Closed(disk, A) BY <3>1, <4>1, OnlyListClosed
      <4>5. Closed(disk', A)
        <5>1. Closed(disk', OnlyList(p, DirectoryList(disk', p))) BY <3>1, <4>1, OnlyListClosed
        <5> QED BY <5>1, <4>3
      <4>6. \A q \in Seq(STRING), l \in Lists : <<q, l>> \in A <=> (q = p => l \in {<<>>, L})
        BY DEF OnlyList
      <4> HIDE DEF A, L, p
      <4>7. /\ sr.h \in 1 .. Len(items) /\ items[sr.h].path = p /\ items[sr.h].list \in {<<>>, L}
            /\ sr.due = HitNames(L, sr.attr, sr.nth)
        BY <3>2, <3>5 DEF Tracks, p, L
      <4>8. ListsIn(items, A)
        <5>1. ASSUME NEW g \in 1 .. Len(items) PROVE <<items[g].path, items[g].list>> \in A
          <6>1. items[g].path \in Seq(STRING) /\ items[g].list \in Lists BY <3>1, ItemFields
          <6>2. items[g].path = p => g = sr.h BY <3>1, <4>7 DEF ItemsOK
          <6> QED BY <6>1, <6>2, <4>6, <4>7
        <5> QED BY <5>1 DEF ListsIn
      <4>9. ListsIn(items', A) BY <3>1, <4>4, <4>5, <4>8, StepIn
      <4>10. items'[sr.h].list \in {<<>>, L}
        <5>1. items'[sr.h].path \in Seq(STRING) /\ items'[sr.h].list \in Lists
          BY <3>1, <3>3, ItemFields
        <5>2. <<items'[sr.h].path, items'[sr.h].list>> \in A BY <3>3, <4>9 DEF ListsIn
        <5> QED BY <5>1, <5>2, <3>3, <4>6 DEF p
      <4> QED BY <2>3, <3>3, <3>5, <4>3, <4>7, <4>10 DEF Tracks, p
    <3> QED BY <3>4, <3>5
  <2> QED BY <2>1, <2>3, <2>4 DEF SearchTrue
<1> QED BY <1>1, <1>2

\* A step that answers no search.
Quiet ==
  /\ missed' = missed
  /\ \A s \in Searches : search'[s] \in {NoSearch, Watched(disk', items')[s]}

LEMMA QuietTrue ==
  ASSUME FewNames, NamedInv, Next, CompleteInv, Quiet
  PROVE  CompleteInv'
<1>1. ASSUME NEW s \in Searches PROVE SearchTrue(search'[s], disk', items')
  <2>1. SearchTrue(Watched(disk', items')[s], disk', items') BY WatchedTrue DEF CompleteInv
  <2>2. SearchTrue(NoSearch, disk', items') BY DEF SearchTrue
  <2> QED BY <2>1, <2>2 DEF Quiet
<1> QED BY <1>1 DEF CompleteInv, Quiet

\* A search about to go on from nth: on the handles its, of which its own may
\* have any list if the search is new.
Ready(sr, its) ==
  sr.clean =>
    /\ its[sr.h].path = sr.dir
    /\ IF sr.attr = {"vol"} THEN sr.due = {}
       ELSE /\ sr.nth = 0 \/ its[sr.h].list \in {<<>>, DirectoryList(disk, sr.dir)}
            /\ sr.due = HitNames(DirectoryList(disk, sr.dir), sr.attr, sr.nth)

\* The answer is due, it is the last one only when nothing is due any more,
\* and the search keeps track.
LEMMA AnswerTrue ==
  ASSUME FewNames, NamedInv, NEW sr \in SearchRecs, NEW its, Working(its),
         sr.h \in 1 .. Len(its), Ready(sr, its), sr.clean,
         NEW f, f = FindFile(its, sr.h, sr.attr, sr.nth)
  PROVE  /\ f.n = 0 => sr.due = {}
         /\ f.n # 0 /\ f.name \in Names => f.name \in sr.due
         /\ \A y \in SearchRecs :
              /\ f.n # 0 /\ y.h = sr.h /\ y.attr = sr.attr /\ y.dir = sr.dir
              /\ y.nth = f.n /\ y.due = sr.due \ {f.name}
              => Tracks(y, disk, f.items)
<1> DEFINE h == sr.h
           L == DirectoryList(disk, sr.dir)
<1>1. DriveInv /\ Tree(disk) /\ Named(disk) /\ now \in Nat /\ ItemsOK(its, now)
  BY DEF NamedInv, DriveInv, Working
<1>2. sr.nth \in Nat /\ sr.dir \in Seq(STRING) BY DEF SearchRecs
<1>3. Answers(f, its, h, sr.attr, sr.nth) BY <1>1, <1>2, FindFileIs
<1>4. its[h].path = sr.dir BY DEF Ready
<1>5. CASE sr.attr = {"vol"}
  <2>1. f.items = its /\ f.name = NoName BY <1>3, <1>5 DEF Answers
  <2>2. sr.due = {} BY <1>5 DEF Ready
  <2>3. NoName \notin Names BY NamesAssumption
  <2> QED BY <2>1, <2>2, <2>3, <1>4, <1>5 DEF Tracks
<1>6. CASE sr.attr # {"vol"}
  <2>1. /\ Scans(f, its, h, sr.nth) /\ Finds(f, f.items[h].list, sr.attr, sr.nth)
    BY <1>3, <1>6 DEF Answers
  <2>2. /\ sr.nth = 0 \/ its[h].list \in {<<>>, L}
        /\ sr.due = HitNames(L, sr.attr, sr.nth)
    BY <1>6 DEF Ready
  <2> HIDE DEF L
  <2>3. h \in 1 .. Len(f.items) /\ f.items[h].path = sr.dir /\ f.items[h].list = L
    BY <2>1, <2>2, <1>4 DEF Scans, L
  <2>4. Holds(disk, sr.dir, Len(Order), L) BY <1>1, <1>2, ListHolds DEF L
  <2>5. L \in Lists /\ HoldsOnce(L) BY <2>4 DEF Holds
  <2>6. Finds(f, L, sr.attr, sr.nth) BY <2>1, <2>3
  <2>7. CASE Hits(L, sr.attr, sr.nth) = {}
    <3>1. f.n = 0 BY <2>6, <2>7 DEF Finds
    <3>2. sr.due = {} BY <2>2, <2>7 DEF HitNames
    <3> QED BY <3>1, <3>2
  <2>8. CASE Hits(L, sr.attr, sr.nth) # {}
    <3>1. /\ f.n \in Hits(L, sr.attr, sr.nth) /\ \A i \in Hits(L, sr.attr, sr.nth) : f.n <= i
          /\ f.name = L[f.n].name
      BY <2>6, <2>8 DEF Finds
    <3>2. /\ f.name \in Names => f.name \in HitNames(L, sr.attr, sr.nth)
          /\ HitNames(L, sr.attr, f.n) = HitNames(L, sr.attr, sr.nth) \ {f.name}
          /\ f.n # 0
      BY <1>2, <2>5, <3>1, NextHit
    <3>3. ASSUME NEW y \in SearchRecs, y.h = sr.h, y.attr = sr.attr, y.dir = sr.dir,
                 y.nth = f.n, y.due = sr.due \ {f.name}
          PROVE  Tracks(y, disk, f.items)
      BY <2>2, <2>3, <3>2, <3>3, <1>6 DEF Tracks, L
    <3> QED BY <2>2, <3>2, <3>3
  <2> QED BY <2>7, <2>8
<1> QED BY <1>5, <1>6

\* FIND_FIRST and FIND_NEXT that get an answer
LEMMA SearchedTrue ==
  ASSUME FewNames, NamedInv, Next, CompleteInv, NEW s \in Searches, NEW sr \in SearchRecs,
         NEW its, Working(its), sr.h \in 1 .. Len(its), Ready(sr, its),
         NEW f, f = FindFile(its, sr.h, sr.attr, sr.nth), Searched(s, sr, f)
  PROVE  CompleteInv'
<1> DEFINE y == [sr EXCEPT !.nth = f.n, !.due = @ \ {f.name}]
           x == IF f.n = 0 THEN NoSearch ELSE y
           w == Watched(disk, f.items)
<1>1. DriveInv /\ f.n \in Nat
  <2>1. DriveInv BY DEF NamedInv
  <2>2. sr.nth \in Nat BY DEF SearchRecs
  <2> QED BY <2>1, <2>2, FindFileOK
<1>2. /\ items' = f.items /\ disk' = disk /\ search' = [w EXCEPT ![s] = x]
      /\ missed' = (missed \/ (/\ sr.clean
                               /\ IF f.n = 0 THEN sr.due # {}
                                  ELSE f.name \in Names /\ f.name \notin sr.due))
  BY DEF Searched
<1>3. DOMAIN w = Searches BY <1>1, WatchedOK
<1>4. /\ y \in SearchRecs /\ y.h = sr.h /\ y.attr = sr.attr /\ y.dir = sr.dir
      /\ y.nth = f.n /\ y.due = sr.due \ {f.name} /\ y.clean = sr.clean
  BY <1>1 DEF SearchRecs
<1> HIDE DEF y
<1>5. sr.clean =>
        /\ f.n = 0 => sr.due = {}
        /\ f.n # 0 /\ f.name \in Names => f.name \in sr.due
        /\ f.n # 0 => Tracks(y, disk, f.items)
  BY <1>4, AnswerTrue
<1>6. missed' = FALSE BY <1>2, <1>5 DEF CompleteInv
<1>7. SearchTrue(x, disk', items') BY <1>2, <1>4, <1>5 DEF SearchTrue
<1>8. \A i \in Searches : SearchTrue(w[i], disk', items')
  <2>1. w = Watched(disk', items') BY <1>2
  <2> HIDE DEF w
  <2> QED BY <2>1, WatchedTrue DEF CompleteInv
<1> HIDE DEF w, x
<1>9. \A i \in Searches : search'[i] = IF i = s THEN x ELSE w[i] BY <1>2, <1>3
<1>10. \A i \in Searches : SearchTrue(search'[i], disk', items') BY <1>7, <1>8, <1>9
<1> QED BY <1>6, <1>10 DEF CompleteInv

\* A request that is no search.
LEMMA EffectQuiet ==
  ASSUME NEW dk, NEW its, NEW result, Effect(dk, its, result)
  PROVE  Quiet
BY DEF Effect, SetDisk, Quiet

LEMMA FailsQuiet ==
  ASSUME DriveInv, NEW s, NEW its, SearchFails(s, its)
  PROVE  Quiet
<1> DEFINE w == Watched(disk, its)
<1>1. DOMAIN w = Searches BY WatchedOK
<1>2. /\ search' = [w EXCEPT ![s] = NoSearch] /\ missed' = missed
      /\ w = Watched(disk', items')
  BY DEF SearchFails
<1> HIDE DEF w
<1> QED BY <1>1, <1>2 DEF Quiet

\* FIND_FIRST
LEMMA FindFirstTrue ==
  ASSUME FewNames, NamedInv, Next, CompleteInv, NEW s \in Searches, NEW dir \in ClientDirs,
         NEW attr \in AttrSets, FindFirst(s, dir, attr)
  PROVE  CompleteInv'
<1> DEFINE New(g, p) == [h |-> g.h, attr |-> attr, nth |-> 0, dir |-> p,
                         due |-> Due(p, attr), clean |-> TRUE]
<1>1. PICK r : /\ r = Lookup(disk, items, Append(dir, All), FALSE)
               /\ \/ SearchFails(s, r.items)
                  \/ /\ r.ok
                     /\ \E p \in {Front(r.path)}, g \in {GetHandle(r.items, Front(r.path), now)} :
                          Searched(s, New(g, p), FindFile(g.items, g.h, attr, 0))
  BY Zenon DEF FindFirst
<1>2. DriveInv /\ now \in Nat BY DEF NamedInv, DriveInv
<1>3. Working(r.items) /\ (r.ok => Front(r.path) \in Seq(STRING)) BY <1>1, <1>2, PatternLookup
<1>4. CASE SearchFails(s, r.items) BY <1>2, <1>4, FailsQuiet, QuietTrue
<1>5. ASSUME r.ok, NEW p, p = Front(r.path), NEW g, g = GetHandle(r.items, p, now),
             Searched(s, New(g, p), FindFile(g.items, g.h, attr, 0))
      PROVE  CompleteInv'
  <2> DEFINE sr == New(g, p)
             f == FindFile(g.items, g.h, attr, 0)
  <2>1. p \in Seq(STRING) BY <1>3, <1>5
  <2>2. Working(g.items) /\ g.h \in 1 .. Len(g.items) BY <1>2, <1>3, <1>5, <2>1, WorkingHandle
  <2>3. g.items[g.h].path = p
    <3>1. ItemsOK(r.items, now) BY <1>3 DEF Working
    <3>2. HandleOK(r.items, g.items, g.h, p, now) BY <1>2, <1>5, <2>1, <3>1, GetHandleOK
    <3> QED BY <3>2 DEF HandleOK
  <2>4. IF attr = {"vol"} THEN Due(p, attr) = {}
        ELSE Due(p, attr) = HitNames(DirectoryList(disk, p), attr, 0)
    <3>1. CASE attr = {"vol"} BY <3>1 DEF Due
    <3>2. CASE attr # {"vol"} BY <3>2, <2>1, DueIs
    <3> QED BY <3>1, <3>2
  <2>5. Due(p, attr) \subseteq Names
    <3>1. HitNames(DirectoryList(disk, p), attr, 0) \subseteq Names BY DEF HitNames
    <3> QED BY <2>4, <3>1
  <2>6. attr \in SUBSET {"dir", "vol"} BY DriveAssumption
  <2>7. g.h \in Nat BY <2>2
  <2>8. /\ sr.h = g.h /\ sr.attr = attr /\ sr.nth = 0 /\ sr.dir = p /\ sr.due = Due(p, attr)
    OBVIOUS
  <2>9. sr \in SearchRecs BY <2>1, <2>5, <2>6, <2>7 DEF SearchRecs
  <2>10. Searched(s, sr, f) BY <1>5
  <2> HIDE DEF sr
  <2>11. Ready(sr, g.items) BY <2>3, <2>4, <2>8 DEF Ready
  <2>12. f = FindFile(g.items, sr.h, sr.attr, sr.nth) BY <2>8
  <2> HIDE DEF f
  <2>13. sr.h \in 1 .. Len(g.items) BY <2>2, <2>8
  <2> QED BY <2>2, <2>9, <2>10, <2>11, <2>12, <2>13, SearchedTrue
<1> HIDE DEF New
<1> QED BY <1>1, <1>4, <1>5, Zenon

\* FIND_NEXT
LEMMA FindNextTrue ==
  ASSUME FewNames, NamedInv, Next, CompleteInv, NEW s \in Searches, FindNext(s)
  PROVE  CompleteInv'
<1> DEFINE sr == search[s]
           f == FindFile(items, sr.h, sr.attr, sr.nth)
<1>1. DriveInv /\ Working(items) BY WorkingStart DEF NamedInv
<1>2. sr \in SearchRecs /\ (sr.clean => Tracks(sr, disk, items))
  BY DEF FindNext, CompleteInv, SearchTrue
<1>3. CASE SearchFails(s, items) BY <1>1, <1>3, FailsQuiet, QuietTrue
<1>4. CASE sr.h \in DOMAIN items /\ Searched(s, sr, f)
  <2>1. sr.h \in 1 .. Len(items) BY <1>1, <1>4, ItemFields DEF DriveInv
  <2>2. Ready(sr, items) BY <1>2 DEF Ready, Tracks
  <2>3. Searched(s, sr, f) BY <1>4
  <2> HIDE DEF f, sr
  <2>4. f = FindFile(items, sr.h, sr.attr, sr.nth) BY DEF f
  <2> QED BY <1>1, <1>2, <2>1, <2>2, <2>3, <2>4, SearchedTrue
<1> QED BY <1>3, <1>4 DEF FindNext

\* Every step.
LEMMA CompleteStep ==
  ASSUME FewNames, NamedInv, CompleteInv, Next
  PROVE  CompleteInv'
<1> DEFINE Effects == \E dk, its, result : Effect(dk, its, result)
<1>1. ASSUME Effects PROVE CompleteInv'
  <2>1. Quiet BY <1>1, EffectQuiet
  <2> HIDE DEF Effects
  <2> QED BY <2>1, QuietTrue
<1>2. ASSUME NEW its, Answer(its) PROVE Effects BY <1>2 DEF Answer
<1>3. ASSUME NEW r, NEW ok, NEW dk, NEW cp, ChangeAndRebuild(r, ok, dk, cp) PROVE Effects
  BY <1>3, Zenon DEF ChangeAndRebuild, Answer
<1>4. ASSUME NEW p, NEW dk, NEW its, NEW result, OpenedAs(p, dk, its, result) PROVE Effects
  BY <1>4 DEF OpenedAs
<1>5. ASSUME NEW cp, NEW r, NEW ro, MakeFile(cp, r, ro) PROVE Effects
  BY <1>5, Zenon DEF MakeFile, OpenedAs
<1> HIDE DEF Effects
<1>6. CASE ClientRequest
  <2>1. ASSUME NEW cp, MakeDir(cp) PROVE Effects BY <2>1, <1>3, Zenon DEF MakeDir
  <2>2. ASSUME NEW cp, RemoveDir(cp) PROVE Effects BY <2>2, <1>3, Zenon DEF RemoveDir
  <2>3. ASSUME NEW dir, ChangeDir(dir) PROVE Effects BY <2>3, <1>2, Zenon DEF ChangeDir
  <2>4. ASSUME NEW cp, GetAttrs(cp) PROVE Effects BY <2>4, <1>2, Zenon DEF GetAttrs
  <2>5. ASSUME NEW cp, NEW ro, SetAttrs(cp, ro) PROVE Effects
    BY <2>5, <1>2, <1>3, Zenon DEF SetAttrs
  <2>6. ASSUME NEW cp1, NEW cp2, Rename(cp1, cp2) PROVE Effects
    BY <2>6, <1>3, Zenon DEF Rename, RenameFile
  <2>7. ASSUME NEW cp, DeleteFile(cp) PROVE Effects
    BY <2>7, <1>2, Zenon DEF DeleteFile, Effects
  <2>8. ASSUME NEW dir, DeleteMatching(dir) PROVE Effects
    BY <2>8, <1>2, Zenon DEF DeleteMatching, Effects
  <2>9. ASSUME NEW cp, NEW write, OpenFile(cp, write) PROVE Effects
    BY <2>9, <1>2, <1>4, Zenon DEF OpenFile
  <2>10. ASSUME NEW cp, NEW ro, CreateFile(cp, ro) PROVE Effects
    BY <2>10, <1>2, <1>4, <1>5, Zenon DEF CreateFile
  <2>11. ASSUME NEW cp, ExtendedOpen(cp) PROVE Effects
    BY <2>11, <1>2, <1>4, <1>5, ExtendedOpenIs, Zenon
  <2>12. ASSUME NEW h, HandleRequest(h) PROVE Effects
    BY <2>12, HandleRequestIs, Zenon DEF Effects
  <2>13. ASSUME NEW s \in Searches, NEW dir \in ClientDirs, NEW attr \in AttrSets,
                FindFirst(s, dir, attr)
         PROVE  CompleteInv'
    BY <2>13, FindFirstTrue
  <2>14. ASSUME NEW s \in Searches, FindNext(s) PROVE CompleteInv' BY <2>14, FindNextTrue
  <2>15. ASSUME NEW s, EndSearch(s) PROVE CompleteInv'
    <3>1. Quiet BY <2>15, FailsQuiet DEF EndSearch, NamedInv
    <3> QED BY <3>1, QuietTrue
  <2> QED BY <1>1, <1>6, <2>1, <2>2, <2>3, <2>4, <2>5, <2>6, <2>7, <2>8, <2>9, <2>10, <2>11,
             <2>12, <2>13, <2>14, <2>15 DEF ClientRequest, HandleRequest
<1>7. CASE \E p \in HostPaths : HostChange(p) BY <1>1, <1>7 DEF HostChange, Effects
<1>8. CASE Tick BY <1>8 DEF Tick, CompleteInv
<1>9. CASE Restart BY <1>1, <1>2, <1>9 DEF Restart
<1> QED BY <1>6, <1>7, <1>8, <1>9 DEF Next

\* A search returns every entry of its directory once and nothing else, if the
\* entries stay the same until its end, however its list is dropped, made anew
\* or edited by other requests between two FIND_NEXT: a new list is the same
\* list, and no request can take anything off it.
THEOREM SearchCompleteHolds ==
  ASSUME FewNames
  PROVE  Spec => []SearchComplete
<1>1. Init => CompleteInv BY DEF Init, CompleteInv, SearchTrue
<1>2. NamedInv /\ CompleteInv /\ [Next]_vars => CompleteInv'
  <2>1. ASSUME NamedInv, CompleteInv, Next PROVE CompleteInv' BY <2>1, CompleteStep
  <2>2. ASSUME CompleteInv, UNCHANGED vars PROVE CompleteInv' BY <2>2 DEF vars, CompleteInv
  <2> QED BY <2>1, <2>2
<1>3. CompleteInv => SearchComplete BY DEF CompleteInv, SearchComplete
<1> QED BY <1>1, <1>2, <1>3, NamedInvariant, PTL DEF Spec

=============================================================================
