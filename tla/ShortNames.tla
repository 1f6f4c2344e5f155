----------------------------- MODULE ShortNames -----------------------------
(***************************************************************************)
(* How a drive shows its host directories to DOS (fs.cpp): the 8.3 names   *)
(* of file_name_to_83, the directory list of an Item, the handles of       *)
(* Drive::items, and create_server_path, which turns a client's path into  *)
(* a host path through those lists.                                        *)
(*                                                                         *)
(* Host names are abstract.  A short name is a pair: what stands before a  *)
(* '~' and the number behind it, 0 when there is none.  Paths are          *)
(* sequences of names (host) or short names (client); Root is the root of  *)
(* the share.                                                              *)
(*                                                                         *)
(* A disk is a function from the paths that exist to their attributes.     *)
(***************************************************************************)
EXTENDS Integers, Sequences, FiniteSets, SequencesExt

CONSTANTS
  Order,      \* all host names, in the order a directory is iterated
  Shorts,     \* the short names a client may use
  Plain,      \* Plain[n]: the host name n sanitised and cut to 8.3
  Shortened,  \* host names that lose characters by the cut
  Stem,       \* Stem[n]: what is left of Plain[n] before a '~' and a number
  HostName,   \* HostName[s]: the host name of a file created as s
  MaxSuffix,  \* the last number tried; 9998 in the code
  MaxEntries, \* entries of a directory list; 65535 in the code
  HasLabel,   \* has the drive a volume label?
  MaxHandles, \* MAX_HANDLE_COUNT, 65535 in the code
  ListTtl     \* age at which a list is dropped; 3600 s in the code

Names == {Order[i] : i \in DOMAIN Order}
NoName == "no name"

ASSUME NamesAssumption ==
  /\ Order \in Seq(STRING)
  /\ \A i, j \in DOMAIN Order : Order[i] = Order[j] => i = j
  /\ Shortened \subseteq Names /\ Names \cap {NoName, ".", ".."} = {}
  /\ \A n \in Names : /\ Plain[n] \in (STRING \X Nat) \ {<<".", 0>>, <<"..", 0>>}
                       /\ Stem[n] \in STRING
  /\ Shorts \subseteq (STRING \X Nat) \ {<<".", 0>>, <<"..", 0>>}
  /\ \A s \in Shorts \cup {<<"?", 0>>} : HostName[s] \in STRING
  /\ MaxSuffix \in Nat \ {0} /\ MaxEntries \in Nat \ {0, 1}
  /\ MaxHandles \in Nat \ {0} /\ ListTtl \in Nat
  /\ HasLabel \in BOOLEAN

Root == <<>>

\* The mask that matches every name ("????????.???").
All == <<"?", 0>>

Least(S) == CHOOSE i \in S : \A j \in S : i <= j

-----------------------------------------------------------------------------
(* The host file system *)

Exists(disk, p) == p = Root \/ p \in DOMAIN disk
IsDir(disk, p) == p = Root \/ (p \in DOMAIN disk /\ disk[p].dir)
Children(disk, p) == {q \in DOMAIN disk : q # Root /\ Front(q) = p}

\* Is q the path p or below it?
Below(q, p) == IsPrefix(p, q)

Put(disk, p, attrs) ==
  [q \in DOMAIN disk \cup {p} |-> IF q = p THEN attrs ELSE disk[q]]
Without(disk, P) == [q \in DOMAIN disk \ P |-> disk[q]]

(***************************************************************************)
(* rename(2): a file takes the place of a file, a directory that of an     *)
(* empty directory; nothing moves into itself (onto itself is no change).  *)
(***************************************************************************)
CanMove(disk, p, q) ==
  /\ p \in DOMAIN disk
  /\ IsDir(disk, Front(q))
  /\ q = p \/ ~Below(q, p)
  /\ q # p /\ q \in DOMAIN disk =>
       /\ disk[q].dir = disk[p].dir
       /\ Children(disk, q) = {}

Move(disk, p, q) ==
  LET moved == {r \in DOMAIN disk : Below(r, p)}
      To(r) == q \o SubSeq(r, Len(p) + 1, Len(r))
      From(r) == CHOOSE s \in moved : To(s) = r
      gone == moved \cup {q}
      come == {To(r) : r \in moved}
  IN  [r \in (DOMAIN disk \ gone) \cup come |->
         IF r \in come THEN disk[From(r)] ELSE disk[r]]

-----------------------------------------------------------------------------
(* Directory lists *)

(***************************************************************************)
(* file_name_to_83: the plain short name if nothing was cut and nobody     *)
(* else has it, else the first free number.  When all are taken the last   *)
(* one tried is used a second time (the caller ignores the result).        *)
(***************************************************************************)
Numbered(n, k) == <<Stem[n], k>>

\* Mutant: the numbered names are not compared with those in use.
FileNameTo83CutOnly(n, used) ==
  IF n \notin Shortened /\ Plain[n] \notin used THEN Plain[n] ELSE Numbered(n, 1)

FileNameTo83(n, used) ==
  LET free == {k \in 1 .. MaxSuffix : Numbered(n, k) \notin used}
  IN  IF n \notin Shortened /\ Plain[n] \notin used THEN Plain[n]
      ELSE IF free # {} THEN Numbered(n, Least(free))
      ELSE Numbered(n, MaxSuffix)

Kind(disk, p) == IF disk[p].dir THEN "dir" ELSE "file"

\* Item::fcb_names: the names given so far; the leading entries are not in it.
UsedNames(list) ==
  {list[i].short : i \in {j \in DOMAIN list : list[j].name \notin {NoName, ".", ".."}}}

(***************************************************************************)
(* Item::create_directory_list.  An empty directory has an empty list;     *)
(* otherwise the label of the root, or . and .., come first.  For a path   *)
(* that is no directory the iterator throws and the list is left empty.    *)
(***************************************************************************)
LeadEntries(p) ==
  IF p = Root
  THEN IF HasLabel
       THEN << [short |-> <<"label", 0>>, name |-> NoName, kind |-> "vol"] >>
       ELSE <<>>
  ELSE << [short |-> <<".", 0>>, name |-> ".", kind |-> "dir"],
          [short |-> <<"..", 0>>, name |-> "..", kind |-> "dir"] >>

DirectoryList(disk, p) ==
  LET there == {i \in DOMAIN Order : Append(p, Order[i]) \in DOMAIN disk}
      upto[k \in 0 .. Len(Order)] ==
        IF k = 0 THEN LeadEntries(p)
        ELSE LET before == upto[k - 1]
                 n == Order[k]
             IN  IF k \notin there \/ Len(before) = MaxEntries THEN before
                 ELSE Append(before,
                        [short |-> FileNameTo83(n, UsedNames(before)),
                         name |-> n,
                         kind |-> Kind(disk, Append(p, n))])
  IN  IF there = {} \/ ~IsDir(disk, p) THEN <<>> ELSE upto[Len(Order)]

-----------------------------------------------------------------------------
(* Handles: items is Drive::items, handle h is items[h + 1] there. *)

NewItem(p, now) == [path |-> p, used |-> now, list |-> <<>>]

\* Mutant: the comparison is turned round.
OldestLatest(items) ==
  Least({h \in DOMAIN items : \A g \in DOMAIN items : items[h].used >= items[g].used})

\* The handle used longest ago, the first of several.
Oldest(items) ==
  Least({h \in DOMAIN items : \A g \in DOMAIN items : items[h].used <= items[g].used})

(***************************************************************************)
(* Drive::get_handle.  The scan drops the lists that are too old on its    *)
(* way to the path; when all handles are taken the oldest is given to the  *)
(* new path.                                                               *)
(***************************************************************************)
GetHandle(items, p, now) ==
  LET found == {h \in DOMAIN items : items[h].path = p}
      stop == IF found # {} THEN Least(found) ELSE Len(items) + 1
      old == {h \in DOMAIN items : h < stop /\ now - items[h].used > ListTtl}
      aged == [h \in DOMAIN items |->
                 IF h \in old THEN [items[h] EXCEPT !.list = <<>>] ELSE items[h]]
      oldest == Oldest(items)
  IN  IF found # {}
      THEN [items |-> [aged EXCEPT ![stop].used = now], h |-> stop]
      ELSE IF Len(items) < MaxHandles
      THEN [items |-> Append(aged, NewItem(p, now)), h |-> stop]
      ELSE [items |-> [aged EXCEPT ![oldest] = NewItem(p, now)], h |-> oldest]

Rescan(disk, items, h, now) ==
  LET p == items[h].path
  IN  [items EXCEPT ![h].list = DirectoryList(disk, p),
                    ![h].used = IF IsDir(disk, p) THEN now ELSE @]

\* The list is made anew when asked for and when there is none.
Listed(disk, items, h, rescan, now) ==
  IF rescan \/ items[h].list = <<>> THEN Rescan(disk, items, h, now) ELSE items

\* The place of a short name in a list, Len(list) + 1 if it is not there.
PlaceOf(list, short) ==
  Least({i \in DOMAIN list : list[i].kind # "vol" /\ list[i].short = short}
          \cup {Len(list) + 1})

\* A listed name that is gone from the disk is taken off the list.
ServerName(disk, items, h, short) ==
  LET list == items[h].list
      i == PlaceOf(list, short)
  IN  IF i > Len(list) THEN [items |-> items, name |-> NoName]
      ELSE IF Append(items[h].path, list[i].name) \in DOMAIN disk
      THEN [items |-> items, name |-> list[i].name]
      ELSE [items |-> [items EXCEPT ![h].list = RemoveAt(@, i)], name |-> NoName]

(***************************************************************************)
(* Drive::get_server_name: the host name behind a short name, or NoName.   *)
(***************************************************************************)
GetServerName(disk, items, h, short, rescan, now) ==
  ServerName(disk, Listed(disk, items, h, rescan, now), h, short)

\* The path goes on with the host name found, or with the client's own name.
NextPart(r, s, short) ==
  [items |-> s.items,
   path |-> Append(r.path, IF s.name # NoName THEN s.name ELSE HostName[short]),
   exist |-> s.name # NoName,
   ok |-> TRUE]

\* One part more: g is the handle of the directory reached so far.
Descend(disk, r, g, short, rescan, now) ==
  IF ~r.ok \/ ~r.exist THEN [r EXCEPT !.ok = FALSE]
  ELSE NextPart(r, GetServerName(disk, g.items, g.h, short, rescan, now), short)

(***************************************************************************)
(* Drive::create_server_path with name conversion on.  ok: no exception;   *)
(* exist: the last part was found too, otherwise the client's own name is  *)
(* taken for it.                                                           *)
(***************************************************************************)
CreateServerPath(disk, items, clientPath, rescan, now) ==
  LET upto[k \in 0 .. Len(clientPath)] ==
        IF k = 0
        THEN [items |-> items, path |-> Root, exist |-> TRUE, ok |-> TRUE]
        ELSE LET r == upto[k - 1]
             IN  Descend(disk, r, GetHandle(r.items, r.path, now),
                         clientPath[k], rescan, now)
  IN  upto[Len(clientPath)]
=============================================================================
