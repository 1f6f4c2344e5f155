-------------------------------- MODULE Drive --------------------------------
(***************************************************************************)
(* A shared drive and the requests that work on its directories: the       *)
(* handlers of netmount.c send them, process_request and the methods of    *)
(* Drive (fs.cpp) execute them, one at a time.  Between two requests the   *)
(* server keeps the handles with their directory lists, a DOS program its  *)
(* searches (the DTA of FIND_FIRST and FIND_NEXT), and the host may change *)
(* the shared directory.                                                   *)
(*                                                                         *)
(* The network is left to Transport: a request here is executed once and   *)
(* answered.                                                               *)
(***************************************************************************)
EXTENDS ShortNames

CONSTANTS
  InitialDisks,  \* disks the server may be started on
  HostPaths,     \* files the host itself creates and deletes
  ClientPaths,   \* the paths programs name
  ClientDirs,    \* the directories programs search
  NewFiles,      \* those among them a program creates
  NewDirs,       \* or makes
  Searches,      \* the searches programs may have under way
  AttrSets,      \* attribute masks of searches
  NewAttrs,      \* read-only attributes programs give to files
  OpenModes,     \* do programs open files for writing?
  AttrsStored,   \* are DOS attributes stored? (attrs_mode is not IGNORE)
  ClientTimestamp,  \* use_client_timestamp
  MaxTime,       \* bound on the clock
  MaxChanges     \* bound on the changes of the disk

\* A disk is a tree: what is in it is in a directory.
Tree(dk) ==
  /\ dk \in [DOMAIN dk -> [dir : BOOLEAN, ro : BOOLEAN]]
  /\ \A p \in DOMAIN dk : p \in Seq(STRING) \ {Root} /\ IsDir(dk, Front(p))

ASSUME DriveAssumption ==
  /\ \A dk \in InitialDisks : Tree(dk) /\ \A p \in DOMAIN dk : Last(p) \in Names
  /\ NewFiles \cup NewDirs \subseteq ClientPaths /\ ClientPaths \subseteq Seq(Shorts) \ {Root}
  /\ \A cp \in NewFiles \cup NewDirs : HostName[Last(cp)] \in Names
  /\ ClientDirs \subseteq Seq(Shorts)
  /\ \A p \in HostPaths : p \in Seq(Names) \ {Root}
  /\ AttrSets \subseteq SUBSET {"dir", "vol"}
  /\ NewAttrs \subseteq BOOLEAN /\ OpenModes \subseteq BOOLEAN
  /\ AttrsStored \in BOOLEAN /\ ClientTimestamp \in BOOLEAN
  /\ MaxTime \in Nat /\ MaxChanges \in Nat

VARIABLES
  disk,      \* the shared directory on the host: path -> [dir, ro]
  items,     \* Drive::items
  readOnly,  \* Drive::read_only
  now,       \* the clock, time(NULL)
  search,    \* search[s]: the DTA of a search
  changes,   \* number of changes of the disk so far
  behind,    \* history: directories changed other than by a request for them
  last,      \* history: what the last request made, deleted or wrote to
  missed     \* history: did a search of an unchanged directory go wrong?

vars == <<disk, items, readOnly, now, search, changes, behind, last, missed>>

NoSearch == [h |-> 0]
NoResult == [op |-> "none"]

\* The bytes of a file have changed, or its date: disk does not show them.
Written == [op |-> "written"]

Init ==
  /\ disk \in InitialDisks
  /\ readOnly \in BOOLEAN
  /\ items = <<>> /\ now = 0
  /\ search = [s \in Searches |-> NoSearch]
  /\ changes = 0 /\ behind = {} /\ last = NoResult /\ missed = FALSE

-----------------------------------------------------------------------------
(* What a request does to the state *)

Lookup(dk, its, cp, rescan) == CreateServerPath(dk, its, cp, rescan, now)

\* The read-only attribute as the server sees it.
IsReadOnly(p) == AttrsStored /\ p \in DOMAIN disk /\ disk[p].ro

(***************************************************************************)
(* History: a search stays clean while its directory keeps its entries and *)
(* its handle.                                                             *)
(***************************************************************************)
Undisturbed(sr, dk, its) ==
  /\ sr.h \in DOMAIN its /\ its[sr.h].path = sr.dir
  /\ Children(dk, sr.dir) = Children(disk, sr.dir)

Watched(dk, its) ==
  [s \in Searches |->
     IF search[s] = NoSearch THEN NoSearch
     ELSE [search[s] EXCEPT !.clean = @ /\ Undisturbed(search[s], dk, its)]]

SetDisk(dk) ==
  /\ disk' = dk
  /\ changes' = IF dk = disk THEN changes ELSE changes + 1
  /\ changes' <= MaxChanges

\* The server has executed a request.
Effect(dk, its, result) ==
  /\ SetDisk(dk)
  /\ items' = its
  /\ search' = Watched(dk, its)
  /\ last' = result
  /\ UNCHANGED <<readOnly, now, missed>>

\* The same, nothing having changed but the handles.
Answer(its) == Effect(disk, its, NoResult) /\ UNCHANGED behind

(***************************************************************************)
(* The requests that change the disk and then rebuild the lists on the way *)
(* to the path they changed.  r is the lookup of the path.                 *)
(***************************************************************************)
ChangeAndRebuild(r, ok, dk, cp) ==
  \/ readOnly /\ Answer(items)
  \/ ~readOnly /\ ~ok /\ Answer(r.items)
  \/ /\ ~readOnly /\ ok
     /\ \E again \in {Lookup(dk, r.items, cp, TRUE)} :
          Effect(dk, again.items,
                 IF again.ok /\ r.path \notin DOMAIN disk
                 THEN [op |-> "made", cp |-> cp, path |-> r.path]
                 ELSE NoResult)

-----------------------------------------------------------------------------
(* Directories and attributes *)

MakeDir(cp) ==
  \E r \in {Lookup(disk, items, cp, FALSE)} :
    /\ ChangeAndRebuild(r,
         r.ok /\ ~r.exist /\ ~Exists(disk, r.path) /\ IsDir(disk, Front(r.path)),
         Put(disk, r.path, [dir |-> TRUE, ro |-> FALSE]), cp)
    /\ UNCHANGED behind

\* Mutant: a directory is removed without a look at what is in it.
RemoveDirUnchecked(cp) ==
  \E r \in {Lookup(disk, items, cp, FALSE)} :
    /\ ChangeAndRebuild(r, r.ok /\ r.exist /\ IsDir(disk, r.path),
                        Without(disk, {r.path}), cp)
    /\ UNCHANGED behind

RemoveDir(cp) ==
  \E r \in {Lookup(disk, items, cp, FALSE)} :
    /\ ChangeAndRebuild(r,
         r.ok /\ r.exist /\ IsDir(disk, r.path) /\ Children(disk, r.path) = {},
         Without(disk, {r.path}), cp)
    /\ UNCHANGED behind

ChangeDir(dir) == Answer(Lookup(disk, items, dir, FALSE).items)

GetAttrs(cp) == Answer(Lookup(disk, items, cp, FALSE).items)

SetAttrs(cp, ro) ==
  IF AttrsStored
  THEN \E r \in {Lookup(disk, items, cp, FALSE)} :
         /\ ChangeAndRebuild(r, r.ok /\ r.path \in DOMAIN disk,
                             [disk EXCEPT ![r.path].ro = ro], cp)
         /\ UNCHANGED behind
  ELSE Answer(items)

(***************************************************************************)
(* rename_file.  Only the lists on the way to the new path are rebuilt.    *)
(* History: a directory that moves brings its entries to a path that may   *)
(* have a list already.                                                    *)
(***************************************************************************)
RenameFile(cp1, cp2) ==
  \E r1 \in {Lookup(disk, items, cp1, FALSE)} :
  \E r2 \in {IF r1.ok THEN Lookup(disk, r1.items, cp2, FALSE) ELSE r1} :
    LET ok == /\ r1.ok /\ r2.ok /\ ~r2.exist
              /\ CanMove(disk, r1.path, r2.path)
        dk == Move(disk, r1.path, r2.path)
    IN  /\ ChangeAndRebuild(r2, ok, dk, cp2)
        /\ behind' = IF ~readOnly /\ ok /\ IsDir(disk, r1.path)
                     THEN behind \cup {p \in DOMAIN dk : Below(p, r2.path)}
                     ELSE behind

\* The client does not send a new name with wildcards.
Rename(cp1, cp2) == Last(cp2) # All /\ RenameFile(cp1, cp2)

-----------------------------------------------------------------------------
(* DELETE_FILE *)

\* delete_file refuses a directory and what is not there, as fopen does.
IsFile(p) == p \in DOMAIN disk /\ ~disk[p].dir

DeleteFile(cp) ==
  \E r \in {Lookup(disk, items, cp, FALSE)} :
    LET ok == r.ok /\ r.exist /\ ~IsReadOnly(r.path) /\ IsFile(r.path)
    IN  \/ readOnly /\ Answer(items)
        \/ ~readOnly /\ ~ok /\ Answer(r.items)
        \/ /\ ~readOnly /\ ok
           /\ Effect(Without(disk, {r.path}), r.items, NoResult)
           /\ UNCHANGED behind

(***************************************************************************)
(* A pattern (here: every name) is matched against the directory list that *)
(* is there, which the lookup has made if there was none.                  *)
(***************************************************************************)
FilesIn(list, p, n) ==
  {Append(p, list[i].name) : i \in {j \in 1 .. n : list[j].kind # "dir"}}

\* Mutant: the last entry of the list is left out.
VictimsButLast(list, p) ==
  {q \in FilesIn(list, p, Len(list) - 1) : ~IsReadOnly(q) /\ IsFile(q)}

Victims(list, p) ==
  {q \in FilesIn(list, p, Len(list)) : ~IsReadOnly(q) /\ IsFile(q)}

DeleteMatching(dir) ==
  \E r \in {Lookup(disk, items, Append(dir, All), FALSE)} :
    \/ readOnly /\ Answer(items)
    \/ ~readOnly /\ ~r.ok /\ Answer(r.items)
    \/ /\ ~readOnly /\ r.ok
       /\ \E p \in {Front(r.path)}, g \in {GetHandle(r.items, Front(r.path), now)} :
            Effect(Without(disk, Victims(g.items[g.h].list, p)), g.items,
                   [op |-> "deleted", path |-> p])
       /\ UNCHANGED behind

-----------------------------------------------------------------------------
(* OPEN_FILE, CREATE_FILE, EXTENDED_OPEN_CREATE_FILE *)

\* The reply carries the handle of the file.
OpenedAs(p, dk, its, result) ==
  /\ Effect(dk, GetHandle(its, p, now).items, result)
  /\ UNCHANGED behind

CanOpen(p, write) ==
  /\ write => ~readOnly /\ ~IsReadOnly(p)
  /\ p \in DOMAIN disk /\ ~disk[p].dir

CanCreate(p) ==
  /\ ~readOnly
  /\ p \in DOMAIN disk => ~disk[p].dir /\ ~IsReadOnly(p)

Created(p, ro) == Put(disk, p, [dir |-> FALSE, ro |-> ro /\ AttrsStored])

\* A file that was there is emptied.
Result(cp, p) ==
  IF p \in DOMAIN disk THEN Written ELSE [op |-> "made", cp |-> cp, path |-> p]

OpenFile(cp, write) ==
  \E r \in {Lookup(disk, items, cp, FALSE)} :
    LET ok == r.ok /\ CanOpen(r.path, write)
    IN  \/ ~ok /\ Answer(r.items)
        \/ ok /\ OpenedAs(r.path, disk, r.items, NoResult)

(***************************************************************************)
(* A file that is new on the disk: the lists on the way to it are rebuilt, *)
(* and with them the path is looked up once more, whose failure would be   *)
(* reported although the file is there.                                    *)
(***************************************************************************)
\* Mutant: the lists are not rebuilt.
MakeFileNoRebuild(cp, r, ro) ==
  OpenedAs(r.path, Created(r.path, ro), r.items, Result(cp, r.path))

MakeFile(cp, r, ro) ==
  \E again \in {Lookup(Created(r.path, ro), r.items, cp, TRUE)} :
    IF again.ok
    THEN OpenedAs(r.path, Created(r.path, ro), again.items, Result(cp, r.path))
    ELSE Effect(Created(r.path, ro), again.items, NoResult) /\ UNCHANGED behind

CreateFile(cp, ro) ==
  \E r \in {Lookup(disk, items, cp, FALSE)} :
    LET ok == r.ok /\ IsDir(disk, Front(r.path)) /\ CanCreate(r.path)
    IN  \/ ~ok /\ Answer(r.items)
        \/ ok /\ r.path \notin DOMAIN disk /\ MakeFile(cp, r, ro)
        \/ /\ ok /\ r.path \in DOMAIN disk
           /\ OpenedAs(r.path, Created(r.path, ro), r.items, Result(cp, r.path))

(***************************************************************************)
(* Whether the file exists is decided by its attributes.  With attributes  *)
(* ignored a file that is not there has some too, so it is never created   *)
(* as missing and can be "replaced" without a rebuild of the lists.        *)
(***************************************************************************)
ExtendedOpen(cp) ==
  \E r \in {Lookup(disk, items, cp, FALSE)}, ifExist \in {"open", "replace", "fail"},
     create \in BOOLEAN, write \in OpenModes, ro \in NewAttrs :
    LET p == r.path
        ok == r.ok /\ IsDir(disk, Front(p))
        notFound == AttrsStored /\ p \notin DOMAIN disk
        makes == ok /\ notFound /\ create /\ CanCreate(p)
        opens == ok /\ ~notFound /\ ifExist = "open" /\ CanOpen(p, write)
        replaces == ok /\ ~notFound /\ ifExist = "replace" /\ CanCreate(p)
    IN  \/ makes /\ MakeFile(cp, r, ro)
        \/ opens /\ OpenedAs(p, disk, r.items, NoResult)
        \/ replaces /\ OpenedAs(p, Created(p, ro), r.items, Result(cp, p))
        \/ ~makes /\ ~opens /\ ~replaces /\ Answer(r.items)

-----------------------------------------------------------------------------
(* Requests for a handle: READ, WRITE, CLOSE, LOCK, UNLOCK, SEEK_FROM_END *)

UsedNow(h) == [items EXCEPT ![h].used = now]

\* READ, CLOSE without a date, LOCK, UNLOCK and SEEK_FROM_END, which leaves the time
\* of an item whose file is not there.
UseHandle(h) ==
  /\ h \in DOMAIN items
  /\ \/ Answer(UsedNow(h))
     \/ ~Exists(disk, items[h].path) /\ Answer(items)

\* Mutant: write_file without its test of the read-only drive.
WriteFileAnyDrive(h) ==
  /\ h \in DOMAIN items
  /\ \/ Answer(UsedNow(h))
     \/ /\ IsFile(items[h].path)
        /\ Effect(disk, UsedNow(h), Written) /\ UNCHANGED behind

(***************************************************************************)
(* WRITE, the truncating one included: the bytes of the file change unless *)
(* the host's disk is full.  A read-only drive is refused before the item  *)
(* is looked at.                                                           *)
(***************************************************************************)
WriteFile(h) ==
  /\ h \in DOMAIN items
  /\ \/ readOnly /\ Answer(items)
     \/ ~readOnly /\ Answer(UsedNow(h))
     \/ /\ ~readOnly /\ IsFile(items[h].path)
        /\ Effect(disk, UsedNow(h), Written) /\ UNCHANGED behind

\* CLOSE with a date (set_file_date_time), which the host may refuse to set.
CloseFile(h) ==
  /\ h \in DOMAIN items
  /\ \/ Answer(items)
     \/ /\ ~readOnly /\ ClientTimestamp /\ Exists(disk, items[h].path)
        /\ Effect(disk, UsedNow(h), Written) /\ UNCHANGED behind

-----------------------------------------------------------------------------
(* FIND_FIRST, FIND_NEXT (for every name) *)

\* Mutant: a list that is there is used for a new search.
ScannedIfEmpty(its, h, nth) ==
  IF its[h].list = <<>> THEN Rescan(disk, its, h, now) ELSE its

\* The list is made anew for FIND_FIRST and when there is none.
Scanned(its, h, nth) ==
  IF nth = 0 \/ its[h].list = <<>> THEN Rescan(disk, its, h, now) ELSE its

(***************************************************************************)
(* Drive::find_file: the next entry behind nth; n = 0 when there is none.  *)
(* A search for the volume label alone does not look at the list.          *)
(***************************************************************************)
FindFile(its, h, attr, nth) ==
  LET scanned == Scanned(its, h, nth)
      list == scanned[h].list
      hits == {n \in nth + 1 .. Len(list) : {list[n].kind} \ {"file"} \subseteq attr}
  IN  IF attr = {"vol"}
      THEN [items |-> its, n |-> IF nth = 0 /\ HasLabel THEN 1 ELSE 0, name |-> NoName]
      ELSE IF hits = {} THEN [items |-> scanned, n |-> 0, name |-> NoName]
      ELSE [items |-> scanned, n |-> Least(hits), name |-> list[Least(hits)].name]

\* History: the entries a search of p has to return.
Due(p, attr) ==
  IF attr = {"vol"} THEN {}
  ELSE {Last(q) : q \in {c \in Children(disk, p) : disk[c].dir => "dir" \in attr}}

(***************************************************************************)
(* The answer to a search: its DTA is updated, or "no more files" ends it. *)
(* History: what a clean search returns is due, and nothing is due at its  *)
(* end.                                                                    *)
(***************************************************************************)
Searched(s, sr, f) ==
  /\ items' = f.items
  /\ search' = [Watched(disk, f.items) EXCEPT ![s] =
                  IF f.n = 0 THEN NoSearch
                  ELSE [sr EXCEPT !.nth = f.n, !.due = @ \ {f.name}]]
  /\ missed' = \/ missed
               \/ /\ sr.clean
                  /\ IF f.n = 0 THEN sr.due # {}
                     ELSE f.name \in Names /\ f.name \notin sr.due
  /\ last' = NoResult
  /\ UNCHANGED <<disk, readOnly, now, changes, behind>>

SearchFails(s, its) ==
  /\ items' = its
  /\ search' = [Watched(disk, its) EXCEPT ![s] = NoSearch]
  /\ last' = NoResult
  /\ UNCHANGED <<disk, readOnly, now, changes, behind, missed>>

FindFirst(s, dir, attr) ==
  \E r \in {Lookup(disk, items, Append(dir, All), FALSE)} :
    \/ ~r.ok /\ SearchFails(s, r.items)
    \/ /\ r.ok
       /\ \E p \in {Front(r.path)}, g \in {GetHandle(r.items, Front(r.path), now)} :
            Searched(s,
                     [h |-> g.h, attr |-> attr, nth |-> 0, dir |-> p,
                      due |-> Due(p, attr), clean |-> TRUE],
                     FindFile(g.items, g.h, attr, 0))

\* A handle the server does not know (any more) ends the search.
FindNext(s) ==
  LET sr == search[s]
  IN  /\ sr # NoSearch
      /\ \/ sr.h \notin DOMAIN items /\ SearchFails(s, items)
         \/ /\ sr.h \in DOMAIN items
            /\ Searched(s, sr, FindFile(items, sr.h, sr.attr, sr.nth))

(***************************************************************************)
(* The program stops asking, or FIND_NEXT gets no answer, which the client *)
(* reports as "no more files".                                             *)
(***************************************************************************)
EndSearch(s) == search[s] # NoSearch /\ SearchFails(s, items)

-----------------------------------------------------------------------------
(* The host and the clock *)

\* Another program of the server's machine creates or deletes a file.
HostChange(p) ==
  LET dk == IF p \in DOMAIN disk THEN Without(disk, {p})
            ELSE Put(disk, p, [dir |-> FALSE, ro |-> FALSE])
  IN  /\ IsDir(disk, Front(p)) /\ ~IsDir(disk, p)
      /\ Effect(dk, items, NoResult)
      /\ behind' = behind \cup {Front(p)}

Tick ==
  /\ now < MaxTime
  /\ now' = now + 1
  /\ last' = NoResult
  /\ UNCHANGED <<disk, items, readOnly, search, changes, behind, missed>>

\* The server is started again: all it knew of the drive was in memory.
Restart == items # <<>> /\ Answer(<<>>)

ClientRequest ==
  \/ \E cp \in NewDirs : MakeDir(cp)
  \/ \E cp \in ClientPaths : RemoveDir(cp)
  \/ \E dir \in ClientDirs : ChangeDir(dir)
  \/ \E cp \in ClientPaths : GetAttrs(cp)
  \/ \E cp \in ClientPaths, ro \in NewAttrs : SetAttrs(cp, ro)
  \/ \E cp1 \in ClientPaths, cp2 \in NewFiles \cup NewDirs : Rename(cp1, cp2)
  \/ \E cp \in ClientPaths : DeleteFile(cp)
  \/ \E dir \in ClientDirs : DeleteMatching(dir)
  \/ \E cp \in ClientPaths, write \in OpenModes : OpenFile(cp, write)
  \/ \E cp \in NewFiles, ro \in NewAttrs : CreateFile(cp, ro)
  \/ \E cp \in NewFiles : ExtendedOpen(cp)
  \/ \E h \in DOMAIN items : UseHandle(h) \/ WriteFile(h) \/ CloseFile(h)
  \/ \E s \in Searches, dir \in ClientDirs, attr \in AttrSets : FindFirst(s, dir, attr)
  \/ \E s \in Searches : FindNext(s)
  \/ \E s \in Searches : EndSearch(s)

Next ==
  \/ ClientRequest
  \/ \E p \in HostPaths : HostChange(p)
  \/ Tick
  \/ Restart

Spec == Init /\ [][Next]_vars

-----------------------------------------------------------------------------
(* Properties *)

\* What stands in a list for the host name n, or for the label, . and ..
EntryOf(n) ==
  [short : IF n \in Names THEN {Plain[n]} \cup {Numbered(n, k) : k \in 1 .. MaxSuffix}
           ELSE {<<IF n = NoName THEN "label" ELSE n, 0>>},
   name : {n},
   kind : IF n = NoName THEN {"vol"} ELSE {"file", "dir"}]
Entry == UNION {EntryOf(n) : n \in Names \cup {NoName, ".", ".."}}

(***************************************************************************)
(* The variables have their types; every handle has a path of its own and  *)
(* every search a handle.                                                  *)
(***************************************************************************)
TypeOK ==
  /\ Tree(disk)
  /\ Len(items) <= MaxHandles
  /\ \A h \in DOMAIN items :
       /\ items[h].used \in 0 .. now
       /\ Len(items[h].list) <= MaxEntries
       /\ \A i \in DOMAIN items[h].list : items[h].list[i] \in Entry
       /\ \A g \in DOMAIN items : items[g].path = items[h].path => g = h
  /\ \A s \in Searches :
       search[s] # NoSearch => search[s].h \in 1 .. MaxHandles /\ search[s].nth > 0

(***************************************************************************)
(* Every file of a directory can be named by a client: when the server has *)
(* a list of the directory, each entry on the disk is the one some short   *)
(* name leads to, whatever was created, renamed, deleted or aged since the *)
(* list was made.  (Not for a list the host or a rename of a directory has *)
(* gone behind, nor for one cut at MaxEntries.)                            *)
(***************************************************************************)
Reachable ==
  \A h \in DOMAIN items :
    LET p == items[h].path
        list == items[h].list
    IN  list # <<>> /\ IsDir(disk, p) /\ p \notin behind /\ Len(list) < MaxEntries =>
          \A q \in Children(disk, p) : \E short \in UsedNames(list) :
            GetServerName(disk, items, h, short, FALSE, now).name = Last(q)

(***************************************************************************)
(* What a request has just made (MAKE_DIR, CREATE_FILE, EXTENDED_OPEN, the *)
(* new name of RENAME_FILE) is what its path leads to in the next request. *)
(***************************************************************************)
CreatedIsFound ==
  last.op = "made" =>
    LET r == Lookup(disk, items, last.cp, FALSE)
    IN  r.ok /\ r.exist /\ r.path = last.path

(***************************************************************************)
(* DELETE_FILE with a pattern leaves no file it could delete, although it  *)
(* looks at a list that may be old.                                        *)
(***************************************************************************)
DeletesMatching ==
  last.op = "deleted" /\ last.path \notin behind =>
    \A q \in Children(disk, last.path) : disk[q].dir \/ IsReadOnly(q)

(***************************************************************************)
(* A search returns every entry of its directory once and nothing else, if *)
(* the entries stay the same until its end, however the list is dropped,   *)
(* rebuilt or edited by other requests between two FIND_NEXT.              *)
(***************************************************************************)
SearchComplete == ~missed

(***************************************************************************)
(* A handle is given to another path only when all are taken, and never    *)
(* while one that was used longer ago keeps its path, unless the same      *)
(* request has just used that one.                                         *)
(***************************************************************************)
HandleKept ==
  [][\A h \in DOMAIN items \cap DOMAIN items' :
       items'[h].path # items[h].path =>
         /\ Len(items') = MaxHandles
         /\ \A g \in DOMAIN items :
              items'[g].path = items[g].path =>
                items[h].used <= items[g].used \/ items'[g].used = now]_vars

(***************************************************************************)
(* No request changes anything on a drive shared read-only: nothing is     *)
(* made, renamed, deleted or given other attributes, no file is written    *)
(* to, truncated or given another date.  Every handler has its own test of *)
(* read_only.                                                              *)
(***************************************************************************)
ReadOnlyKept ==
  [][readOnly /\ (disk' # disk \/ last' = Written) => \E p \in HostPaths : HostChange(p)]_vars

\* RENAME_FILE never takes the place of something that exists.
RenameKeeps ==
  [][Cardinality(DOMAIN disk') < Cardinality(DOMAIN disk) =>
       ~ \E cp1 \in ClientPaths, cp2 \in NewFiles \cup NewDirs : Rename(cp1, cp2)]_vars

(***************************************************************************)
(* RENAME_FILE recreates the list of the directory it moves something to:  *)
(* the new name is in it.  (An old list, not an empty one, would hide it.) *)
(***************************************************************************)
RenameListed ==
  [][(\E cp1 \in ClientPaths, cp2 \in NewFiles \cup NewDirs : Rename(cp1, cp2)) =>
       \A q \in DOMAIN disk' \ DOMAIN disk, h \in DOMAIN items' :
         IsDir(disk, Front(q)) /\ items'[h].path = Front(q) /\ items'[h].list # <<>> =>
           \E i \in DOMAIN items'[h].list : items'[h].list[i].name = Last(q)]_vars
=============================================================================
