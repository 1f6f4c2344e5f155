# NetMount in TLA+

NetMount lets a DOS machine use directories of other machines as drives. A
resident DOS client (`src/netmount/netmount.c`) catches the network redirector
calls of DOS (INT 2Fh, function 11h), turns each into one or more UDP requests
and copies the replies back. A server (`src/netmount-server/`) on Linux, BSD,
macOS or Windows executes them on its file system. This directory holds a model
of the parts where these programs are hard to test, the TLC runs that check the
model on small instances, and proofs (TLAPS) of the main results for every
instance.

## The system

| Part | State | Operations | Interacts with |
|---|---|---|---|
| Request path of the client: `send_request`, `pktdrv_recv`, `handle_ipv4` | one receive buffer, its length (0 = free), the flag `server_response_received`, the last sequence number and remote address | send, poll, validate, resend, give up, end of handler; receive interrupt | the packet driver's interrupt runs between any two instructions of the foreground; servers over UDP |
| Drive and address tables: INSTALL, MOUNT, UMOUNT, UNINSTALL, `send_arp_request`, `handle_arp` | `drives[]`, `drive_map[]`, four IP/MAC slots, gateway slot | the commands, finding a hardware address, ARP interrupt | same interrupt; the commands run in another program than the resident part |
| File calls of the INT 2Fh handler | open files (kept by DOS), one read-ahead buffer of up to 64 bytes with drive, handle, offset and time | READ, WRITE, OPEN, CREATE, EXTENDED_OPEN_CREATE, CLOSE, ... | the request path; BIOS clock |
| Directory and disk calls of the handler | the searches of programs (handle and entry number, kept in the DTA) | MKDIR, RMDIR, CHDIR, DELETE, RENAME, FIND, attributes, disk space | the request path |
| Server main loop and `ReplyCache` | the last request and reply of each of 16 clients | receive, repeat or execute, cache, reply | clients; `Drive` |
| `Drive` (fs.cpp) | path of every 16-bit handle, directory lists with 8.3 names | read, write, create, find, rename, delete | host file system |
| Settings: options of INSTALL and MOUNT, NMMANAGE | timeouts, retries, read length, MTU, port, checksum and ARP flags, in 8 and 16 bits of shared data | set, show, `MAC SET` | `send_request` reads them for every request |
| SLIP over a serial line (`slip_udp_serial.cpp`) | receive buffer, position in the frame | encode, decode byte by byte, check the datagram | the main loop; a line that loses bytes |
| UDP sockets, platform file systems, NINSTALL, name transliteration, logging | see PROJECT.json | | |

What is hard here:

- *Interrupts against the foreground.* The receive buffer, its length and the
  flag are shared without a lock, and so are the hardware addresses.
- *Datagrams.* A request or its reply may be lost, late or overtaken; the client
  repeats a request after a timeout, the server has to recognise the repetition.
- *Small numbers.* 8-bit sequence numbers, four address slots, a clock that
  starts again at midnight.
- *Caches.* The read-ahead buffer must not outlive a change of the file, also
  when the change was made by a call that failed for the client.
- *Identity.* Handles are numbers per drive, and the buffer's key is drive
  letter and handle. A DOS name stands for a host name by a list the server made
  at some earlier time and may make anew at any time.
- *Limits.* 16 cached clients, 65535 handles, 9998 numbers for
  names with the same stem; what is used longest ago gives way.

What makes each part correct: the request path returns, and returns only the
reply to its own request, with its own length; a request is executed at most
once and never after a later one; a mounted drive keeps its server's address and
its frames reach nobody else; a READ returns the bytes of the file, and a byte
buffered for longer than five seconds is not served; every file of a directory
can be named, what was created is found, a search misses nothing; a wait lasts
as long as was set; a byte lost on the line costs at most two datagrams.

`PROJECT.json` lists the hazards with their source lines and the properties that
stand guard over them.

## The modules

| Module | Models | 
|---|---|
| `Wire` | messages: header lengths, sequence numbers, requests, replies (`drvproto.h`) |
| `Client` | `send_request`, `pktdrv_recv`, `handle_ipv4`, the end of the INT 2Fh handler |
| `Server` | main loop, `process_request`'s cache check, one `ReplyInfo` per server |
| `Transport` | `Client`, several `Server`s and a network of datagrams composed; the properties of the request path |
| `Rpc` | abstract: an at-most-once remote procedure call |
| `TransportRefinesRpc` | the refinement mapping from `Transport` to `Rpc` |
| `AddressTable` | drive table, IP/MAC table, gateway, ARP, and the commands that change them |
| `FileAccess` | the file calls, the read-ahead buffer, the servers' files and handles |
| `ShortNames` | directory lists, 8.3 names, handles and path lookup of `fs.cpp` as operators |
| `Drive` | the requests on directories, names and attributes, the server's items, the searches of programs; built on `ShortNames` |
| `Slip` | the SLIP encoder, decoder and datagram checks, and a bad line |
| `Settings` | the options of INSTALL and MOUNT and the settings of NMMANAGE |
| `Timeouts` | the waits and repetitions of `send_request` by the BIOS clock, under `Settings` |
| `ReplyCache` | the reply cache with more clients than entries |
| `MCTransport`, `MCAddressTable`, `MCFileAccess`, `MCDrive`, `MCSlip`, `MCTimeouts` | constants and symmetry for TLC |
| `TransportProofs`, `RpcProofs`, `AddressTableProofs`, `FileAccessProofs`, `DriveProofs`, `SlipProofs`, `ReplyCacheProofs`, `TimeoutsProofs` | theorems |

### Request path (Wire, Client, Server, Transport)

A foreground step is the code between two accesses to memory that the interrupt
also uses. `pc` tells where `send_request` is: `prepared` (headers built, flag
not yet cleared), `poll` (wait loop), `checklen` (length field read, not yet
compared), `validate`, `use` (returned; the handler reads the buffer), `failed`.
An interrupt runs to its end before the foreground goes on, so it is one step:
`ReceiveReply` for a server's reply, `ReceiveOther` for any other frame that is
copied into the buffer and dropped.

Payloads are abstracted to an operation: two requests have the same bytes when
operation and sequence number agree, which is what the server's cache compares.
Each message carries the number `id` of its request for the properties; no
action decides by it. Lengths are those of the code (8-byte header, 42 bytes of
headers before it, frames padded to 60 bytes) since the length check is about
them. The checksum is modelled as telling a wrong length from the right one.

The network loses anything and keeps order per direction unless `Reorder`. It
makes no duplicates of its own; the client's repetitions are the duplicates.
`CacheLoss` lets a server forget its `ReplyInfo` (restart, or more than 16
clients). `SilentOps` are requests a server does not answer.

`FileAccess` relies on what `Rpc` says: a call is executed once and answered; or
answered with NETWORK_ERROR and executed, not executed, or executed later but
before the next request of this client to that server.

### Tables (AddressTable)

Commands and INT 2Fh calls do not overlap, DOS runs one program at a time. The
ARP interrupt comes between any two steps. Filling a slot's hardware address
with 0xFF in MOUNT and copying it into a frame go byte by byte (`MacBytes`);
everything else an ARP frame cannot interrupt to any effect is one step.
`target[d]`, the address a drive was mounted with, is a history variable.
`MacSet` and `ArpRequestsSet` are NMMANAGE's `MAC SET` and `NET SET
ARP_REQUESTS`, commands like the others.

### Files (FileAccess)

File contents are sequences of bytes; each byte of a file's first content is
distinct, so a wrong byte shows. READs smaller than `min_server_read_len` go
through the buffer (`ReadHit`, `ReadMiss`), larger ones past it in chunks
(`ReadBegin`, `ReadNextChunk`); WRITE invalidates, then goes out in chunks, each
of which may be cut short, refused, lost, or executed with its reply lost. A
lost chunk stays in `late` and `ExecuteLate` may execute it until the server
executes something else. Every action that models a call of the handler first
drops an expired buffer (`Checked`), as the handler does; with the 32-bit unsigned
difference of BIOS ticks, a clock that went back counts as expired.

MOUNT does not ask whether another letter has the same share, so with `Aliases`
two drives may be of one remote. The buffer is identified by drive letter, so a
WRITE through one letter leaves the bytes buffered for the other; they are served
until the buffer's time to live ends. `ServedInTime` is checked with `Aliases`,
`ReadCorrect` after changes and `BufferCoherent` without (see the table of
violations below).

`SetMinReadLen` is NMMANAGE's MIN_READ_LEN, at any time between two calls. The
comment at `nmmanage.c:365-369` expects that a change may make a READ return "a few
bytes of invalid data" from a buffer filled in blocks of the old length. It does
not: a READ takes bytes from the buffer only when its block of the new length starts
at `rb.offset`, at their distance from it and no more than are valid; what is missing
is fetched in blocks of the new length.
`read_blocks` and `coherent` change the length at will, and `ReadCorrectHolds`
proves it for all lengths.

The histories `correct` and `inTime` record, when a READ returns, whether its
bytes were those of the file and whether buffered ones were young enough.

### Directories (ShortNames, Drive)

The host's directory is a function from paths to attributes. The server knows it
through its items: a handle is an index, an item has a path, the time it was last
used and a directory list that is made on demand, rebuilt by FIND_FIRST and by
the requests that create something, and emptied when it is old and some handle
is asked for (`GetHandle`, which also finds the item that gives way when all
handles are taken). `DirectoryList` gives each host name an 8.3 name: its own,
or a stem with the first number not yet used in the list. `CreateServerPath`
goes down a path name by name; a name that is not in the list stands for a host
name made from the DOS name.

Each action is one request: lookup, the change on the disk, the second lookup
that rebuilds lists where the code has one, and the reply. The letters of names
are constants (`Plain`, `Stem`, `Shortened`); the order in which the host lists
names is the constant `Order`. The host changes files on its own (`HostChange`),
and `Restart` empties the items. A search is what its DTA holds. `behind` (a
directory changed without a request for it), `due` and `clean` of a search,
`missed` and `last` are histories; `last` tells what the request just
answered has made, or that it wrote bytes or a date.
The requests for a handle are three actions: `WriteFile` (WRITE, the truncating one
included), `CloseFile` (CLOSE with a date, stored if `ClientTimestamp`, the
server's `use_client_timestamp`) and `UseHandle` (all others), each with its own
test of the read-only drive and its own rule for the time of the item. `AttrsStored` tells whether DOS attributes
are stored; with `attrs=IGNORE` EXTENDED_OPEN_CREATE behaves differently.

### Serial line (Slip)

Datagrams are encoded to bytes and decoded one byte at a time, with the locals of
`recv_decode_slip` as state. The fields of the two headers are scaled to a byte
each; the IP checksum, the length checks and the port check are those of the
code. The protocol field is not checked (a frame is accepted that the code would
drop), and that a datagram sent fits the MTU is part of `SlipAssumption`. The line may lose or change a byte, pause for longer than the timeout of
`read_byte`, or get only a part of a frame. `hit` and `damaged` are histories.

### Settings and waiting (Settings, Timeouts)

An argument is a text: a number, and whether it has digits or other characters
after them. What each program makes of it is as in the code: 16 bits, then the
limits, then 8 bits; seconds times 18.2 without the two lowest bits, and back for
NMMANAGE's output. `Timeouts` counts the ticks of the BIOS clock while
`send_request` waits; the program sees the low 16 bits. The loop looks at the
clock at least once between two ticks.

### Reply cache (ReplyCache)

`get_reply_info` and the cache check for many clients; times are in seconds, and
the first among the oldest entries is reused. Any request of a client may arrive any
number of times; `ordered` tells whether the datagrams of each client keep their
order. If they do not, a delayed older request is executed and takes the place of
the newer one in the entry, and a repetition of the newer one is executed again, even
with a single client: that is the second alternative of `RunsAgainOnlyWhenFull`.
The server's clock is taken not to be set back. `Server` follows one client only
and loses its entry at any time; `RunsAgainOnlyWhenFull` tells when it can.

## Runs

Passing runs, all exhaustive:

| Run | Configuration | Shows |
|---|---|---|
| `transport` | two servers, two datagrams in flight each way, sequence numbers mod 2, three requests, a repetition each, reordering, cache loss, foreign frames, unanswered requests | `ClientInv`, `AcceptedReply`, `AcceptedLength`, `ReplyHeld`, and `BlockedByLateReply`: only a reply that came when nobody waited can stand in the way of the one waited for |
| `fifo` | two servers, order kept, cache kept, three requests | `ServerInv`, `ExecutedInOrder`, `CachedReplyOwn`, and `ImplementsRpc`: `Transport` implements `Rpc` |
| `liveness` | fairness, checksums off, foreign frames | `RequestReturns` |
| `address_table` | two drives, three addresses of two bytes (one behind the gateway), two slots | `TableInv`, `MountedAddress`, `KnownBytes` (each byte of a slot in use leads to its host), `SentToOwner`, `ArpAnswerEndsWait`, and `RefusedWhenFull`: MOUNT is refused only when every slot, slot 0 aside, is in use |
| `read_blocks` | files of 5 and 8 bytes on two drives, of one share or of two with equal handle numbers, blocks of 2 and 4 that NMMANAGE changes, chunks of 3, READs of any length at any position | `TypeOK`, `ReadCorrect` |
| `coherent` | one drive, two files of up to 3 bytes, blocks and chunks of 2, the buffer switched on and off, lost and late writes | `ReadCorrect`, `BufferCoherent` |
| `in_time` | two drives, also of one share, other clients, deletes, renames, remounts, lost CREATEs, a day of 3 ticks and a time to live of 1 | `ServedInTime` |
| `directory` | two long names with the same stem, one of them a read-only file, and an empty directory, shared for writing or read-only, three handles, lists that are old after a second, a search, a host that changes files, restarts, two changes | `TypeOK`, `Reachable`, `CreatedIsFound`, `DeletesMatching`, `SearchComplete`, `HandleKept`, `ReadOnlyKept` |
| `slip` | three frames with the bytes that are escaped, two faults, a buffer as long as the longest frame | `TypeOK`, `NeverJoined`, `HandedOnce`, `Resync` |
| `timeouts` | values at and next to every limit, given to INSTALL, MOUNT and NMMANAGE, requests before the wrap of the 16-bit clock, before midnight and after it | `TypeOK`, `ShownAsTyped`, `WaitInTime`, `GivesUpInTime` |
| `reply_cache` | three clients, two entries, four seconds, two requests each that arrive any number of times, in order or not, and are executed at most twice | `CacheInv`, `RunsAgainOnlyWhenFull` |

Bounds. A sequence number modulo 2 and three requests let a number come round
while its older bearer is still in the network or in a cache; that is the case
the 8 bits are about, and the theorems cover 256. `fifo` uses 256 as the code
does. One repetition makes a duplicate; queues of two let one datagram overtake
another. Two slots and three addresses make MOUNT look for a slot to reuse.
Blocks of 2 and 4 bytes with a file that ends inside a block and one that ends with
two whole blocks reach every branch of the alignment arithmetic, and a change of the length
meets a buffer filled with the other one; two changes are a write and what it
must not leave behind. A day of 3 ticks lets the clock pass midnight before and
after the buffer expires. Three handles are fewer than the paths of `directory`,
so handles give way to each other, and two changes are a creation or renaming and
what it meets. As many numbers as names and a list longer than any directory make
`directory` an instance of the theorems about `Drive`. Two faults in three frames leave a whole frame to be in step
again. One use of NMMANAGE after a MOUNT is enough since settings do not depend
on each other, and four retries are the default. Symmetry is used where no action tells the elements
of a set apart: servers, drives, paths, remotes.

One run finds a disagreement between the code and its comment (a finding in
`PROJECT.json`, with the lines quoted):

| Run | Violated | The code |
|---|---|---|
| `rename_overwrites` | `RenameKeeps` | whether the new name exists is read from a directory list that can be older than the directory; `std::filesystem::rename` then replaces the file |

The trace: a rename out of directory `e` makes the server list `e`; RMDIR of the
empty `e`; a rename of directory `d`, which holds a file `a`, to `e`; then a
rename of another file to `e\a`. The list of `e` still is the one of the removed
directory, `e\a` is not in it, and the file that came with `d` is lost. The same
staleness of moved directories is why `Reachable` and `DeletesMatching` leave out
the directories in `behind`.

The runs leave out some cases in which the code falls short of a property as
well. To see each, change the constants of the run and keep the property named
as its only one:

| Run, with | Violated | The code |
|---|---|---|
| `fifo`, `SeqCount = 2` | `CachedReplyOwn` | requests to other servers use up numbers: a new request equal to the last one this server saw, a whole turn of the number (256) later, is answered from the cache (`netmount-server.cpp:227`) |
| `address_table` | `KnownAddress` | an ARP frame during MOUNT's loop leaves half a hardware address that counts as known (`netmount.c:2260`) |
| `in_time`, `MaxAge = 3` | `ServedInTime` | a buffer untouched for a whole day looks fresh (`netmount.c:860`) |
| `coherent`, `Remotes = {R, S}`, `Remounts = TRUE` | `ReadCorrect` | UMOUNT and MOUNT of another server keep the buffer (`netmount.c:2510`) |
| `coherent`, `LostCalls = {"write", "create"}` | `ReadCorrect` | CREATE invalidates the buffer only after a good reply (`netmount.c:1450`) |
| `coherent`, `Drives = {D, E}`, `Aliases = TRUE` | `ReadCorrect`, `BufferCoherent` | a WRITE through one drive letter leaves what is buffered for another letter of the same share (`netmount.c:1126` compares `drive_no`; MOUNT, `3046-3072`, allows two letters) |
| `in_time`, `NameChanges = TRUE`, `Others = FALSE`, `Remounts = FALSE`, `Aliases = FALSE`, `LostCalls = {}`, `MaxChanges = 2` | `ReadCorrect` | delete and EXTENDED_OPEN_CREATE of the same path keep handle and buffer (`netmount.c:1463`); CLIENT.md:187 speaks of avoiding "invalid data from the buffer" |
| `transport`, one server, `ChecksumEnabled = FALSE`, `JunkLens = {8}`, `Reorder = FALSE`, `CacheLoss = FALSE` | `AcceptedLength` | `ignore_frame` leaves the flag set (`netmount.c:801`); a reply that arrives between the read of the length field and its check is returned with an older frame's length |
| `transport`, one server, `MaxReq = 2`, `Reorder = FALSE` | `BufferFreeWhileWaiting` | a duplicate reply that arrives between two calls keeps the buffer through the whole next request, which then fails (`netmount.c:721`, comment at 452) |
| `transport`, one server, operations `Rd` and `Wr`, `SeqCount = 256`, `MaxReq = 2` | `ExecutedOnce` | a repetition overtaken by the next request is executed again (`netmount-server.cpp:227`, comment at 40) |
| `address_table` | `RefusedOnlyWhenFull` | drives never mounted count as users of slot 0 (`netmount.c:2247`): a slot that is free is not given to a fifth server, while CLIENT.md:66 speaks of "up to four remote IP addresses" |
| `directory`, `AttrsStored = FALSE` | `CreatedIsFound` | with `attrs=IGNORE` EXTENDED_OPEN_CREATE takes a missing file for an existing one and creates it as "replaced", without a rebuild of the list (`netmount-server.cpp:872`) |
| `rename_overwrites`, `InitialDisks <- LongDisks`, `ClientPaths <- LongPaths`, `ClientDirs <- LongDirs`, `NewFiles <- LongNewFiles`, `NewDirs = {}` | `RenameListed` | the lookup after a rename, which "Recreates directory_list" (`fs.cpp:824`), fails when the list made first gives another number to the next name of the path |

In the trace for `RenameListed` a directory holds a file and a directory with long
names of one stem, `LONG_N~1` and `LONG_N~2`, and RENAME moves the first into the
second. The lookup of the new path that follows makes the list of the parent anew, in
which the directory is `LONG_N~1` now; `LONG_N~2` is not found, the list of that
directory is not made anew and hides the file, and the client is told PATH_NOT_FOUND
for a rename that was done. The attempt to prove `Reachable` without a condition on
the names of directories led to it.

Without these cases the runs show that there is no other way to such a state within the
bounds. Smaller things met on the way: NMMANAGE takes 65537 for 1, since
`strtoul` is cut to 16 bits before the check (`nmmanage.c:201`, `386`); MOUNT
takes `/MIN_READ_LEN:320` for 64 (`netmount.c:3024`); NMMANAGE prints a port
above 32767 as a negative number (`nmmanage.c:172`); a MIN_RCV_TMO above
MAX_RCV_TMO is accepted, and the second wait is then the shorter one; midnight
ends a wait at once, or lengthens by 176 ticks one that has lasted as long; on a
serial line one changed byte can yield a shifted datagram, since a frame longer
than its datagram is accepted, which the checksum of the drive protocol is there
to catch (`NeverJoined` is about lost bytes, pauses and cut frames).

Fairness (`FairSpec`). While `send_request` runs, nothing else runs but
interrupts, so each of its straight-line steps is weakly fair. The timer
interrupt counts on while the loop runs with interrupts enabled, so a loop that
comes back to its time check again and again sees the timeout in the end, even
if the stale flag sends it through the length check in between: strong fairness
of `Resend \/ GiveUp`. Nothing is assumed of network, servers or interrupts.

Deadlock is checked, except in `directory`, `rename_overwrites`, `slip`,
`timeouts` and `reply_cache`: there the bounds on changes, frames, requests and
time bring a behaviour to its end.

Every property has a mutant in `PROJECT.json`, a changed definition standing
beside the original (a dropped check, an omitted reset, a signed difference)
that makes TLC find it violated.

## Theorems

From the named assumptions of the modules only (`WireAssumption`,
`ClientAssumption`, `TransportAssumption`, `AddressAssumption`,
`FileAssumption`, `NoFileAssumption`, `NamesAssumption`, `DriveAssumption`,
`SlipAssumption`, `CacheAssumption`, `SettingsAssumption`, `TimeoutsAssumption`: types of
constants, non-empty sets, disks that are trees of known names at the start, host
and 8.3 names other than `.` and `..`, a list that holds
at least two entries, a receive buffer that holds the largest datagram), for any
number of servers, requests, drives, slots, files, handles, searches, frames,
faults, clients and cache entries, any sizes and any arguments:

| Theorem | Result | Rests on |
|---|---|---|
| `ClientInvariant` | `ClientInv` | inductive |
| `AcceptedReplyHolds` | the accepted reply is of the right server, and of this request or at least `SeqCount` requests old | `ClientInv`, arithmetic of `%` |
| `AcceptedLengthHolds` | with checksums on, the length returned is the reply's | `ClientInv` |
| `ReplyHeldHolds` | no interrupt overwrites an accepted reply | `ClientInv` |
| `BlockedByLateReplyHolds` | while `send_request` waits, only a reply to an earlier request can occupy the buffer | `ClientInv`, `LateInv` |
| `ServerInvariant`, `ExecutedInOrderHolds` | requests executed in order, once, if the network keeps order and caches are kept | `ClientInv`, `ServerInv` |
| `CachedReplyNearHolds` | a cached reply answers the request it is cached with, or one at least `SeqCount` requests away, on any network | `ClientInv` |
| `CachedReplyOwnHolds` | it answers that request, if fewer requests are sent than there are numbers | the same |
| `ImplementsRpcHolds` | `Transport` implements `Rpc`, if order and caches are kept and the number does not come round | `RpcInv` |
| `TableInvariant` | `TableInv` | inductive |
| `MountedAddressHolds` | a mounted drive keeps its server | `TableInv` |
| `ArpAnswerEndsWaitHolds` | the ARP answer waited for ends the wait | `TableInv` |
| `KnownBytesHolds`, `SentToOwnerHolds` | no byte of a foreign hardware address gets into a slot in use or into a frame, however ARP frames fall between the bytes | `TableInv`, `KnownBytes`, `CopiedBytes` |
| `RefusedWhenFullHolds` | MOUNT is refused only while every slot but slot 0 is in use | `TableInv`, `IdleDrives` |
| `ServedInTimeHolds` | with `MaxAge < Day`, no buffered byte older than `Ttl` is served | `TimeInv` |
| `FileTypeOK` | `TypeOK` of `FileAccess` | `FileInv` |
| `BufferCoherentHolds`, `ReadCorrectHolds` | the buffer holds bytes of the file and every READ returns them, if no two drives are of one share (`~Aliases`), files change through this client alone, names and mounts stay, and no CREATE loses its reply; MIN_READ_LEN may change | `CoherentInv` |
| `DriveTypeOK` | the shared directory stays a tree, handles have distinct paths, lists keep to their limit, searches have a handle | `DriveInv` |
| `HandleKeptHolds` | a handle changes its path only when all are taken and each other one was used later | `DriveInv`, `Kept` |
| `ReadOnlyKeptHolds` | on a drive shared read-only no request changes names or attributes, writes or truncates a file, or sets its date | the guards of the requests |
| `ReachableHolds` | every file has a short name that leads to it, if `AttrsStored`, `FewNames`, `EnoughNumbers` and `OwnDirs` | `NamedInv`, `FreshInv` |
| `DeletesMatchingHolds` | DELETE with a pattern leaves no file it could delete, on the same conditions | `NamedInv`, `FreshInv` |
| `CreatedIsFoundHolds` | what a request has made is found by the next, if `AttrsStored`, `FewNames`, `EnoughNumbers` and `OwnPaths` | `NamedInv` |
| `SearchCompleteHolds` | a search returns every entry of a directory that stays as it is, if `FewNames` | `NamedInv`, `CompleteInv` |
| `SlipTypeOK` | the receive buffer is never overrun | `SlipInv` |
| `ResyncHolds` | a frame is received as sent when neither it nor the one before it met a fault | `ResyncInv` |
| `CacheInvariant` | `CacheInv` | inductive |
| `RunsAgain` | a request is executed again only if `CacheSize` other clients were served since, or datagrams do not keep their order and another request of the client came last | `CacheInv`, a count of clients by entries |
| `SettingsUsable`, `WaitsInTime` | settings are usable; a wait lasts its timeout, and midnight adds 176 ticks at most | `WaitInv` |
| `GivesUpInTimeHolds` | a request is given up after all its attempts, each after its planned wait, one of them disturbed by midnight at most | `PlanInv`, `MidnightInv` |
| `SettingsShown` | a setting is shown as it was typed, if it fits | `ShownInv` |

`ClientInv` joins types, `MessagesIssued` (every message in the network, a
cache or the buffer belongs to an issued request and carries its number) and
`BufferState`. `AcceptedReply` alone is not inductive: the flag alone means
nothing, since `ignore_frame` leaves it set, nor does the length, since a new
request leaves an old frame in place. Flag and length together, while the
request is in hand, mean that the frame is from the right server. `LateInv` adds
that nothing in the network is about a request before it is sent, so a frame
that is in the buffer when the wait begins is about an earlier one.

`ServerInv` says that requests wait in the order of their numbers, none older
than the cached one, that nothing newer than the cached one was executed, and
that one number stands for one operation. Then a request not recognised as a
repetition is newer than all executed ones, also when its sequence number has
come round. `RpcInv` adds that a request is known to one server only and that a
reply exists only for what was executed; with it every step of `Transport` is a
step of `Rpc` or none.

`TableInv` adds to the types that no address has two slots (`handle_arp` stops
at the first), that slots of mounted drives and of the gateway hold their
addresses, and that the MOUNT or request in hand agrees with the tables.
`KnownBytes` speaks of single bytes because of whole addresses it is false;
`CopiedBytes` says the same of the part of the frame already copied.

`TimeInv` says that the age of the buffer is the distance from its timestamp to
the clock, over midnight or not. It is not preserved without `MaxAge < Day`.
`BufferCoherent` is not inductive: `CoherentInv` adds that neither the WRITE in
hand nor one that failed and may still be executed touches the buffered bytes,
that no two paths have one handle, and that the chunks read so far are those of
the file, which no late write can change any more once the first has been read.

`DriveInv` is the type invariant of `Drive` with the fields of items and
searches. For `HandleKept` the steps inside one request have to be put together,
since a lookup asks for a handle per directory: `Kept` is the relation between
the handles before and after any part of a request that is transitive and gives
`HandleKept` at the end. That RENAME_FILE keeps the tree needs that whatever lies
below a path has a directory in that path, by induction over its length.

The last four theorems about `Drive` have conditions on its constants:
`FewNames` (a list, of 65535 entries in the code, has room for all names, `.` and
`..`), `EnoughNumbers` (there are as many numbers, 9998 in the code, as names), `AttrsStored` (the server stores DOS attributes: without it a file is
created behind a list), and that the directories in which programs make something
(`OwnDirs`), or also what they make (`OwnPaths`), have a host name that is its own
8.3 name and like no other's. Without `OwnDirs` the constants given above for
`RenameListed` violate `Reachable`; without `OwnPaths` a new file can get another number than its
name asks for. `directory` satisfies them all.

`NamedInv` says that every name on the disk is one of `Order`, so a list made of a
directory has room and numbers for all of it, and its short names are distinct
(two names of one stem get two numbers, and a number passed over is in use).
`FreshInv` says that a list that is not empty and not of a directory in `behind`
leads to everything in its directory (it may still name what was deleted since). What makes it inductive is a statement of each request
as a relation between the disks and lists before and after (`Changed`): whatever
comes new to the disk lies in a directory of `behind`, or the lists on the way to it
were made after the change. That the second lookup gets as far as that
directory is where `OwnDirs` enters: a name of its own is found in every list made,
whatever else the directory holds. `DeletesMatching` and `CreatedIsFound` then speak
of the reply of one request in a state where the lists agree with the disk.

`CompleteInv` follows a search that nothing has disturbed: its handle has the list
that would be made now, or none, and what is still due to it are the entries it asks
for behind its place in that list. Other requests may empty the list or make it anew,
but as long as the entries are the same they make the same list; a change of the
entries, the handle given to another path and a restart end what the search can
claim.

`SlipInv` says that there is room for one byte more after an ESC. `ResyncInv`
follows the last frame while it is not hit: what is on the line and what is in the
buffer are the rest and the decoded beginning of the same frame, at a position
between two coded bytes or after an ESC.

`CacheInv` needs its last part for `RunsAgain`: a client without an entry was
served no later than every client with one, so the entries are those of other
clients served since, one client each.

`WaitInv` says what the low words of the clock tell of a wait: the ticks waited,
or, after midnight, these minus the low word of a day, modulo 2^16; with timeouts
of at most 1016 ticks the two cannot be confused. `MidnightInv` bounds all waits
of a request by less than a day, so that midnight comes once. `ShownInv` says
which value is stored for every number typed.

What recursive functions compute (directory lists, paths looked up, encoded
frames) is proved by induction over sets of numbers (`SetInduction`), which needs
no operator as a parameter; `Iterate` shows that such a function exists.

Only model-checked: `RequestReturns`, a liveness property, which the prover does
not do; and `NeverJoined` and `HandedOnce` of `Slip`, which do not hold for all
constants: they depend on how many faults it takes until a checksum fits by chance,
which is a matter of the datagrams and not of the decoder. `RenameKeeps` and
`RenameListed` are violated by what the code does.

## Not modelled

- Sockets, serial ports and host file systems: I/O. The client's end of the
  serial line is an external packet driver.
- How the letters of a long name are cut and transliterated: which names share a
  stem is a constant of `Drive`. Masks other than the one of every name; name
  conversion switched off; hidden and system attributes; dangling links.
- DISK_INFO and the output of NMMANAGE's other commands, which change nothing;
  the client's refusal to remove the current directory.
- NINSTALL (a boot program that copies files) and logging.
- The network under `Drive`: requests there are executed once and answered,
  `Transport` and `Rpc` say what else may happen to them.
- Lock, unlock, seek and commit: no state of `FileAccess` depends on them
  (`OtherCall`); in `Drive` they use their handle (`UseHandle`). The contents and dates of
  files in `Drive`, of which it only tells that they change (`last`).

Assumed: a request always fits the MTU (the smallest MTU accepted is 560);
255.255.255.255 is no server; file positions stay below 2^32 - 64; a file is
deleted or renamed only when this client does not have it open; each remote of
`FileAccess` is on its own server; /GW is given once and lies inside the network;
bsd_checksum tells lengths apart; the server's clock is not set back.

## Plan

All parts that keep state of their own are modelled, and every property that holds
for all constants, or on conditions of theirs that can be named, is proved. What
could be added: masks other than the one of every name in `Drive`, and its requests
carried by `Transport` in one composed model.
