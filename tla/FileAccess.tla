----------------------------- MODULE FileAccess -----------------------------
(***************************************************************************)
(* READ, WRITE, OPEN, CREATE and EXTENDED_OPEN_CREATE of the INT 2Fh       *)
(* handler (handle_request_for_our_drive in netmount.c) with the client's  *)
(* single read-ahead buffer, and the files and handles of the servers they *)
(* reach (process_request in netmount-server.cpp, class Drive in fs.cpp).  *)
(*                                                                         *)
(* A request is what module Rpc says of it: executed once, or answered     *)
(* with NETWORK_ERROR and executed, never executed, or executed later but  *)
(* before the next request.  DOS keeps the position of an open file, so    *)
(* every call may come with any position.                                  *)
(***************************************************************************)
EXTENDS Integers, SequencesExt

CONSTANTS
  Drives,     \* the client's drives
  Remotes,    \* drives shared by servers, each by a server of its own
  Names,      \* paths of files
  FirstLens,  \* lengths files may have at the start
  NoFile,     \* content of a file that does not exist
  Zero, New,  \* the byte 0 that fills holes, a byte of a WRITE
  BufferSize, \* FILE_BUFFER_SIZE, 64
  MinReadLens,\* values of drive_info.min_server_read_len, powers of 2, 0 for no buffer
  ReadChunk,  \* most bytes in the reply to a READ (from interface_mtu)
  WriteChunk, \* most bytes in a WRITE request
  Ttl,        \* 5 * 18 ticks
  Day,        \* ticks until the BIOS counter at 0x46C starts again from 0
  MaxPos,     \* bound: positions and lengths of calls
  MaxChanges, \* bound: changes of files
  MaxAge,     \* bound: ticks without a call while the buffer is filled
  LostCalls,  \* the calls that may end in NETWORK_ERROR: "write", "create"
  NameChanges,\* may the client delete and rename files?
  Remounts,   \* may the client unmount a drive and mount another remote?
  Aliases,    \* may two drives be mounted from one remote?
  Others      \* may other clients write to the files?

ASSUME FileAssumption ==
  /\ FirstLens \subseteq 0 .. MaxPos
  /\ BufferSize \in Nat /\ MinReadLens \subseteq 0 .. BufferSize
  /\ ReadChunk \in Nat \ {0} /\ WriteChunk \in Nat \ {0}
  /\ Ttl \in Nat /\ Day \in Nat \ {0}
  /\ MaxPos \in Nat /\ MaxChanges \in Nat /\ MaxAge \in Nat
  /\ LostCalls \subseteq {"write", "create"}
  /\ NameChanges \in BOOLEAN /\ Remounts \in BOOLEAN
  /\ Aliases \in BOOLEAN /\ Others \in BOOLEAN

VARIABLES
  mount,   \* mount[d]: the remote behind drive d
  minLen,  \* minLen[d]: drive_info.min_server_read_len of drive d
  file,    \* file[r][n]: the bytes of the file, or NoFile
  items,   \* items[r]: Drive::items, the path of every handle
  late,    \* late[r]: the failed request that r may still execute
  open,    \* the open files [drive, name, cluster] of the client's SFTs
  rb,      \* read_file_buffer; data holds the valid_bytes valid ones
  clock,   \* the BIOS tick counter
  pc, job, \* the READ or WRITE being split into chunks
  age,     \* ticks since the buffer was filled (history)
  changes, \* changes of files so far (history)
  correct, \* did every READ return what the file held then? (history)
  inTime   \* were all bytes the buffer served at most Ttl old? (history)

serverVars == <<mount, minLen, file, items, late, changes>>
historyVars == <<correct, inTime>>
vars == <<serverVars, open, rb, clock, pc, job, age, historyVars>>

Byte == {<<r, n, k>> : r \in Remotes, n \in Names, k \in 1 .. MaxPos}
          \cup {Zero, New}

\* No content stands for a file that does not exist.
ASSUME NoFileAssumption == NoFile \notin Seq(Byte)

OpenFile == [drive : Drives, name : Names, cluster : Nat]
NoJob == << >>
NoRequest == << >>

\* The bytes of s from offset off, at most n: what fread finds in a file.
Slice(s, off, n) ==
  SubSeq(s, off + 1, IF off + n <= Len(s) THEN off + n ELSE Len(s))

\* write_file: n new bytes at off, a gap before them filled with zeroes.
WriteAt(s, off, n) ==
  [i \in 1 .. (IF off + n > Len(s) THEN off + n ELSE Len(s)) |->
     IF off < i /\ i <= off + n THEN New
     ELSE IF i <= Len(s) THEN s[i] ELSE Zero]

\* resize_file
Resize(s, len) == [i \in 1 .. len |-> IF i <= Len(s) THEN s[i] ELSE Zero]

FirstContent(r, n, len) == [k \in 1 .. len |-> <<r, n, k>>]

Init ==
  /\ mount \in [Drives -> Remotes]
  /\ Aliases \/ \A d, e \in Drives : mount[d] = mount[e] => d = e
  /\ minLen \in [Drives -> MinReadLens]
  /\ \E len \in [Remotes \X Names -> FirstLens \cup {NoFile}] :
       file = [r \in Remotes |-> [n \in Names |->
                 IF len[<<r, n>>] = NoFile THEN NoFile
                 ELSE FirstContent(r, n, len[<<r, n>>])]]
  /\ items = [r \in Remotes |-> << >>]
  /\ late = [r \in Remotes |-> NoRequest]
  /\ open = {}
  /\ \E d \in Drives :  \* no matter which: the buffer is empty
       rb = [drive |-> d, cluster |-> 0, offset |-> 0, data |-> << >>, ts |-> 0]
  /\ clock \in 0 .. Day - 1
  /\ pc = "idle" /\ job = NoJob
  /\ age = 0 /\ changes = 0 /\ correct = TRUE /\ inTime = TRUE

-----------------------------------------------------------------------------
(* The servers *)

\* Drive::get_handle: the path's handle, or the next one.  (MAX_HANDLE_COUNT,
\* 65535 handles per drive, is out of reach here.)
HandleOf(r, n) ==
  IF \E h \in 1 .. Len(items[r]) : items[r][h] = n
  THEN CHOOSE h \in 1 .. Len(items[r]) : items[r][h] = n
  ELSE Len(items[r]) + 1

ItemsWith(r, n) ==
  IF HandleOf(r, n) > Len(items[r]) THEN Append(items[r], n) ELSE items[r]

Exists(r, n) == file[r][n] # NoFile

\* The file an open file's handle stands for on its remote.
PathOf(o) == items[mount[o.drive]][o.cluster]
Content(o) == file[mount[o.drive]][PathOf(o)]

\* Remote r executes a request that leaves file n with content c.
ChangeFile(r, n, c) ==
  /\ changes < MaxChanges
  /\ changes' = changes + 1
  /\ file' = [file EXCEPT ![r][n] = c]

\* What a WRITE of n bytes at off makes of content s: no bytes resize it.
Written(s, off, n) == IF n = 0 THEN Resize(s, off) ELSE WriteAt(s, off, n)

\* Remote r executes a request, so that no earlier one can come any more.
Overtaken(r) == late' = [late EXCEPT ![r] = NoRequest]

\* The write of a call that failed reaches its server after all.
ExecuteLate(r) ==
  /\ late[r] # NoRequest
  /\ LET q == late[r]
     IN /\ Exists(r, q.name)
        /\ ChangeFile(r, q.name, Written(file[r][q.name], q.off, q.n))
  /\ Overtaken(r)
  /\ UNCHANGED <<mount, minLen, items, open, rb, clock, pc, job, age, historyVars>>

\* Another client writes a byte.
OtherWrite(r, n, off) ==
  /\ Others
  /\ Exists(r, n)
  /\ ChangeFile(r, n, WriteAt(file[r][n], off, 1))
  /\ UNCHANGED <<mount, minLen, items, late, open, rb, clock, pc, job, age, historyVars>>

-----------------------------------------------------------------------------
(* The read buffer *)

\* Mutant: a counter that went back counts as no time.
ExpiredSigned == clock - rb.ts > Ttl

\* now - timestamp > 5 * 18 in 32 unsigned bits: a counter that went back
\* (midnight) makes a huge difference.
Expired == clock < rb.ts \/ clock - rb.ts > Ttl

Emptied(b) == [b EXCEPT !.data = << >>]

\* The buffer after the check at the head of the handler.
Checked == IF Expired THEN Emptied(rb) ELSE rb

\* Mutant: the drive is left out of the comparison.
HoldsAnyDrive(b, d, c) == b.data # << >> /\ b.cluster = c

\* The buffer holds bytes of this drive's file with this handle.
Holds(b, d, c) == b.data # << >> /\ b.drive = d /\ b.cluster = c

\* The start of the block of m bytes that holds x: x & ~(m - 1).
Align(x, m) == x - (x % m)

\* The bytes of a READ of n bytes at pos that the buffer has.
Buffered(b, o, pos, n) ==
  IF Holds(b, o.drive, o.cluster) /\ Align(pos, minLen[o.drive]) = b.offset
  THEN Slice(b.data, pos - b.offset, n)
  ELSE << >>

\* Mutant: only a write that starts inside the buffered bytes counts.
OverlapsFromInside(b, o, pos, n) ==
  /\ Holds(b, o.drive, o.cluster)
  /\ pos < b.offset + Len(b.data)
  /\ n = 0 \/ pos >= b.offset

\* Does a WRITE of n bytes at pos touch buffered bytes?
Overlaps(b, o, pos, n) ==
  /\ Holds(b, o.drive, o.cluster)
  /\ pos < b.offset + Len(b.data)
  /\ n = 0 \/ pos + n > b.offset

-----------------------------------------------------------------------------
(* READ *)

Idle == pc = "idle" /\ UNCHANGED <<pc, job>>

\* READ ends: bytes go to the caller, the first ones out of the buffer.  The
\* histories compare them with the file the caller opened, and their age with
\* the time they may be kept.
Return(o, pos, n, bytes, buffered) ==
  /\ correct' = (correct /\ bytes = Slice(file[mount[o.drive]][o.name], pos, n))
  /\ inTime' = (inTime /\ (buffered # << >> => age <= Ttl))

\* A small READ that the buffer answers alone.
ReadHit(o, pos, n) ==
  /\ Idle
  /\ 0 < n /\ n < minLen[o.drive]
  /\ LET bytes == Buffered(Checked, o, pos, n)
     IN Len(bytes) = n /\ Return(o, pos, n, bytes, bytes)
  /\ rb' = Checked
  /\ UNCHANGED <<serverVars, open, clock, age>>

\* Where a small READ up to position "to", of which the bytes before "from"
\* are there, starts to read: it fetches the whole block that holds "to".
FetchFrom(from, to, m) == IF Align(to, m) > from THEN from ELSE Align(to, m)
FetchLen(from, to, m) == Align(to, m) + m - FetchFrom(from, to, m)

\* Mutant: the buffer keeps the reply from its first byte.
RefillWholeReply(o, from, to, m, reply) ==
  [drive |-> o.drive, cluster |-> o.cluster, offset |-> Align(to, m),
   data |-> reply, ts |-> clock]

\* The buffer filled with the part of the reply that belongs to that block.
Refill(o, from, to, m, reply) ==
  [drive |-> o.drive, cluster |-> o.cluster, offset |-> Align(to, m),
   data |-> SubSeq(reply, Align(to, m) - FetchFrom(from, to, m) + 1, Len(reply)),
   ts |-> clock]

\* A small READ of which the server is asked for the rest.
ReadMiss(o, pos, n) ==
  /\ Idle
  /\ 0 < n /\ n < minLen[o.drive]
  /\ Content(o) # NoFile
  /\ LET m == minLen[o.drive]
         have == Buffered(Checked, o, pos, n)
         from == pos + Len(have)
         at == FetchFrom(from, pos + n, m)
         reply == Slice(Content(o), at, FetchLen(from, pos + n, m))
         refill == at + Len(reply) > Align(pos + n, m)
     IN /\ Len(have) < n
        /\ rb' = IF refill THEN Refill(o, from, pos + n, m, reply) ELSE Checked
        /\ age' = IF refill THEN 0 ELSE age
        /\ Return(o, pos, n, have \o Slice(reply, from - at, n - Len(have)), have)
  /\ Overtaken(mount[o.drive])
  /\ UNCHANGED <<mount, minLen, file, items, changes, open, clock>>

\* A large READ goes past the buffer, in chunks.
ReadBegin(o, pos, n) ==
  /\ pc = "idle"
  /\ minLen[o.drive] <= n
  /\ pc' = "read"
  /\ job' = [o |-> o, pos |-> pos, n |-> n, data |-> << >>]
  /\ rb' = Checked
  /\ UNCHANGED <<serverVars, open, clock, age, historyVars>>

ReadNextChunk ==
  /\ pc = "read"
  /\ Content(job.o) # NoFile
  /\ LET left == job.n - Len(job.data)
         chunk == IF left < ReadChunk THEN left ELSE ReadChunk
         reply == Slice(Content(job.o), job.pos + Len(job.data), chunk)
         data == job.data \o reply
     IN IF Len(reply) < chunk \/ Len(data) = job.n
        THEN /\ pc' = "idle" /\ job' = NoJob
             /\ Return(job.o, job.pos, job.n, data, << >>)
        ELSE /\ job' = [job EXCEPT !.data = data]
             /\ UNCHANGED <<pc, historyVars>>
  /\ Overtaken(mount[job.o.drive])
  /\ UNCHANGED <<mount, minLen, file, items, changes, open, rb, clock, age>>

\* A chunk of a READ fails, or the file is gone: the READ returns an error.
ReadFails ==
  /\ pc = "read"
  /\ pc' = "idle" /\ job' = NoJob
  /\ UNCHANGED <<serverVars, open, rb, clock, age, historyVars>>

-----------------------------------------------------------------------------
(* WRITE *)

\* Bytes in the buffer that the call touches are invalid from here on.
WriteBegin(o, pos, n) ==
  /\ pc = "idle"
  /\ changes < MaxChanges
  /\ pc' = "write"
  /\ job' = [o |-> o, pos |-> pos, n |-> n, data |-> << >>]
  /\ rb' = IF Overlaps(Checked, o, pos, n) THEN Emptied(rb) ELSE Checked
  /\ UNCHANGED <<serverVars, open, clock, age, historyVars>>

ChunkLen == IF job.n > WriteChunk THEN WriteChunk ELSE job.n

\* The server writes k bytes of the next chunk: fewer when its disk is full.
WriteNextChunk(k) ==
  /\ pc = "write"
  /\ Content(job.o) # NoFile
  /\ k \in 0 .. ChunkLen
  /\ IF k = 0 /\ job.n > 0
     THEN UNCHANGED <<file, changes>>
     ELSE ChangeFile(mount[job.o.drive], PathOf(job.o),
                     Written(Content(job.o), job.pos, k))
  /\ IF k < ChunkLen \/ k = job.n
     THEN pc' = "idle" /\ job' = NoJob
     ELSE /\ job' = [job EXCEPT !.pos = @ + k, !.n = @ - k]
          /\ UNCHANGED pc
  /\ Overtaken(mount[job.o.drive])
  /\ UNCHANGED <<mount, minLen, items, open, rb, clock, age, historyVars>>

\* The reply of the server to a chunk is lost, for all retries.
WriteReplyLost ==
  /\ pc = "write" /\ "write" \in LostCalls
  /\ Content(job.o) # NoFile
  /\ ChangeFile(mount[job.o.drive], PathOf(job.o),
                Written(Content(job.o), job.pos, ChunkLen))
  /\ pc' = "idle" /\ job' = NoJob
  /\ Overtaken(mount[job.o.drive])
  /\ UNCHANGED <<mount, minLen, items, open, rb, clock, age, historyVars>>

\* The server answers with an error.
WriteRefused ==
  /\ pc = "write"
  /\ pc' = "idle" /\ job' = NoJob
  /\ Overtaken(mount[job.o.drive])
  /\ UNCHANGED <<mount, minLen, file, items, changes, open, rb, clock, age, historyVars>>

\* The request of a chunk is lost, or on its way for too long.
WriteFails ==
  /\ pc = "write" /\ "write" \in LostCalls
  /\ pc' = "idle" /\ job' = NoJob
  /\ late' = [late EXCEPT ![mount[job.o.drive]] =
                [name |-> PathOf(job.o), off |-> job.pos, n |-> ChunkLen]]
  /\ UNCHANGED <<mount, minLen, file, items, changes, open, rb, clock, age, historyVars>>

-----------------------------------------------------------------------------
(* OPEN, CREATE, EXTENDED_OPEN_CREATE, CLOSE *)

\* The reply names the file's handle; DOS has one more open file.
Opened(d, n) ==
  LET r == mount[d]
  IN /\ items' = [items EXCEPT ![r] = ItemsWith(r, n)]
     /\ open' = open \cup {[drive |-> d, name |-> n, cluster |-> HandleOf(r, n)]}
     /\ Overtaken(r)
     /\ UNCHANGED <<mount, minLen, clock, age, historyVars>>

\* OPEN, and EXTENDED_OPEN_CREATE of a file to be opened if it exists.
Open(d, n) ==
  /\ Idle
  /\ Exists(mount[d], n)
  /\ Opened(d, n)
  /\ rb' = Checked
  /\ UNCHANGED <<file, changes>>

\* CREATE: a file, old or new, is empty now, and so is the buffer.
Create(d, n) ==
  /\ Idle
  /\ ChangeFile(mount[d], n, << >>)
  /\ Opened(d, n)
  /\ rb' = Emptied(rb)

\* EXTENDED_OPEN_CREATE of a file that does not exist: result "created".
ExtendedCreate(d, n) ==
  /\ Idle
  /\ ~Exists(mount[d], n)
  /\ ChangeFile(mount[d], n, << >>)
  /\ Opened(d, n)
  /\ rb' = Checked

\* Mutant: the buffer is emptied for a file just created, not a replaced one.
ReplaceKeepingBuffer(d, n) ==
  /\ Idle
  /\ Exists(mount[d], n)
  /\ ChangeFile(mount[d], n, << >>)
  /\ Opened(d, n)
  /\ rb' = Checked

\* EXTENDED_OPEN_CREATE of a file to be replaced: result "truncated".
ExtendedReplace(d, n) ==
  /\ Idle
  /\ Exists(mount[d], n)
  /\ ChangeFile(mount[d], n, << >>)
  /\ Opened(d, n)
  /\ rb' = IF Holds(Checked, d, HandleOf(mount[d], n)) THEN Emptied(rb) ELSE Checked

\* CREATE is executed, but its reply is lost: an error, no open file.
CreateReplyLost(d, n) ==
  /\ Idle /\ "create" \in LostCalls
  /\ ChangeFile(mount[d], n, << >>)
  /\ items' = [items EXCEPT ![mount[d]] = ItemsWith(mount[d], n)]
  /\ Overtaken(mount[d])
  /\ rb' = Checked
  /\ UNCHANGED <<mount, minLen, open, clock, age, historyVars>>

\* CLOSE: DOS forgets the file, whether or not the request gets through.
Close(o) ==
  /\ Idle
  /\ open' = open \ {o}
  /\ rb' = Checked
  /\ UNCHANGED <<serverVars, clock, age, historyVars>>

-----------------------------------------------------------------------------
(* Other calls *)

InOpen(r, n) == \E o \in open : mount[o.drive] = r /\ o.name = n

\* DELETE of a file nobody has open.  The path keeps its handle.
Delete(d, n) ==
  /\ Idle /\ NameChanges
  /\ Exists(mount[d], n) /\ ~InOpen(mount[d], n)
  /\ ChangeFile(mount[d], n, NoFile)
  /\ Overtaken(mount[d])
  /\ rb' = Checked
  /\ UNCHANGED <<mount, minLen, items, open, clock, age, historyVars>>

\* RENAME of a file nobody has open to a name that is free.
Rename(d, n, m) ==
  /\ Idle /\ NameChanges
  /\ Exists(mount[d], n) /\ ~InOpen(mount[d], n) /\ ~Exists(mount[d], m)
  /\ changes < MaxChanges /\ changes' = changes + 1
  /\ file' = [file EXCEPT ![mount[d]][m] = file[mount[d]][n],
                          ![mount[d]][n] = NoFile]
  /\ Overtaken(mount[d])
  /\ rb' = Checked
  /\ UNCHANGED <<mount, minLen, items, open, clock, age, historyVars>>

\* Every other call for the drive, and every call that fails before it
\* changes anything: only the check at the head of the handler counts.
OtherCall ==
  /\ Idle
  /\ rb' = Checked
  /\ UNCHANGED <<serverVars, open, clock, age, historyVars>>

\* NETMOUNT UMOUNT d and MOUNT of any remote, no file being open on d.  The code
\* lets two drives be mounted from one remote; it keeps the buffer.
Remount(d, r, m) ==
  /\ Idle /\ Remounts
  /\ \A o \in open : o.drive # d
  /\ Aliases \/ \A e \in Drives \ {d} : mount[e] # r
  /\ mount' = [mount EXCEPT ![d] = r]
  /\ minLen' = [minLen EXCEPT ![d] = m]
  /\ UNCHANGED <<file, items, late, changes, open, rb, clock, age, historyVars>>

\* NMMANAGE sets MIN_READ_LEN of a mounted drive; the buffer stays as it is.
SetMinReadLen(d, m) ==
  /\ Idle
  /\ m # minLen[d]
  /\ minLen' = [minLen EXCEPT ![d] = m]
  /\ UNCHANGED <<mount, file, items, late, changes, open, rb, clock, age, historyVars>>

\* The timer interrupt; the BIOS counter starts again at midnight.
Tick ==
  /\ rb.data = << >> \/ age < MaxAge
  /\ clock' = IF clock + 1 = Day THEN 0 ELSE clock + 1
  /\ age' = IF rb.data = << >> THEN 0 ELSE age + 1
  /\ UNCHANGED <<serverVars, open, rb, pc, job, historyVars>>

Reads ==
  \/ \E o \in open, pos \in 0 .. MaxPos, n \in 1 .. MaxPos :
       ReadHit(o, pos, n) \/ ReadMiss(o, pos, n) \/ ReadBegin(o, pos, n)
  \/ ReadNextChunk \/ ReadFails

Writes ==
  \/ \E o \in open, pos \in 0 .. MaxPos : \E n \in 0 .. MaxPos - pos :
       WriteBegin(o, pos, n)
  \/ \E k \in 0 .. WriteChunk : WriteNextChunk(k)
  \/ WriteRefused \/ WriteReplyLost \/ WriteFails

Opens ==
  \/ \E d \in Drives, n \in Names :
       \/ Open(d, n) \/ Create(d, n)
       \/ ExtendedCreate(d, n) \/ ExtendedReplace(d, n)
       \/ CreateReplyLost(d, n)
  \/ \E o \in open : Close(o)

OtherCalls ==
  \/ \E d \in Drives, n \in Names :
       Delete(d, n) \/ \E m \in Names : Rename(d, n, m)
  \/ \E d \in Drives, m \in MinReadLens :
       SetMinReadLen(d, m) \/ \E r \in Remotes : Remount(d, r, m)
  \/ OtherCall

Environment ==
  \/ \E r \in Remotes :
       ExecuteLate(r) \/ \E n \in Names, off \in 0 .. MaxPos - 1 : OtherWrite(r, n, off)
  \/ Tick

Next == Reads \/ Writes \/ Opens \/ OtherCalls \/ Environment

Spec == Init /\ [][Next]_vars

-----------------------------------------------------------------------------
(* Properties *)

\* The variables have their types; every open file has a handle its server knows,
\* and the buffer never holds more than fits into it.
TypeOK ==
  /\ mount \in [Drives -> Remotes] /\ minLen \in [Drives -> MinReadLens]
  /\ \A r \in Remotes, n \in Names : file[r][n] # NoFile =>
       Len(file[r][n]) <= MaxPos /\ \A i \in 1 .. Len(file[r][n]) : file[r][n][i] \in Byte
  /\ \A o \in open : o \in OpenFile /\ o.cluster \in 1 .. Len(items[mount[o.drive]])
  /\ Len(rb.data) <= BufferSize
  /\ clock \in 0 .. Day - 1

\* Every READ returns the bytes the file holds at that moment: small reads
\* out of the buffer or around it, across its edges and the end of the file,
\* and large ones in chunks, whatever was written, truncated or replaced
\* through the same drive before, whether or not those calls succeeded, and
\* whenever MIN_READ_LEN is set to another value.  Where files change at all,
\* each drive has a remote of its own (~Aliases): a WRITE through another drive
\* mounted from the same remote leaves the buffer, as the test of drive_no in
\* WRITE says, and READ returns the old bytes for Ttl ticks.
ReadCorrect == correct

\* The buffer never holds anything but the bytes of the server's file,
\* although nobody tells the client when a failed write is executed.  Here too
\* each drive has a remote of its own.
BufferCoherent ==
  rb.data # << >> =>
    LET r == mount[rb.drive]
        s == file[r][items[r][rb.cluster]]
    IN s # NoFile /\ rb.data = Slice(s, rb.offset, Len(rb.data))

\* Bytes that another client, or this one through another drive mounted from
\* the same remote, may have changed are served from the buffer for Ttl ticks
\* (5 seconds) at most, across midnight too.
ServedInTime == inTime
=============================================================================
